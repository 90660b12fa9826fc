--------------------------- MODULE HBBufferProof ---------------------------
(***************************************************************************)
(* Proofs about HBBuffer, for every number of threads, every topology,     *)
(* every graph of tasks and every ranks: after the setup each thread knows *)
(* the queue of every thread, once, and a pop takes the best of the tasks  *)
(* it cannot have missed.                                                  *)
(***************************************************************************)
EXTENDS HBBuffer, WellFoundedInduction, FiniteSetTheorems, TLAPS

-----------------------------------------------------------------------------
(* Sequences that name each element of a set once.                         *)

Enumerates(s, S) ==
    /\ s \in Seq(S)
    /\ \A i, j \in DOMAIN s : s[i] = s[j] => i = j
    /\ \A x \in S : \E i \in DOMAIN s : s[i] = x

LEMMA EmptyEnumerates == Enumerates(<<>>, {})
  BY DEF Enumerates

LEMMA OneEnumerates ==
    ASSUME NEW x
    PROVE  Enumerates(<<x>>, {x})
  BY DEF Enumerates

LEMMA ConcatEnumerates ==
    ASSUME NEW S, NEW T, NEW s, NEW t, Enumerates(s, S), Enumerates(t, T), S \cap T = {}
    PROVE  Enumerates(s \o t, S \cup T)
<1> PICK m, n : m = Len(s) /\ n = Len(t)
  OBVIOUS
<1>a. /\ s \in Seq(S) /\ t \in Seq(T)
      /\ \A i, j \in DOMAIN s : s[i] = s[j] => i = j
      /\ \A i, j \in DOMAIN t : t[i] = t[j] => i = j
  BY DEF Enumerates
<1>1. /\ s \in Seq(S) /\ t \in Seq(T) /\ m \in Nat /\ n \in Nat
      /\ DOMAIN s = 1..m /\ DOMAIN t = 1..n
      /\ \A i \in 1..m : s[i] \in S
      /\ \A i \in 1..n : t[i] \in T
      /\ \A i, j \in 1..m : s[i] = s[j] => i = j
      /\ \A i, j \in 1..n : t[i] = t[j] => i = j
  BY <1>a
<1>2. s \in Seq(S \cup T) /\ t \in Seq(S \cup T)
  BY <1>1
<1>3. /\ s \o t \in Seq(S \cup T) /\ Len(s \o t) = m + n /\ DOMAIN (s \o t) = 1..(m + n)
      /\ \A i \in 1..(m + n) : (s \o t)[i] = IF i <= m THEN s[i] ELSE t[i - m]
  BY <1>1, <1>2
<1>4. ASSUME NEW i \in 1..(m + n), NEW j \in 1..(m + n), (s \o t)[i] = (s \o t)[j]
      PROVE  i = j
  <2>1. CASE i <= m /\ j <= m
    <3>1. i \in 1..m /\ j \in 1..m /\ s[i] = s[j]
      BY <1>1, <1>3, <1>4, <2>1
    <3> QED BY <1>1, <3>1
  <2>2. CASE ~ (i <= m) /\ ~ (j <= m)
    <3>1. i - m \in 1..n /\ j - m \in 1..n /\ t[i - m] = t[j - m]
      BY <1>1, <1>3, <1>4, <2>2
    <3>2. i - m = j - m
      BY <1>1, <3>1
    <3> QED BY <1>1, <3>2
  <2>3. CASE i <= m /\ ~ (j <= m)
    <3>1. j - m \in 1..n /\ s[i] = t[j - m] /\ i \in 1..m
      BY <1>1, <1>3, <1>4, <2>3
    <3> QED BY <1>1, <3>1
  <2>4. CASE ~ (i <= m) /\ j <= m
    <3>1. i - m \in 1..n /\ t[i - m] = s[j] /\ j \in 1..m
      BY <1>1, <1>3, <1>4, <2>4
    <3> QED BY <1>1, <3>1
  <2> QED BY <2>1, <2>2, <2>3, <2>4
<1>5. ASSUME NEW x \in S \cup T
      PROVE  \E i \in 1..(m + n) : (s \o t)[i] = x
  <2>1. CASE x \in S
    <3>1. PICK i \in 1..m : s[i] = x
      BY <1>1, <2>1 DEF Enumerates
    <3> QED BY <1>1, <1>3, <3>1
  <2>2. CASE x \in T
    <3>1. PICK i \in 1..n : t[i] = x
      BY <1>1, <2>2 DEF Enumerates
    <3>2. i + m \in 1..(m + n) /\ ~ (i + m <= m) /\ (i + m) - m = i
      BY <1>1
    <3> QED BY <1>3, <3>1, <3>2
  <2> QED BY <2>1, <2>2
<1> QED BY <1>3, <1>4, <1>5 DEF Enumerates

\* Its length is the number of elements.
LEMMA EnumeratesLen ==
    ASSUME NEW S, NEW s, Enumerates(s, S)
    PROVE  /\ IsFiniteSet(S) /\ Len(s) \in Nat /\ Len(s) = Cardinality(S)
           /\ DOMAIN s = 1..Len(s) /\ ToSet(s) = S
<1>1. Len(s) \in Nat /\ DOMAIN s = 1..Len(s) /\ s \in [1..Len(s) -> S]
  BY DEF Enumerates
<1>2. IsFiniteSet(1..Len(s)) /\ Cardinality(1..Len(s)) = Len(s)
  BY <1>1, FS_Interval
<1>3. s \in Bijection(1..Len(s), S)
  BY <1>1 DEF Enumerates, Bijection, Injection, Surjection, IsInjective
<1>4. ExistsBijection(1..Len(s), S)
  BY <1>3 DEF ExistsBijection
<1>5. ToSet(s) = S
  BY <1>1 DEF ToSet, Enumerates
<1> QED BY <1>1, <1>2, <1>4, <1>5, FS_Bijection

\* Every set of numbers but the empty one has a least element.
LEMMA LeastElement ==
    ASSUME NEW S \in SUBSET Nat, S # {}
    PROVE  \E x \in S : \A y \in S : x <= y
<1>1. PICK x \in S : \A y \in S : ~ (<<y, x>> \in OpToRel(<, Nat))
  BY WFMin, NatLessThanWellFounded
<1>2. \A y \in S : x <= y
  <2> TAKE y \in S
  <2>1. <<y, x>> \in Nat \X Nat => ~ (y < x)
    BY <1>1 DEF OpToRel
  <2> QED BY <2>1
<1> QED BY <1>2

\* The prefixes that FlattenSeq concatenates.
RunningConcat(s, n, f) == f = [i \in 1..n |-> IF i = 1 THEN s[i] ELSE f[i - 1] \o s[i]]

LEMMA RunningConcatExists ==
    ASSUME NEW s, NEW n \in Nat \ {0}
    PROVE  \E f : RunningConcat(s, n, f)
<1> DEFINE Bad == {k \in Nat \ {0} : ~ \E f : RunningConcat(s, k, f)}
<1>1. SUFFICES ASSUME Bad # {} PROVE FALSE
  OBVIOUS
<1>2. PICK k \in Bad : \A y \in Bad : k <= y
  BY <1>1, LeastElement
<1>3. CASE k = 1
  <2>1. \E g : g = [i \in 1..1 |-> s[i]]
    OBVIOUS
  <2>2. PICK g : g = [i \in 1..1 |-> s[i]]
    BY <2>1
  <2>3. RunningConcat(s, 1, g)
    BY <2>2 DEF RunningConcat
  <2> QED BY <1>3, <2>3
<1>4. CASE k # 1
  <2>1. k \in Nat /\ k - 1 \in Nat \ {0} /\ ~ (k <= k - 1) /\ k - 1 \in 1..k
    BY <1>4
  <2>2. PICK f : RunningConcat(s, k - 1, f)
    BY <1>2, <2>1
  <2>3. PICK g : g = [i \in 1..k |-> IF i = k THEN f[k - 1] \o s[k] ELSE f[i]]
    OBVIOUS
  <2>4. ASSUME NEW i \in 1..k PROVE g[i] = IF i = 1 THEN s[i] ELSE g[i - 1] \o s[i]
    <3>1. CASE i = k
      <4>1. g[k - 1] = f[k - 1]
        BY <2>1, <2>3
      <4>2. g[k] = f[k - 1] \o s[k]
        BY <2>3, <2>4, <3>1
      <4> QED BY <1>4, <3>1, <4>1, <4>2
    <3>2. CASE i # k
      <4>1. i \in 1..(k - 1) /\ g[i] = f[i]
        BY <2>3, <3>2
      <4>2. f[i] = IF i = 1 THEN s[i] ELSE f[i - 1] \o s[i]
        BY <2>2, <4>1 DEF RunningConcat
      <4>3. i # 1 => i - 1 \in 1..k /\ i - 1 # k /\ g[i - 1] = f[i - 1]
        BY <2>3, <4>1
      <4> QED BY <4>1, <4>2, <4>3
    <3> QED BY <3>1, <3>2
  <2>5. RunningConcat(s, k, g)
    BY <2>3, <2>4 DEF RunningConcat
  <2> QED BY <2>5
<1> QED BY <1>3, <1>4

LEMMA FlattenEnumerates ==
    ASSUME NEW n \in Nat, NEW s, s = [i \in 1..n |-> s[i]], NEW part,
           \A i \in 1..n : Enumerates(s[i], part[i]),
           \A i, j \in 1..n : i # j => part[i] \cap part[j] = {}
    PROVE  Enumerates(FlattenSeq(s), UNION {part[i] : i \in 1..n})
<1>1. s \in [1..n -> {s[i] : i \in 1..n}]
  OBVIOUS
<1>2. Len(s) = n
  BY <1>1
<1>3. CASE n = 0
  <2>1. s \in Seq({}) /\ Len(s) = 0
    BY <1>1, <1>2, <1>3
  <2>2. s = <<>>
    BY <2>1
  <2>3. FlattenSeq(s) = <<>>
    BY <2>1, <2>2 DEF FlattenSeq
  <2>4. UNION {part[i] : i \in 1..n} = {}
    BY <1>3
  <2> QED BY <2>3, <2>4, EmptyEnumerates
<1>4. CASE n # 0
  <2> PICK f : f = CHOOSE g : RunningConcat(s, n, g)
    OBVIOUS
  <2>1. RunningConcat(s, n, f)
    BY <1>4, RunningConcatExists
  <2>2. FlattenSeq(s) = f[n]
    BY <1>2, <1>4 DEF FlattenSeq, RunningConcat
  <2> DEFINE Upto(k) == UNION {part[i] : i \in 1..k}
             Bad == {k \in 1..n : ~ Enumerates(f[k], Upto(k))}
  <2>3. Bad = {}
    <3> SUFFICES ASSUME Bad # {} PROVE FALSE
      OBVIOUS
    <3>1. Bad \in SUBSET Nat
      OBVIOUS
    <3>2. PICK k \in Bad : \A y \in Bad : k <= y
      BY <3>1, LeastElement
    <3>3. k \in 1..n /\ ~ Enumerates(f[k], Upto(k))
      BY <3>2
    <3>4. f[k] = IF k = 1 THEN s[k] ELSE f[k - 1] \o s[k]
      BY <2>1, <3>3 DEF RunningConcat
    <3>5. Enumerates(s[k], part[k])
      BY <3>3
    <3>6. CASE k = 1
      <4>1. Upto(k) = part[k]
        BY <3>6
      <4> QED BY <3>3, <3>4, <3>5, <3>6, <4>1
    <3>7. CASE k # 1
      <4>1. k - 1 \in 1..n /\ ~ (k <= k - 1)
        BY <3>3, <3>7
      <4>2. Enumerates(f[k - 1], Upto(k - 1))
        BY <3>2, <4>1
      <4>3. Upto(k) = Upto(k - 1) \cup part[k]
        <5>1. 1..k = (1..(k - 1)) \cup {k}
          BY <3>3, <4>1
        <5> QED BY <5>1
      <4>4. Upto(k - 1) \cap part[k] = {}
        <5>1. \A i \in 1..(k - 1) : i \in 1..n /\ i # k
          BY <3>3
        <5>2. \A i \in 1..(k - 1) : part[i] \cap part[k] = {}
          BY <3>3, <5>1
        <5> QED BY <5>2
      <4> HIDE DEF Upto
      <4>5. Enumerates(f[k - 1] \o s[k], Upto(k - 1) \cup part[k])
        BY <3>5, <4>2, <4>4, ConcatEnumerates
      <4> QED BY <3>3, <3>4, <3>7, <4>3, <4>5
    <3> QED BY <3>6, <3>7
  <2>4. n \in 1..n
    BY <1>4
  <2> HIDE DEF Upto
  <2>5. Enumerates(f[n], Upto(n))
    BY <2>3, <2>4
  <2> QED BY <2>2, <2>5 DEF Upto
<1> QED BY <1>3, <1>4

-----------------------------------------------------------------------------
(* The other threads, from the closest to the farthest.                    *)

\* Going round the cores from the next one meets every other thread once.
NextCore(w, i) == (w + i) % NbCores

LEMMA RoundTheCores ==
    ASSUME NEW w \in Workers
    PROVE  /\ \A i \in 1..(NbCores - 1) : NextCore(w, i) = IF w + i < NbCores THEN w + i ELSE w + i - NbCores
           /\ \A i \in 1..(NbCores - 1) : NextCore(w, i) \in Workers \ {w}
           /\ \A i, j \in 1..(NbCores - 1) : NextCore(w, i) = NextCore(w, j) => i = j
           /\ \A v \in Workers \ {w} : \E i \in 1..(NbCores - 1) : NextCore(w, i) = v
<1>1. NbCores \in Nat \ {0} /\ w \in 0..(NbCores - 1) /\ Workers = 0..(NbCores - 1)
  BY HBBufferAssumption DEF Workers
<1>2. \A x \in 0..(NbCores - 1) : x % NbCores = x
  BY <1>1, Z3
<1>3. \A x \in NbCores..(NbCores + NbCores - 1) : x % NbCores = x - NbCores
  BY <1>1, Z3
<1>4. ASSUME NEW i \in 1..(NbCores - 1)
      PROVE  NextCore(w, i) = IF w + i < NbCores THEN w + i ELSE w + i - NbCores
  <2>1. CASE w + i < NbCores
    <3>1. w + i \in 0..(NbCores - 1)
      BY <1>1, <2>1
    <3>2. (w + i) % NbCores = w + i
      BY <1>2, <3>1
    <3> QED BY <2>1, <3>2 DEF NextCore
  <2>2. CASE ~ (w + i < NbCores)
    <3>1. PICK x : x = w + i
      OBVIOUS
    <3>2. x \in NbCores..(NbCores + NbCores - 1)
      BY <1>1, <2>2, <3>1
    <3>3. x % NbCores = x - NbCores
      BY <1>3, <3>2, Zenon
    <3>4. NextCore(w, i) = x % NbCores
      BY <3>1, Zenon DEF NextCore
    <3>5. NextCore(w, i) = x - NbCores
      BY <3>3, <3>4, Zenon
    <3> QED BY <1>1, <2>2, <3>1, <3>5
  <2> QED BY <2>1, <2>2
<1>5. ASSUME NEW v \in Workers \ {w}
      PROVE  \E i \in 1..(NbCores - 1) : NextCore(w, i) = v
  <2>1. CASE w < v
    <3>1. v - w \in 1..(NbCores - 1) /\ w + (v - w) < NbCores /\ w + (v - w) = v
      BY <1>1, <2>1
    <3>2. NextCore(w, v - w) = v
      BY <1>4, <3>1
    <3> QED BY <3>1, <3>2
  <2>2. CASE v < w
    <3>1. /\ v - w + NbCores \in 1..(NbCores - 1) /\ ~ (w + (v - w + NbCores) < NbCores)
          /\ w + (v - w + NbCores) - NbCores = v
      BY <1>1, <2>2
    <3>2. NextCore(w, v - w + NbCores) = v
      BY <1>4, <3>1
    <3> QED BY <3>1, <3>2
  <2> QED BY <1>1, <2>1, <2>2
<1>6. \A i \in 1..(NbCores - 1) : NextCore(w, i) \in Workers \ {w}
  BY <1>1, <1>4
<1>7. \A i, j \in 1..(NbCores - 1) : NextCore(w, i) = NextCore(w, j) => i = j
  <2> TAKE i, j \in 1..(NbCores - 1)
  <2> HAVE NextCore(w, i) = NextCore(w, j)
  <2>1. PICK a, b : /\ a = NextCore(w, i) /\ a = IF w + i < NbCores THEN w + i ELSE w + i - NbCores
                    /\ b = NextCore(w, j) /\ b = IF w + j < NbCores THEN w + j ELSE w + j - NbCores
    BY <1>4
  <2>2. a = b
    BY <2>1
  <2> QED BY <1>1, <2>1, <2>2
<1> QED BY <1>4, <1>5, <1>6, <1>7

\* The threads at a level, and the levels of the machine, which are all.
AtDistance(w, level) == {v \in Workers \ {w} : Distance(w, v) \in {2 * level, 2 * level + 1}}

LEMMA LevelEnumerates ==
    ASSUME NEW w \in Workers, NEW level \in Nat
    PROVE  Enumerates(AtLevel(w, level), AtDistance(w, level))
<1>1. NbCores - 1 \in Nat
  BY HBBufferAssumption
<1> DEFINE Near(i) == Distance(w, NextCore(w, i)) \in {2 * level, 2 * level + 1}
           s == [i \in 1..(NbCores - 1) |-> IF Near(i) THEN <<NextCore(w, i)>> ELSE <<>>]
           part == [i \in 1..(NbCores - 1) |-> IF Near(i) THEN {NextCore(w, i)} ELSE {}]
<1>2. AtLevel(w, level) = FlattenSeq(s)
  BY DEF AtLevel, NextCore
<1>3. ASSUME NEW i \in 1..(NbCores - 1) PROVE Enumerates(s[i], part[i])
  <2>1. CASE Near(i)
    <3>1. s[i] = <<NextCore(w, i)>> /\ part[i] = {NextCore(w, i)}
      BY <2>1
    <3> QED BY <3>1, OneEnumerates
  <2>2. CASE ~ Near(i)
    <3>1. s[i] = <<>> /\ part[i] = {}
      BY <2>2
    <3> QED BY <3>1, EmptyEnumerates
  <2> QED BY <2>1, <2>2
<1>4. ASSUME NEW i \in 1..(NbCores - 1), NEW j \in 1..(NbCores - 1), i # j
      PROVE  part[i] \cap part[j] = {}
  BY <1>4, RoundTheCores
<1>5. UNION {part[i] : i \in 1..(NbCores - 1)} = AtDistance(w, level)
  <2>1. ASSUME NEW v \in AtDistance(w, level) PROVE \E i \in 1..(NbCores - 1) : v \in part[i]
    <3>1. v \in Workers \ {w} /\ Distance(w, v) \in {2 * level, 2 * level + 1}
      BY DEF AtDistance
    <3>2. PICK i \in 1..(NbCores - 1) : NextCore(w, i) = v
      BY <3>1, RoundTheCores
    <3> QED BY <3>1, <3>2
  <2>2. ASSUME NEW i \in 1..(NbCores - 1), NEW v \in part[i] PROVE v \in AtDistance(w, level)
    <3>1. Near(i) /\ v = NextCore(w, i)
      OBVIOUS
    <3>2. v \in Workers \ {w}
      BY <3>1, RoundTheCores
    <3> QED BY <3>1, <3>2 DEF AtDistance
  <2> QED BY <2>1, <2>2
<1>6. s = [i \in 1..(NbCores - 1) |-> s[i]]
  OBVIOUS
<1> HIDE DEF s, part
<1>7. Enumerates(FlattenSeq(s), UNION {part[i] : i \in 1..(NbCores - 1)})
  BY <1>1, <1>3, <1>4, <1>6, FlattenEnumerates
<1> QED BY <1>2, <1>5, <1>7

LEMMA DistanceHasLevel ==
    ASSUME NEW a, NEW b
    PROVE  \E level \in 0..NbLevels : Distance(a, b) = 2 * level
<1> DEFINE common == {n \in 0..NbLevels : Above(a, n) # Null /\ Above(a, n) = Above(b, n)}
<1>1. NbLevels \in Nat
  BY HBBufferAssumption
<1>2. CASE common = {}
  <2>1. Distance(a, b) = 0
    BY <1>2 DEF Distance
  <2> QED BY <1>1, <2>1
<1>3. CASE common # {}
  <2>1. common \in SUBSET Nat
    BY <1>1
  <2>2. \E n \in common : \A m \in common : n <= m
    BY <1>3, <2>1, LeastElement
  <2>3. Distance(a, b) = 2 * (CHOOSE n \in common : \A m \in common : n <= m)
    BY <1>3 DEF Distance
  <2>4. (CHOOSE n \in common : \A m \in common : n <= m) \in common
    BY <2>2
  <2> QED BY <2>3, <2>4
<1> QED BY <1>2, <1>3

LEMMA DistancesEnumerate ==
    ASSUME NEW w \in Workers
    PROVE  Enumerates(ByDistance(w), Workers \ {w})
<1>1. NbLevels \in Nat
  BY HBBufferAssumption
<1> DEFINE n == NbLevels + 1
           s == [l \in 1..n |-> AtLevel(w, l - 1)]
           part == [l \in 1..n |-> AtDistance(w, l - 1)]
<1>2. ByDistance(w) = FlattenSeq(s)
  BY DEF ByDistance
<1>3. ASSUME NEW l \in 1..n PROVE Enumerates(s[l], part[l])
  <2>1. l - 1 \in Nat /\ s[l] = AtLevel(w, l - 1) /\ part[l] = AtDistance(w, l - 1)
    BY <1>1
  <2> QED BY <2>1, LevelEnumerates
<1>4. ASSUME NEW l \in 1..n, NEW k \in 1..n, l # k
      PROVE  part[l] \cap part[k] = {}
  <2> SUFFICES ASSUME NEW v \in part[l], v \in part[k] PROVE FALSE
    OBVIOUS
  <2>1. /\ Distance(w, v) \in {2 * (l - 1), 2 * (l - 1) + 1}
        /\ Distance(w, v) \in {2 * (k - 1), 2 * (k - 1) + 1}
    BY DEF AtDistance
  <2> QED BY <1>1, <1>4, <2>1
<1>5. UNION {part[l] : l \in 1..n} = Workers \ {w}
  <2>1. ASSUME NEW v \in Workers \ {w} PROVE \E l \in 1..n : v \in part[l]
    <3>1. PICK level \in 0..NbLevels : Distance(w, v) = 2 * level
      BY DistanceHasLevel
    <3>2. v \in AtDistance(w, level)
      BY <3>1 DEF AtDistance
    <3>3. level + 1 \in 1..n /\ (level + 1) - 1 = level
      BY <1>1
    <3> QED BY <3>2, <3>3
  <2>2. ASSUME NEW l \in 1..n PROVE part[l] \subseteq Workers \ {w}
    BY DEF AtDistance
  <2> QED BY <2>1, <2>2
<1>6. s = [l \in 1..n |-> s[l]] /\ n \in Nat
  BY <1>1
<1> HIDE DEF s, part, n
<1>7. Enumerates(FlattenSeq(s), UNION {part[l] : l \in 1..n})
  BY <1>3, <1>4, <1>6, FlattenEnumerates
<1> QED BY <1>2, <1>5, <1>7

\* The queues a thread collects when every thread has made its own.
LEMMA QueuesEnumerate ==
    ASSUME NEW w \in Workers
    PROVE  Enumerates(<<w>> \o ByDistance(w), Workers)
<1>1. Enumerates(<<w>> \o ByDistance(w), {w} \cup (Workers \ {w}))
  BY OneEnumerates, DistancesEnumerate, ConcatEnumerates
<1>2. {w} \cup (Workers \ {w}) = Workers
  OBVIOUS
<1> QED BY <1>1, <1>2

-----------------------------------------------------------------------------
(* The invariant.                                                          *)

Labels == {"init", "system_wait", "buffer_wait", "app", "begin", "begin_wait", "loop", "scan", "take",
           "missed", "system", "system_locked", "done_task", "execute", "running", "push", "overflow",
           "overflow_locked", "end", "end_wait", "out", "idle"}

TypeOK ==
    /\ items \in [Workers -> [Slots -> Tasks \cup {Null}]]
    /\ sysq \in Seq(Tasks)
    /\ made \subseteq Workers /\ system \subseteq Workers
    /\ queues \in [Workers -> Seq(Workers \cup {Nobody})]
    /\ bar \in [Workers -> Nat]
    /\ pc \in [Pushers -> Labels]
    /\ turn \in [Workers -> Nat] /\ idx \in [Pushers -> Nat]
    /\ best \in [Workers -> Tasks \cup {Null}] /\ bestidx \in [Workers -> Slots]
    /\ present \in [Workers -> SUBSET Tasks]
    /\ hand \in [Pushers -> Seq(Tasks)]
    /\ cur \in [Workers -> Tasks \cup {Null}]
    /\ received \in Nat

\* Where a thread is says how many barriers it has met, and that says whose
\* buffers there are.
SetupOf(w) ==
    /\ pc[w] = "init" => bar[w] = 0
    /\ pc[w] = "system_wait" => bar[w] = 1
    /\ pc[w] = "buffer_wait" => bar[w] = 2
    /\ bar[w] >= 1 /\ w = Master => w \in system
    /\ bar[w] >= 2 => w \in made /\ w \in system
    /\ pc[w] \notin Setup => bar[w] >= 2 /\ Enumerates(queues[w], Workers) /\ queues[w][1] = w

\* A pusher has something to store and a slot to look at; a thread that runs a
\* task has one.
PushOf(w) == pc[w] = "push" => hand[w] # <<>> /\ idx[w] \in Slots
CurOf(w)  == pc[w] \in {"done_task", "execute", "running"} => cur[w] \in Tasks

\* Every task in present is still in its slot; one the scan has passed is no
\* better than the best so far.
PopOf(w) ==
    /\ pc[w] \in {"scan", "take", "missed"} => turn[w] \in 0..NbCores
    /\ pc[w] = "scan" => idx[w] \in Slots
    /\ pc[w] \in {"scan", "take"} => \A t \in present[w] : \E j \in Slots :
           /\ items[Buffer(w)][j] = t
           /\ pc[w] = "scan" /\ j < idx[w] => best[w] # Null /\ Rank[t] <= Rank[best[w]]
    /\ pc[w] = "take" => best[w] # Null /\ \A t \in present[w] : Rank[t] <= Rank[best[w]]
    /\ pc[w] \in {"missed", "system", "system_locked"} => present[w] = {}
    /\ pc[w] = "done_task" /\ best[w] = cur[w] => \A t \in present[w] : Rank[t] <= Rank[cur[w]]

IInv ==
    /\ TypeOK
    /\ \A w \in Workers : SetupOf(w) /\ CurOf(w) /\ PopOf(w)
    /\ \A w \in Pushers : PushOf(w)

-----------------------------------------------------------------------------
(* What a step leaves to the other threads.                                *)

\* Nothing of what a thread knows of itself changes.
Same(w) ==
    /\ pc'[w] = pc[w] /\ idx'[w] = idx[w] /\ turn'[w] = turn[w] /\ best'[w] = best[w]
    /\ cur'[w] = cur[w] /\ queues'[w] = queues[w]

\* What is still present for a thread stays in its slot.
Kept(w) ==
    /\ present'[w] \subseteq present[w]
    /\ \A b \in Workers, j \in Slots : items[b][j] \in present'[w] => items'[b][j] = items[b][j]

LEMMA Sizes ==
    /\ NbCores \in Nat \ {0} /\ QueueSize \in Nat \ {0} /\ Best \in Nat
    /\ Null \notin Tasks /\ Rank \in [Tasks -> 0..Best]
    /\ Workers = 0..(NbCores - 1) /\ Slots = 0..(QueueSize - 1) /\ Slots \subseteq Nat
    /\ Master \in Workers /\ Comm \notin Workers
    /\ Workers \subseteq Pushers /\ Comm \in Pushers /\ Workers \subseteq Int
    /\ \A w \in Pushers : Target(w) \in Workers
  BY HBBufferAssumption DEF Workers, Slots, Master, Comm, Pushers, Target

LEMMA QueueLength ==
    ASSUME NEW s, Enumerates(s, Workers)
    PROVE  Len(s) = NbCores /\ s \in Seq(Workers)
<1>1. IsFiniteSet(Workers) /\ Cardinality(Workers) = NbCores
  <2>1. Cardinality(0..(NbCores - 1)) = NbCores /\ IsFiniteSet(0..(NbCores - 1))
    BY Sizes, FS_Interval
  <2> QED BY <2>1 DEF Workers
<1> QED BY <1>1, EnumeratesLen DEF Enumerates

\* The buffer a thread looks into is that of a thread.
LEMMA BufferIsAWorker ==
    ASSUME NEW w \in Workers, NEW n \in 0..NbCores, Enumerates(queues[w], Workers)
    PROVE  (IF n = 0 THEN w ELSE queues[w][n]) \in Workers
<1>1. Len(queues[w]) = NbCores /\ queues[w] \in Seq(Workers)
  BY QueueLength
<1> QED BY <1>1

LEMMA OtherPop ==
    ASSUME NEW w \in Workers, TypeOK, PopOf(w), pc[w] \notin Setup, SetupOf(w), Same(w), Kept(w)
    PROVE  PopOf(w)'
<1>1. \A t \in present'[w] : t \in present[w]
  BY DEF Kept
<1>2. CASE pc[w] \in {"scan", "take"}
  <2>1. Buffer(w)' = Buffer(w)
    BY DEF Buffer, Same
  <2>2. Buffer(w) \in Workers
    BY <1>2, BufferIsAWorker DEF PopOf, SetupOf, Buffer
  <2>3. ASSUME NEW t \in present'[w]
        PROVE  \E j \in Slots : /\ items'[Buffer(w)][j] = t
                                /\ pc[w] = "scan" /\ j < idx[w] => best[w] # Null /\ Rank[t] <= Rank[best[w]]
    <3>1. PICK j \in Slots : /\ items[Buffer(w)][j] = t
                             /\ pc[w] = "scan" /\ j < idx[w] => best[w] # Null /\ Rank[t] <= Rank[best[w]]
      BY <1>1, <1>2 DEF PopOf
    <3>2. items'[Buffer(w)][j] = t
      BY <2>2, <3>1 DEF Kept
    <3> QED BY <3>1, <3>2
  <2>4. /\ pc[w] = "scan" => idx[w] \in Slots
        /\ turn[w] \in 0..NbCores
        /\ pc[w] = "take" => best[w] # Null /\ \A t \in present[w] : Rank[t] <= Rank[best[w]]
    BY <1>2 DEF PopOf
  <2> QED BY <1>1, <1>2, <2>1, <2>3, <2>4 DEF PopOf, Same
<1>3. CASE pc[w] \notin {"scan", "take"}
  BY <1>1, <1>3 DEF PopOf, Same
<1> QED BY <1>2, <1>3

\* A thread in setup pops nothing.
LEMMA OtherThread ==
    ASSUME NEW w \in Workers, TypeOK, SetupOf(w), CurOf(w), PopOf(w), Same(w), Kept(w),
           bar'[w] = bar[w], made \subseteq made', system \subseteq system'
    PROVE  SetupOf(w)' /\ CurOf(w)' /\ PopOf(w)'
<1>0. pc'[w] = pc[w] /\ queues'[w] = queues[w] /\ cur'[w] = cur[w]
  BY DEF Same
<1>1. CurOf(w)'
  BY <1>0 DEF CurOf
<1>a. SetupOf(w)'
  BY <1>0 DEF SetupOf, Setup
<1>2. CASE pc[w] \in Setup
  <2>1. pc'[w] \in {"init", "system_wait", "buffer_wait"}
    BY <1>0, <1>2 DEF Setup
  <2> QED BY <1>1, <1>a, <2>1 DEF PopOf
<1>3. CASE pc[w] \notin Setup
  BY <1>1, <1>a, <1>3, OtherPop
<1> QED BY <1>2, <1>3

\* A step that takes nothing away keeps what is present.
LEMMA UnchangedKept ==
    ASSUME UNCHANGED <<items, present>>
    PROVE  \A w \in Workers : Kept(w)
  BY DEF Kept

\* What a step of one thread leaves to the others, and what it has to keep of
\* its own.
Others(v) ==
    /\ \A w \in Workers \ {v} : Same(w) /\ Kept(w) /\ bar'[w] = bar[w]
    /\ \A w \in Pushers \ {v} : pc'[w] = pc[w] /\ hand'[w] = hand[w] /\ idx'[w] = idx[w]
    /\ made \subseteq made' /\ system \subseteq system'
Mine(v) == PushOf(v) /\ (v \in Workers => SetupOf(v) /\ CurOf(v) /\ PopOf(v))

LEMMA OneThread ==
    ASSUME IInv, TypeOK', NEW v \in Pushers, Others(v), Mine(v)'
    PROVE  IInv'
<1>1. TypeOK /\ (\A w \in Workers : SetupOf(w) /\ CurOf(w) /\ PopOf(w)) /\ \A w \in Pushers : PushOf(w)
  BY DEF IInv
<1>2. ASSUME NEW w \in Workers PROVE SetupOf(w)' /\ CurOf(w)' /\ PopOf(w)'
  <2>1. CASE w = v
    BY <2>1 DEF Mine
  <2>2. CASE w # v
    <3>1. Same(w) /\ Kept(w) /\ bar'[w] = bar[w] /\ made \subseteq made' /\ system \subseteq system'
      BY <2>2 DEF Others
    <3> QED BY <1>1, <3>1, OtherThread
  <2> QED BY <2>1, <2>2
<1>3. ASSUME NEW w \in Pushers PROVE PushOf(w)'
  <2>1. CASE w # v
    <3>1. pc'[w] = pc[w] /\ hand'[w] = hand[w] /\ idx'[w] = idx[w]
      BY <2>1 DEF Others
    <3> QED BY <1>1, <3>1 DEF PushOf
  <2>2. CASE w = v
    BY <2>2 DEF Mine
  <2> QED BY <2>1, <2>2
<1> QED BY <1>2, <1>3 DEF IInv

-----------------------------------------------------------------------------
(* The steps of the setup.                                                 *)

LEMMA FirstBarrierStep ==
    ASSUME IInv, NEW v \in Workers, FirstBarrier(v)
    PROVE  IInv'
<1>1. TypeOK /\ SetupOf(v) /\ CurOf(v) /\ PopOf(v) /\ v \in Pushers
  BY Sizes DEF IInv
<1>2. /\ pc[v] = "init" /\ pc' = [pc EXCEPT ![v] = "system_wait"] /\ bar' = [bar EXCEPT ![v] = @ + 1]
      /\ system' = IF v = Master THEN system \cup {v} ELSE system
      /\ UNCHANGED <<items, sysq, made, queues, turn, best, bestidx, present, idx, hand, cur, received>>
  BY DEF FirstBarrier, Goto, popVars
<1>3. TypeOK'
  <2>1. pc' \in [Pushers -> Labels]
    BY <1>1, <1>2 DEF TypeOK, Labels
  <2>2. bar' \in [Workers -> Nat]
    BY <1>1, <1>2 DEF TypeOK
  <2>3. system' \subseteq Workers
    BY <1>1, <1>2, Sizes DEF TypeOK
  <2> QED BY <1>1, <1>2, <2>1, <2>2, <2>3 DEF TypeOK
<1>4. bar'[v] = 1 /\ pc'[v] = "system_wait"
  BY <1>1, <1>2 DEF TypeOK, SetupOf
<1>5. Mine(v)'
  <2>1. SetupOf(v)'
    BY <1>2, <1>4 DEF SetupOf, Setup
  <2>2. CurOf(v)' /\ PushOf(v)' /\ PopOf(v)'
    BY <1>4 DEF CurOf, PushOf, PopOf
  <2> QED BY <2>1, <2>2 DEF Mine
<1>6. Others(v)
  <2>1. \A w \in Workers \ {v} : Same(w) /\ bar'[w] = bar[w]
    BY <1>1, <1>2, Sizes DEF Same, TypeOK
  <2>2. \A w \in Pushers \ {v} : pc'[w] = pc[w] /\ hand'[w] = hand[w] /\ idx'[w] = idx[w]
    BY <1>1, <1>2 DEF TypeOK
  <2>3. \A w \in Workers : Kept(w)
    BY <1>2, UnchangedKept
  <2>4. made \subseteq made' /\ system \subseteq system'
    BY <1>2
  <2> QED BY <2>1, <2>2, <2>3, <2>4 DEF Others
<1> QED BY <1>1, <1>3, <1>5, <1>6, OneThread

LEMMA MakeBufferStep ==
    ASSUME IInv, NEW v \in Workers, MakeBuffer(v)
    PROVE  IInv'
<1>1. TypeOK /\ SetupOf(v) /\ CurOf(v) /\ PopOf(v) /\ v \in Pushers
  BY Sizes DEF IInv
<1>2. /\ pc[v] = "system_wait" /\ Released(v) /\ pc' = [pc EXCEPT ![v] = "buffer_wait"]
      /\ bar' = [bar EXCEPT ![v] = @ + 1]
      /\ system' = IF Master \in system THEN system \cup {v} ELSE system
      /\ made' = made \cup {v}
      /\ UNCHANGED <<items, sysq, queues, turn, best, bestidx, present, idx, hand, cur, received>>
  BY DEF MakeBuffer, Goto, popVars
<1>3. TypeOK'
  <2>1. pc' \in [Pushers -> Labels]
    BY <1>1, <1>2 DEF TypeOK, Labels
  <2>2. bar' \in [Workers -> Nat]
    BY <1>1, <1>2 DEF TypeOK
  <2>3. system' \subseteq Workers /\ made' \subseteq Workers
    BY <1>1, <1>2, Sizes DEF TypeOK
  <2> QED BY <1>1, <1>2, <2>1, <2>2, <2>3 DEF TypeOK
<1>4. bar'[v] = 2 /\ pc'[v] = "buffer_wait" /\ bar[v] = 1
  BY <1>1, <1>2 DEF TypeOK, SetupOf
<1>5. Master \in system
  <2>1. bar[Master] >= 1
    BY <1>2, <1>4, Sizes DEF Released
  <2> QED BY <2>1, Sizes DEF IInv, SetupOf
<1>6. Mine(v)'
  <2>1. SetupOf(v)'
    BY <1>2, <1>4, <1>5 DEF SetupOf, Setup
  <2>2. CurOf(v)' /\ PushOf(v)' /\ PopOf(v)'
    BY <1>4 DEF CurOf, PushOf, PopOf
  <2> QED BY <2>1, <2>2 DEF Mine
<1>7. Others(v)
  <2>1. \A w \in Workers \ {v} : Same(w) /\ bar'[w] = bar[w]
    BY <1>1, <1>2, Sizes DEF Same, TypeOK
  <2>2. \A w \in Pushers \ {v} : pc'[w] = pc[w] /\ hand'[w] = hand[w] /\ idx'[w] = idx[w]
    BY <1>1, <1>2 DEF TypeOK
  <2>3. \A w \in Workers : Kept(w)
    BY <1>2, UnchangedKept
  <2>4. made \subseteq made' /\ system \subseteq system'
    BY <1>2
  <2> QED BY <2>1, <2>2, <2>3, <2>4 DEF Others
<1> QED BY <1>1, <1>3, <1>6, <1>7, OneThread

LEMMA OrderQueuesStep ==
    ASSUME IInv, NEW v \in Workers, OrderQueues(v)
    PROVE  IInv'
<1>1. TypeOK /\ SetupOf(v) /\ CurOf(v) /\ PopOf(v) /\ v \in Pushers
  BY Sizes DEF IInv
<1> PICK s : s = <<v>> \o ByDistance(v)
  OBVIOUS
<1> PICK f : f = IF v = Master THEN "app" ELSE "begin"
  OBVIOUS
<1>2. /\ pc[v] = "buffer_wait" /\ Released(v) /\ pc' = [pc EXCEPT ![v] = f]
      /\ queues' = [queues EXCEPT ![v] = [i \in DOMAIN s |-> IF s[i] \in made THEN s[i] ELSE Nobody]]
      /\ UNCHANGED <<items, sysq, made, system, bar, turn, best, bestidx, present, idx, hand, cur, received>>
  BY DEF OrderQueues, Goto, popVars
<1>3. Enumerates(s, Workers) /\ s[1] = v /\ s \in Seq(Workers)
  <2>1. Enumerates(ByDistance(v), Workers \ {v})
    BY DistancesEnumerate
  <2>2. ByDistance(v) \in Seq(Workers \ {v})
    BY <2>1 DEF Enumerates
  <2>3. (<<v>> \o ByDistance(v))[1] = v
    BY <2>2
  <2>4. Enumerates(s, Workers)
    BY QueuesEnumerate
  <2> QED BY <2>3, <2>4 DEF Enumerates
<1>4. bar[v] = 2 /\ \A w \in Workers : w \in made
  <2>1. bar[v] = 2
    BY <1>1, <1>2 DEF SetupOf
  <2>2. ASSUME NEW w \in Workers PROVE w \in made
    <3>1. bar[w] >= 2
      BY <1>2, <2>1 DEF Released
    <3> QED BY <3>1 DEF IInv, SetupOf
  <2> QED BY <2>1, <2>2
<1>5. queues'[v] = s
  <2>1. s = [i \in DOMAIN s |-> s[i]]
    BY <1>3
  <2>2. \A i \in DOMAIN s : s[i] \in Workers
    BY <1>3
  <2>3. \A i \in DOMAIN s : s[i] \in made
    BY <1>4, <2>2
  <2>4. [i \in DOMAIN s |-> IF s[i] \in made THEN s[i] ELSE Nobody] = [i \in DOMAIN s |-> s[i]]
    BY <2>3
  <2> QED BY <1>1, <1>2, <2>1, <2>4 DEF TypeOK
<1>6. TypeOK'
  <2>1. s \in Seq(Workers \cup {Nobody})
    BY <1>3
  <2>2. queues' \in [Workers -> Seq(Workers \cup {Nobody})]
    BY <1>1, <1>2, <1>5, <2>1 DEF TypeOK
  <2>3. pc' \in [Pushers -> Labels]
    BY <1>1, <1>2 DEF TypeOK, Labels
  <2> QED BY <1>1, <1>2, <2>2, <2>3 DEF TypeOK
<1>7. pc'[v] = f /\ f \in {"app", "begin"}
  BY <1>1, <1>2 DEF TypeOK
<1>8. Mine(v)'
  <2>1. SetupOf(v)'
    <3>1. bar'[v] = 2 /\ Enumerates(queues'[v], Workers) /\ queues'[v][1] = v
      BY <1>2, <1>3, <1>4, <1>5
    <3>2. made' = made /\ system' = system /\ bar'[v] = bar[v] /\ pc'[v] \notin Setup
      BY <1>2, <1>7 DEF Setup
    <3>3. v \in made /\ v \in system
      BY <1>1, <1>4 DEF SetupOf
    <3> QED BY <1>7, <3>1, <3>2, <3>3 DEF SetupOf
  <2>2. CurOf(v)' /\ PushOf(v)'
    BY <1>7 DEF CurOf, PushOf
  <2>3. PopOf(v)'
    BY <1>7 DEF PopOf
  <2> QED BY <2>1, <2>2, <2>3 DEF Mine
<1>9. Others(v)
  <2>1. \A w \in Workers \ {v} : Same(w) /\ bar'[w] = bar[w]
    BY <1>1, <1>2, Sizes DEF Same, TypeOK
  <2>2. \A w \in Pushers \ {v} : pc'[w] = pc[w] /\ hand'[w] = hand[w] /\ idx'[w] = idx[w]
    BY <1>1, <1>2 DEF TypeOK
  <2>3. \A w \in Workers : Kept(w)
    BY <1>2, UnchangedKept
  <2>4. made \subseteq made' /\ system \subseteq system'
    BY <1>2
  <2> QED BY <2>1, <2>2, <2>3, <2>4 DEF Others
<1> QED BY <1>1, <1>6, <1>8, <1>9, OneThread

-----------------------------------------------------------------------------
(* The steps of a push.                                                    *)

LEMMA PushStepKeeps ==
    ASSUME IInv, NEW v \in Pushers, Push(v)
    PROVE  IInv'
<1>1. /\ TypeOK /\ PushOf(v) /\ v \in Pushers /\ Target(v) \in Workers
      /\ \A w \in Workers : SetupOf(w) /\ CurOf(w) /\ PopOf(w)
  BY Sizes DEF IInv
<1> PICK left : left = IF SlotIs(v, idx[v]) THEN Tail(hand[v]) ELSE hand[v]
  OBVIOUS
<1> PICK f : f = IF left = <<>> THEN AfterPush(v)
                 ELSE IF idx[v] + 1 = QueueSize THEN "overflow" ELSE "push"
  OBVIOUS
<1>2. /\ pc[v] = "push" /\ pc' = [pc EXCEPT ![v] = f]
      /\ hand' = [hand EXCEPT ![v] = left] /\ idx' = [idx EXCEPT ![v] = @ + 1]
      /\ UNCHANGED <<sysq, made, system, queues, bar, turn, best, bestidx, present, cur, received>>
  BY DEF Push, StoreNext, Goto, popVars, setupVars
<1>3. idx[v] \in Slots /\ hand[v] # <<>> /\ hand[v] \in Seq(Tasks)
  BY <1>1, <1>2 DEF PushOf, TypeOK
<1>4. left \in Seq(Tasks)
  BY <1>3
<1>5. f \in {"idle", "begin", "loop", "overflow", "push"}
  BY DEF AfterPush
<1>6. \/ items' = items
      \/ /\ items[Target(v)][idx[v]] = Null
         /\ items' = [items EXCEPT ![Target(v)][idx[v]] = Head(hand[v])]
  BY DEF Push, SlotIs
<1>7. TypeOK'
  <2>1. pc' \in [Pushers -> Labels]
    BY <1>1, <1>2, <1>5 DEF TypeOK, Labels
  <2>2. hand' \in [Pushers -> Seq(Tasks)] /\ idx' \in [Pushers -> Nat]
    BY <1>1, <1>2, <1>4 DEF TypeOK
  <2>3. items' \in [Workers -> [Slots -> Tasks \cup {Null}]]
    <3>1. Head(hand[v]) \in Tasks
      BY <1>3
    <3>2. items \in [Workers -> [Slots -> Tasks \cup {Null}]]
      BY <1>1 DEF TypeOK
    <3>3. [items[Target(v)] EXCEPT ![idx[v]] = Head(hand[v])] \in [Slots -> Tasks \cup {Null}]
      BY <1>1, <3>1, <3>2
    <3> QED BY <1>1, <1>6, <3>2, <3>3
  <2> QED BY <1>1, <1>2, <2>1, <2>2, <2>3 DEF TypeOK
<1>8. pc'[v] = f /\ hand'[v] = left /\ idx'[v] = idx[v] + 1
  BY <1>1, <1>2 DEF TypeOK
<1>9. Mine(v)'
  <2>1. PushOf(v)'
    <3>1. f = "push" => left # <<>> /\ idx[v] + 1 # QueueSize
      BY DEF AfterPush
    <3>2. idx[v] + 1 # QueueSize => idx[v] + 1 \in Slots
      <4>1. QueueSize \in Nat
        BY Sizes
      <4> QED BY <1>3, <4>1 DEF Slots
    <3> QED BY <1>8, <3>1, <3>2 DEF PushOf
  <2>2. ASSUME v \in Workers PROVE SetupOf(v)' /\ CurOf(v)' /\ PopOf(v)'
    <3>1. CurOf(v)' /\ PopOf(v)'
      BY <1>5, <1>8 DEF CurOf, PopOf
    <3>2. SetupOf(v)'
      <4>1. SetupOf(v) /\ pc[v] \notin Setup
        BY <1>1, <1>2, <2>2 DEF Setup
      <4>2. pc'[v] \notin Setup
        BY <1>5, <1>8 DEF Setup
      <4> QED BY <1>2, <4>1, <4>2 DEF SetupOf, Setup
    <3> QED BY <3>1, <3>2
  <2> QED BY <2>1, <2>2 DEF Mine
<1>10. Others(v)
  <2>1. \A w \in Workers \ {v} : Same(w) /\ bar'[w] = bar[w]
    BY <1>1, <1>2, Sizes DEF Same, TypeOK
  <2>2. \A w \in Pushers \ {v} : pc'[w] = pc[w] /\ hand'[w] = hand[w] /\ idx'[w] = idx[w]
    BY <1>1, <1>2 DEF TypeOK
  <2>3. ASSUME NEW w \in Workers PROVE Kept(w)
    <3>1. ASSUME NEW b \in Workers, NEW j \in Slots, items[b][j] \in present'[w]
          PROVE  items'[b][j] = items[b][j]
      <4>1. items[b][j] # Null
        <5>1. present[w] \subseteq Tasks /\ present' = present
          BY <1>1, <1>2 DEF TypeOK
        <5> QED BY <3>1, <5>1, Sizes
      <4>2. items \in [Workers -> [Slots -> Tasks \cup {Null}]]
        BY <1>1 DEF TypeOK
      <4>3. ASSUME items' = [items EXCEPT ![Target(v)][idx[v]] = Head(hand[v])],
                   b # Target(v) \/ j # idx[v]
            PROVE  items'[b][j] = items[b][j]
        BY <4>2, <4>3
      <4> QED BY <1>6, <4>1, <4>3
    <3> QED BY <1>2, <3>1 DEF Kept
  <2>4. made \subseteq made' /\ system \subseteq system'
    BY <1>2
  <2> QED BY <2>1, <2>2, <2>3, <2>4 DEF Others
<1> QED BY <1>7, <1>9, <1>10, OneThread

\* A step of one thread past its setup that changes no buffer and nothing
\* another thread relies on.
Quiet(v, f) ==
    /\ pc' = [pc EXCEPT ![v] = f]
    /\ UNCHANGED <<items, made, system, queues>>
    /\ \A w \in Workers \ {v} :
           /\ turn'[w] = turn[w] /\ best'[w] = best[w] /\ cur'[w] = cur[w]
           /\ present'[w] = present[w] /\ bar'[w] = bar[w]
    /\ \A w \in Pushers \ {v} : hand'[w] = hand[w] /\ idx'[w] = idx[w]
    /\ v \in Workers => bar'[v] >= bar[v]

LEMMA QuietStep ==
    ASSUME IInv, TypeOK', NEW v \in Pushers, NEW f, Quiet(v, f), pc[v] \notin Setup, f \notin Setup,
           PushOf(v)', v \in Workers => CurOf(v)' /\ PopOf(v)'
    PROVE  IInv'
<1>1. TypeOK /\ (\A w \in Workers : SetupOf(w)) /\ pc'[v] = f /\ Workers \subseteq Pushers
  BY Sizes DEF IInv, TypeOK, Quiet
<1>2. Mine(v)'
  <2>1. ASSUME v \in Workers PROVE SetupOf(v)'
    <3>1. /\ SetupOf(v) /\ bar'[v] >= bar[v] /\ bar[v] \in Nat /\ bar'[v] \in Nat
          /\ made' = made /\ system' = system /\ queues' = queues
      BY <1>1, <2>1 DEF Quiet, TypeOK
    <3>2. bar[v] >= 2 /\ Enumerates(queues[v], Workers) /\ queues[v][1] = v
      BY <3>1 DEF SetupOf
    <3>3. bar'[v] >= 2 /\ v \in made /\ v \in system /\ pc'[v] \notin Setup
      BY <1>1, <3>1, <3>2 DEF SetupOf
    <3> QED BY <3>1, <3>2, <3>3 DEF SetupOf, Setup
  <2> QED BY <2>1 DEF Mine
<1>3. Others(v)
  <2>1. \A w \in Workers \ {v} : Same(w) /\ bar'[w] = bar[w]
    BY <1>1 DEF Same, TypeOK, Quiet
  <2>2. \A w \in Pushers \ {v} : pc'[w] = pc[w] /\ hand'[w] = hand[w] /\ idx'[w] = idx[w]
    BY <1>1 DEF TypeOK, Quiet
  <2>3. \A w \in Workers \ {v} : Kept(w)
    BY DEF Kept, Quiet
  <2>4. made \subseteq made' /\ system \subseteq system'
    BY DEF Quiet
  <2> QED BY <2>1, <2>2, <2>3, <2>4 DEF Others
<1> QED BY <1>2, <1>3, OneThread

LEMMA SpinLockStep ==
    ASSUME IInv, NEW v \in Pushers, SpinLock(v)
    PROVE  IInv'
<1>1. TypeOK
  BY DEF IInv
<1>2. /\ pc[v] = "overflow" /\ pc' = [pc EXCEPT ![v] = "overflow_locked"]
      /\ UNCHANGED <<items, sysq, made, system, queues, bar, turn, best, bestidx, present, idx, hand, cur, received>>
  BY DEF SpinLock, Goto, popVars, setupVars
<1>3. TypeOK'
  <2>1. pc' \in [Pushers -> Labels]
    BY <1>1, <1>2 DEF TypeOK, Labels
  <2> QED BY <1>1, <1>2, <2>1 DEF TypeOK
<1>4. Quiet(v, "overflow_locked")
  BY <1>1, <1>2 DEF Quiet, TypeOK
<1>5. pc'[v] = "overflow_locked"
  BY <1>1, <1>2 DEF TypeOK
<1> QED BY <1>2, <1>3, <1>4, <1>5, QuietStep DEF Setup, PushOf, CurOf, PopOf

LEMMA OverflowStep ==
    ASSUME IInv, NEW v \in Pushers, Overflow(v)
    PROVE  IInv'
<1>1. TypeOK
  BY DEF IInv
<1> PICK f : f = AfterPush(v)
  OBVIOUS
<1>2. /\ pc[v] = "overflow_locked" /\ pc' = [pc EXCEPT ![v] = f]
      /\ sysq' = sysq \o hand[v] /\ hand' = [hand EXCEPT ![v] = <<>>]
      /\ UNCHANGED <<items, made, system, queues, bar, turn, best, bestidx, present, idx, cur, received>>
  BY DEF Overflow, Goto, popVars, setupVars
<1>3. f \in {"idle", "begin", "loop"}
  BY DEF AfterPush
<1>4. TypeOK'
  <2>1. pc' \in [Pushers -> Labels]
    BY <1>1, <1>2, <1>3 DEF TypeOK, Labels
  <2>2. sysq' \in Seq(Tasks) /\ hand' \in [Pushers -> Seq(Tasks)]
    BY <1>1, <1>2 DEF TypeOK
  <2> QED BY <1>1, <1>2, <2>1, <2>2 DEF TypeOK
<1>5. Quiet(v, f)
  BY <1>1, <1>2 DEF Quiet, TypeOK
<1>6. pc'[v] = f
  BY <1>1, <1>2 DEF TypeOK
<1> QED BY <1>2, <1>3, <1>4, <1>5, <1>6, QuietStep DEF Setup, PushOf, CurOf, PopOf

-----------------------------------------------------------------------------
(* The steps of the round.                                                 *)

LEMMA ArriveStep ==
    ASSUME IInv, NEW v \in Workers, Arrive(v)
    PROVE  IInv'
<1>1. TypeOK /\ v \in Pushers
  BY Sizes DEF IInv
<1> PICK f : f = IF pc[v] = "begin" THEN "begin_wait" ELSE "end_wait"
  OBVIOUS
<1>2. /\ pc[v] \in {"begin", "end"} /\ pc' = [pc EXCEPT ![v] = f] /\ bar' = [bar EXCEPT ![v] = @ + 1]
      /\ UNCHANGED <<items, sysq, made, system, queues, turn, best, bestidx, present, idx, hand, cur, received>>
  BY DEF Arrive, Goto, popVars, setupVars
<1>3. f \in {"begin_wait", "end_wait"}
  OBVIOUS
<1>4. TypeOK'
  <2>1. pc' \in [Pushers -> Labels] /\ bar' \in [Workers -> Nat]
    BY <1>1, <1>2, <1>3 DEF TypeOK, Labels
  <2> QED BY <1>1, <1>2, <2>1 DEF TypeOK
<1>5. Quiet(v, f)
  <2>1. bar'[v] >= bar[v]
    BY <1>1, <1>2 DEF TypeOK
  <2> QED BY <1>1, <1>2, <2>1 DEF Quiet, TypeOK
<1>6. pc'[v] = f
  BY <1>1, <1>2 DEF TypeOK
<1> QED BY <1>1, <1>2, <1>3, <1>4, <1>5, <1>6, QuietStep DEF Setup, PushOf, CurOf, PopOf

LEMMA LeaveStep ==
    ASSUME IInv, NEW v \in Workers, Leave(v)
    PROVE  IInv'
<1>1. TypeOK /\ v \in Pushers
  BY Sizes DEF IInv
<1> PICK f : f = IF pc[v] = "begin_wait" THEN "loop" ELSE "out"
  OBVIOUS
<1>2. /\ pc[v] \in {"begin_wait", "end_wait"} /\ pc' = [pc EXCEPT ![v] = f]
      /\ UNCHANGED <<items, sysq, made, system, queues, bar, turn, best, bestidx, present, idx, hand, cur, received>>
  BY DEF Leave, Goto, popVars, setupVars
<1>3. f \in {"loop", "out"}
  OBVIOUS
<1>4. TypeOK'
  <2>1. pc' \in [Pushers -> Labels]
    BY <1>1, <1>2, <1>3 DEF TypeOK, Labels
  <2> QED BY <1>1, <1>2, <2>1 DEF TypeOK
<1>5. Quiet(v, f)
  BY <1>1, <1>2 DEF Quiet, TypeOK
<1>6. pc'[v] = f
  BY <1>1, <1>2 DEF TypeOK
<1> QED BY <1>1, <1>2, <1>3, <1>4, <1>5, <1>6, QuietStep DEF Setup, PushOf, CurOf, PopOf

\* A push starts with a list of tasks and the first slot.
LEMMA StartedPush ==
    ASSUME TypeOK, NEW v \in Pushers, NEW list \in Seq(Tasks), StartPush(v, list)
    PROVE  /\ hand' \in [Pushers -> Seq(Tasks)] /\ idx' \in [Pushers -> Nat]
           /\ hand'[v] = list /\ idx'[v] \in Slots
           /\ \A w \in Pushers \ {v} : hand'[w] = hand[w] /\ idx'[w] = idx[w]
<1>1. 0 \in Slots
  BY HBBufferAssumption DEF Slots
<1> QED BY <1>1 DEF StartPush, TypeOK

LEMMA EnqueueStep ==
    ASSUME IInv, Enqueue
    PROVE  IInv'
<1> PICK v : v = Master
  OBVIOUS
<1>1. TypeOK /\ v \in Pushers /\ v \in Workers
  BY Sizes DEF IInv
<1> PICK f : f = IF Startup = <<>> THEN "begin" ELSE "push"
  OBVIOUS
<1>2. /\ pc[v] = "app" /\ pc' = [pc EXCEPT ![v] = f] /\ StartPush(v, Startup)
      /\ UNCHANGED <<items, sysq, made, system, queues, bar, turn, best, bestidx, present, cur, received>>
  BY DEF Enqueue, Goto, popVars, setupVars
<1>3. f \in {"begin", "push"} /\ (f = "push" => Startup # <<>>)
  OBVIOUS
<1>4. /\ hand' \in [Pushers -> Seq(Tasks)] /\ idx' \in [Pushers -> Nat]
      /\ hand'[v] = Startup /\ idx'[v] \in Slots
      /\ \A w \in Pushers \ {v} : hand'[w] = hand[w] /\ idx'[w] = idx[w]
  BY <1>1, <1>2, StartedPush, HBBufferAssumption
<1>5. TypeOK'
  <2>1. pc' \in [Pushers -> Labels]
    BY <1>1, <1>2, <1>3 DEF TypeOK, Labels
  <2> QED BY <1>1, <1>2, <1>4, <2>1 DEF TypeOK
<1>6. Quiet(v, f)
  BY <1>1, <1>2, <1>4 DEF Quiet, TypeOK
<1>7. pc'[v] = f
  BY <1>1, <1>2 DEF TypeOK
<1>8. PushOf(v)'
  BY <1>3, <1>4, <1>7 DEF PushOf
<1> QED BY <1>1, <1>2, <1>3, <1>5, <1>6, <1>7, <1>8, QuietStep DEF Setup, CurOf, PopOf

LEMMA ReceiveStep ==
    ASSUME IInv, Receive
    PROVE  IInv'
<1> PICK v : v = Comm
  OBVIOUS
<1>1. TypeOK /\ v \in Pushers /\ v \notin Workers
  BY Sizes DEF IInv
<1>2. /\ pc[v] = "idle" /\ pc' = [pc EXCEPT ![v] = "push"] /\ received' = received + 1
      /\ received < Len(Received) /\ StartPush(v, Received[received + 1])
      /\ UNCHANGED <<items, sysq, made, system, queues, bar, turn, best, bestidx, present, cur>>
  BY DEF Receive, Goto, popVars, setupVars
<1>3. Received[received + 1] \in Seq(Tasks) /\ Received[received + 1] # <<>>
  <2>1. received \in Nat
    BY <1>1 DEF TypeOK
  <2>2. received + 1 \in 1..Len(Received)
    BY <1>2, <2>1, HBBufferAssumption
  <2> QED BY <2>2, HBBufferAssumption
<1>4. /\ hand' \in [Pushers -> Seq(Tasks)] /\ idx' \in [Pushers -> Nat]
      /\ hand'[v] # <<>> /\ idx'[v] \in Slots
      /\ \A w \in Pushers \ {v} : hand'[w] = hand[w] /\ idx'[w] = idx[w]
  BY <1>1, <1>2, <1>3, StartedPush
<1>5. TypeOK'
  <2>1. pc' \in [Pushers -> Labels] /\ received' \in Nat
    BY <1>1, <1>2 DEF TypeOK, Labels
  <2> QED BY <1>1, <1>2, <1>4, <2>1 DEF TypeOK
<1>6. Quiet(v, "push")
  BY <1>1, <1>2, <1>4 DEF Quiet, TypeOK
<1>7. PushOf(v)'
  BY <1>4 DEF PushOf
<1> QED BY <1>1, <1>2, <1>5, <1>6, <1>7, QuietStep DEF Setup

LEMMA TryLockStep ==
    ASSUME IInv, NEW v \in Workers, TryLock(v)
    PROVE  IInv'
<1>1. TypeOK /\ PopOf(v) /\ v \in Pushers
  BY Sizes DEF IInv
<1> PICK f : f = IF lock = Nobody THEN "system_locked" ELSE "loop"
  OBVIOUS
<1>2. /\ pc[v] = "system" /\ pc' = [pc EXCEPT ![v] = f]
      /\ UNCHANGED <<items, sysq, made, system, queues, bar, turn, best, bestidx, present, idx, hand, cur, received>>
  BY DEF TryLock, Goto, popVars, setupVars
<1>3. f \in {"system_locked", "loop"}
  OBVIOUS
<1>4. TypeOK'
  <2>1. pc' \in [Pushers -> Labels]
    BY <1>1, <1>2, <1>3 DEF TypeOK, Labels
  <2> QED BY <1>1, <1>2, <2>1 DEF TypeOK
<1>5. Quiet(v, f)
  BY <1>1, <1>2 DEF Quiet, TypeOK
<1>6. pc'[v] = f
  BY <1>1, <1>2 DEF TypeOK
<1>7. PopOf(v)'
  BY <1>1, <1>2, <1>3, <1>6 DEF PopOf
<1> QED BY <1>1, <1>2, <1>3, <1>4, <1>5, <1>6, <1>7, QuietStep DEF Setup, PushOf, CurOf

LEMMA SystemPopStep ==
    ASSUME IInv, NEW v \in Workers, SystemPop(v)
    PROVE  IInv'
<1>1. TypeOK /\ PopOf(v) /\ v \in Pushers
  BY Sizes DEF IInv
<1> PICK f : f = IF sysq = <<>> THEN "loop" ELSE "done_task"
  OBVIOUS
<1>2. /\ pc[v] = "system_locked" /\ pc' = [pc EXCEPT ![v] = f]
      /\ IF sysq = <<>> THEN sysq' = sysq /\ cur' = cur
         ELSE sysq' = Tail(sysq) /\ cur' = [cur EXCEPT ![v] = Head(sysq)]
      /\ UNCHANGED <<items, made, system, queues, bar, turn, best, bestidx, present, idx, hand, received>>
  BY DEF SystemPop, Goto, popVars, setupVars
<1>3. f \in {"loop", "done_task"}
  OBVIOUS
<1>4. sysq # <<>> => Head(sysq) \in Tasks /\ Tail(sysq) \in Seq(Tasks)
  BY <1>1 DEF TypeOK
<1>5. TypeOK'
  <2>1. pc' \in [Pushers -> Labels]
    BY <1>1, <1>2, <1>3 DEF TypeOK, Labels
  <2>2. sysq' \in Seq(Tasks) /\ cur' \in [Workers -> Tasks \cup {Null}]
    BY <1>1, <1>2, <1>4 DEF TypeOK
  <2> QED BY <1>1, <1>2, <2>1, <2>2 DEF TypeOK
<1>6. Quiet(v, f)
  BY <1>1, <1>2 DEF Quiet, TypeOK
<1>7. pc'[v] = f
  BY <1>1, <1>2 DEF TypeOK
<1>8. CurOf(v)'
  BY <1>1, <1>2, <1>3, <1>4, <1>7 DEF CurOf, TypeOK
<1>9. PopOf(v)'
  BY <1>1, <1>2, <1>3, <1>7 DEF PopOf
<1> QED BY <1>1, <1>2, <1>3, <1>5, <1>6, <1>7, <1>8, <1>9, QuietStep DEF Setup, PushOf

LEMMA DoneTaskStep ==
    ASSUME IInv, NEW v \in Workers, DoneTask(v)
    PROVE  IInv'
<1>1. TypeOK /\ CurOf(v) /\ v \in Pushers
  BY Sizes DEF IInv
<1>2. /\ pc[v] = "done_task" /\ pc' = [pc EXCEPT ![v] = "execute"]
      /\ UNCHANGED <<items, sysq, made, system, queues, bar, turn, best, bestidx, present, idx, hand, cur, received>>
  BY DEF DoneTask, Goto, popVars, setupVars
<1>3. TypeOK'
  <2>1. pc' \in [Pushers -> Labels]
    BY <1>1, <1>2 DEF TypeOK, Labels
  <2> QED BY <1>1, <1>2, <2>1 DEF TypeOK
<1>4. Quiet(v, "execute")
  BY <1>1, <1>2 DEF Quiet, TypeOK
<1>5. pc'[v] = "execute"
  BY <1>1, <1>2 DEF TypeOK
<1>6. CurOf(v)'
  BY <1>1, <1>2 DEF CurOf
<1> QED BY <1>1, <1>2, <1>3, <1>4, <1>5, <1>6, QuietStep DEF Setup, PushOf, PopOf

LEMMA ExecuteStep ==
    ASSUME IInv, NEW v \in Workers, Execute(v)
    PROVE  IInv'
<1>1. TypeOK /\ CurOf(v) /\ v \in Pushers
  BY Sizes DEF IInv
<1>2. /\ pc[v] = "execute" /\ pc' = [pc EXCEPT ![v] = "running"]
      /\ UNCHANGED <<items, sysq, made, system, queues, bar, turn, best, bestidx, present, idx, hand, cur, received>>
  BY DEF Execute, Goto, popVars, setupVars
<1>3. TypeOK'
  <2>1. pc' \in [Pushers -> Labels]
    BY <1>1, <1>2 DEF TypeOK, Labels
  <2> QED BY <1>1, <1>2, <2>1 DEF TypeOK
<1>4. Quiet(v, "running")
  BY <1>1, <1>2 DEF Quiet, TypeOK
<1>5. pc'[v] = "running"
  BY <1>1, <1>2 DEF TypeOK
<1>6. CurOf(v)'
  BY <1>1, <1>2 DEF CurOf
<1> QED BY <1>1, <1>2, <1>3, <1>4, <1>5, <1>6, QuietStep DEF Setup, PushOf, PopOf

LEMMA ReleaseDepsStep ==
    ASSUME IInv, NEW v \in Workers, ReleaseDeps(v)
    PROVE  IInv'
<1>1. TypeOK /\ CurOf(v) /\ v \in Pushers
  BY Sizes DEF IInv
<1> PICK list : list = Spawns[cur[v]]
  OBVIOUS
<1> PICK f : f = IF list = <<>> THEN "loop" ELSE "push"
  OBVIOUS
<1>2. /\ pc[v] = "running" /\ pc' = [pc EXCEPT ![v] = f] /\ StartPush(v, list)
      /\ UNCHANGED <<items, sysq, made, system, queues, bar, turn, best, bestidx, present, cur, received>>
  BY DEF ReleaseDeps, Goto, popVars, setupVars
<1>3. f \in {"loop", "push"} /\ (f = "push" => list # <<>>)
  OBVIOUS
<1>4. list \in Seq(Tasks)
  BY <1>1, <1>2, HBBufferAssumption DEF CurOf
<1>5. /\ hand' \in [Pushers -> Seq(Tasks)] /\ idx' \in [Pushers -> Nat]
      /\ hand'[v] = list /\ idx'[v] \in Slots
      /\ \A w \in Pushers \ {v} : hand'[w] = hand[w] /\ idx'[w] = idx[w]
  BY <1>1, <1>2, <1>4, StartedPush
<1>6. TypeOK'
  <2>1. pc' \in [Pushers -> Labels]
    BY <1>1, <1>2, <1>3 DEF TypeOK, Labels
  <2> QED BY <1>1, <1>2, <1>5, <2>1 DEF TypeOK
<1>7. Quiet(v, f)
  BY <1>1, <1>2, <1>5 DEF Quiet, TypeOK
<1>8. pc'[v] = f
  BY <1>1, <1>2 DEF TypeOK
<1>9. PushOf(v)'
  BY <1>3, <1>5, <1>8 DEF PushOf
<1> QED BY <1>1, <1>2, <1>3, <1>6, <1>7, <1>8, <1>9, QuietStep DEF Setup, CurOf, PopOf

-----------------------------------------------------------------------------
(* The steps of a pop.                                                     *)

\* A pop starts with the first slot of the buffer, no candidate, and all that
\* is stored there still to be found.
LEMMA StartedPop ==
    ASSUME IInv, NEW v \in Workers, pc[v] \notin Setup, NEW n \in 0..NbCores, StartPop(v, n),
           UNCHANGED <<items, sysq, made, system, queues, bar, hand, cur, received>>
    PROVE  IInv'
<1>1. TypeOK /\ SetupOf(v) /\ v \in Pushers
  BY Sizes DEF IInv
<1> PICK b : b = IF n = 0 THEN v ELSE queues[v][n]
  OBVIOUS
<1>2. /\ turn' = [turn EXCEPT ![v] = n] /\ idx' = [idx EXCEPT ![v] = 0] /\ best' = [best EXCEPT ![v] = Null]
      /\ bestidx' = bestidx /\ present' = [present EXCEPT ![v] = Stored(b)]
      /\ pc' = [pc EXCEPT ![v] = "scan"]
  BY DEF StartPop, Goto
<1>3. b \in Workers
  <2>1. Enumerates(queues[v], Workers)
    BY <1>1 DEF SetupOf
  <2> QED BY <2>1, BufferIsAWorker
<1>4. Stored(b) \subseteq Tasks /\ n \in Nat /\ 0 \in Slots
  <2>1. Stored(b) \subseteq Tasks
    BY <1>1, <1>3 DEF Stored, TypeOK
  <2>2. n \in Nat /\ 0 \in Slots
    BY HBBufferAssumption DEF Slots
  <2> QED BY <2>1, <2>2
<1>5. TypeOK'
  <2>1. pc' \in [Pushers -> Labels]
    BY <1>1, <1>2 DEF TypeOK, Labels
  <2>2. turn' \in [Workers -> Nat] /\ idx' \in [Pushers -> Nat] /\ best' \in [Workers -> Tasks \cup {Null}]
    BY <1>1, <1>2, <1>4 DEF TypeOK
  <2>3. present' \in [Workers -> SUBSET Tasks]
    BY <1>1, <1>2, <1>4 DEF TypeOK
  <2> QED BY <1>1, <1>2, <2>1, <2>2, <2>3 DEF TypeOK
<1>6. Quiet(v, "scan")
  <2>1. bar'[v] >= bar[v]
    BY <1>1 DEF TypeOK
  <2> QED BY <1>1, <1>2, <2>1 DEF Quiet, TypeOK
<1>7. pc'[v] = "scan" /\ turn'[v] = n /\ idx'[v] = 0 /\ present'[v] = Stored(b) /\ best'[v] = Null
  BY <1>1, <1>2 DEF TypeOK
<1>8. PopOf(v)'
  <2>1. Buffer(v)' = b
    BY <1>7 DEF Buffer
  <2>2. ASSUME NEW t \in Stored(b)
        PROVE  \E j \in Slots : items'[b][j] = t /\ ~(j < 0)
    <3>1. PICK j \in Slots : items[b][j] = t
      BY DEF Stored
    <3>2. ~(j < 0)
      BY Sizes
    <3> QED BY <3>1, <3>2
  <2> QED BY <1>4, <1>7, <2>1, <2>2 DEF PopOf
<1> QED BY <1>1, <1>5, <1>6, <1>7, <1>8, QuietStep DEF Setup, PushOf, CurOf

LEMMA LoopStep ==
    ASSUME IInv, NEW v \in Workers, Loop(v)
    PROVE  IInv'
<1>1. TypeOK /\ v \in Pushers /\ pc[v] = "loop" /\ pc[v] \notin Setup
  BY Sizes DEF IInv, Loop, Setup
<1>2. CASE taskstodo = 0
  <2>1. /\ pc' = [pc EXCEPT ![v] = "end"]
        /\ UNCHANGED <<items, sysq, made, system, queues, bar, turn, best, bestidx, present, idx, hand, cur, received>>
    BY <1>2 DEF Loop, Goto, popVars, setupVars
  <2>2. TypeOK'
    <3>1. pc' \in [Pushers -> Labels]
      BY <1>1, <2>1 DEF TypeOK, Labels
    <3> QED BY <1>1, <2>1, <3>1 DEF TypeOK
  <2>3. Quiet(v, "end")
    BY <1>1, <2>1 DEF Quiet, TypeOK
  <2>4. pc'[v] = "end"
    BY <1>1, <2>1 DEF TypeOK
  <2> QED BY <1>1, <2>2, <2>3, <2>4, QuietStep DEF Setup, PushOf, CurOf, PopOf
<1>3. CASE taskstodo # 0
  <2>1. StartPop(v, 0) /\ UNCHANGED <<items, sysq, made, system, queues, bar, hand, cur, received>>
    BY <1>3 DEF Loop, setupVars
  <2>2. 0 \in 0..NbCores
    BY HBBufferAssumption
  <2> QED BY <1>1, <2>1, <2>2, StartedPop
<1> QED BY <1>2, <1>3

LEMMA MissStep ==
    ASSUME IInv, NEW v \in Workers, Miss(v)
    PROVE  IInv'
<1>1. TypeOK /\ SetupOf(v) /\ PopOf(v) /\ v \in Pushers /\ pc[v] = "missed" /\ pc[v] \notin Setup
  BY Sizes DEF IInv, Miss, Setup
<1>2. CASE ~ (turn[v] < Len(queues[v]))
  <2>1. /\ pc' = [pc EXCEPT ![v] = "system"]
        /\ UNCHANGED <<items, sysq, made, system, queues, bar, turn, best, bestidx, present, idx, hand, cur, received>>
    BY <1>2 DEF Miss, Goto, popVars, setupVars
  <2>2. TypeOK'
    <3>1. pc' \in [Pushers -> Labels]
      BY <1>1, <2>1 DEF TypeOK, Labels
    <3> QED BY <1>1, <2>1, <3>1 DEF TypeOK
  <2>3. Quiet(v, "system")
    BY <1>1, <2>1 DEF Quiet, TypeOK
  <2>4. pc'[v] = "system" /\ present'[v] = {}
    BY <1>1, <2>1 DEF TypeOK, PopOf
  <2>5. PopOf(v)'
    BY <2>4 DEF PopOf
  <2> QED BY <1>1, <2>2, <2>3, <2>4, <2>5, QuietStep DEF Setup, PushOf, CurOf
<1>3. CASE turn[v] < Len(queues[v])
  <2>1. StartPop(v, turn[v] + 1) /\ UNCHANGED <<items, sysq, made, system, queues, bar, hand, cur, received>>
    BY <1>3 DEF Miss, setupVars
  <2>2. Len(queues[v]) = NbCores
    <3>1. Enumerates(queues[v], Workers)
      BY <1>1 DEF SetupOf
    <3> QED BY <3>1, QueueLength
  <2>3. turn[v] + 1 \in 0..NbCores
    <3>1. turn[v] \in Nat /\ NbCores \in Nat
      BY <1>1, HBBufferAssumption DEF TypeOK
    <3> QED BY <1>3, <2>2, <3>1
  <2> QED BY <1>1, <2>1, <2>3, StartedPop
<1> QED BY <1>2, <1>3

\* What a scan has passed stays no better than its best.
LEMMA ScanStep ==
    ASSUME IInv, NEW v \in Workers, Scan(v)
    PROVE  IInv'
<1>1. TypeOK /\ SetupOf(v) /\ PopOf(v) /\ v \in Pushers /\ pc[v] = "scan" /\ pc[v] \notin Setup
  BY Sizes DEF IInv, Scan, Setup
<1> PICK t : t = items[Buffer(v)][idx[v]]
  OBVIOUS
<1> PICK i : i = idx[v]
  OBVIOUS
<1> PICK found : found = IF Better(v, t) THEN t ELSE best[v]
  OBVIOUS
<1>2. /\ best' = [best EXCEPT ![v] = found]
      /\ bestidx' = IF Better(v, t) THEN [bestidx EXCEPT ![v] = i] ELSE bestidx
      /\ IF found # Null /\ (i = QueueSize - 1 \/ (Better(v, t) /\ Rank[t] = Best))
         THEN pc' = [pc EXCEPT ![v] = "take"] /\ idx' = idx
         ELSE IF i = QueueSize - 1 THEN pc' = [pc EXCEPT ![v] = "missed"] /\ idx' = idx
         ELSE idx' = [idx EXCEPT ![v] = @ + 1] /\ pc' = pc
      /\ UNCHANGED <<items, sysq, made, system, queues, bar, turn, present, hand, cur, received>>
  BY DEF Scan, Goto, setupVars
<1>3. i \in Slots /\ turn[v] \in 0..NbCores
  BY <1>1 DEF PopOf
<1>a. i \in Int /\ \A j \in Slots : j \in Int
  <2>1. Slots \subseteq Int
    BY Sizes
  <2> QED BY <1>3, <2>1
<1>4. Buffer(v) \in Workers
  <2>1. Enumerates(queues[v], Workers)
    BY <1>1 DEF SetupOf
  <2> QED BY <1>3, <2>1, BufferIsAWorker DEF Buffer
<1>5. t \in Tasks \cup {Null} /\ best[v] \in Tasks \cup {Null} /\ found \in Tasks \cup {Null}
  <2>1. t \in Tasks \cup {Null} /\ best[v] \in Tasks \cup {Null}
    BY <1>1, <1>3, <1>4 DEF TypeOK
  <2> QED BY <2>1
<1>6. \A r \in Tasks : Rank[r] \in Int /\ Rank[r] <= Best
  BY Sizes
<1>7. ASSUME NEW r \in present[v]
      PROVE  \E j \in Slots : /\ items[Buffer(v)][j] = r
                              /\ j <= i => found # Null /\ Rank[r] <= Rank[found]
  <2>1. PICK j \in Slots : items[Buffer(v)][j] = r /\ (j < i => best[v] # Null /\ Rank[r] <= Rank[best[v]])
    BY <1>1 DEF PopOf
  <2>2. r \in Tasks /\ r # Null
    BY <1>1, Sizes DEF TypeOK
  <2>3. CASE j < i
    <3>1. best[v] \in Tasks /\ best[v] # Null /\ Rank[r] <= Rank[best[v]]
      BY <1>5, <2>1, <2>3
    <3>2. CASE Better(v, t)
      <4>1. found = t /\ t \in Tasks /\ t # Null /\ (Rank[t] = Best \/ Rank[t] > Rank[best[v]])
        BY <1>5, <3>1, <3>2 DEF Better
      <4>2. Rank[r] <= Rank[t]
        BY <1>6, <2>2, <3>1, <4>1
      <4> QED BY <2>1, <4>1, <4>2
    <3>3. CASE ~ Better(v, t)
      BY <2>1, <3>1, <3>3
    <3> QED BY <3>2, <3>3
  <2>4. CASE j = i
    <3>1. t = r
      BY <2>1, <2>4
    <3>2. CASE Better(v, t)
      BY <1>6, <2>1, <2>2, <3>1, <3>2
    <3>3. CASE ~ Better(v, t)
      <4>1. best[v] # Null /\ ~ (Rank[t] > Rank[best[v]]) /\ best[v] \in Tasks /\ found = best[v]
        BY <1>5, <2>2, <3>1, <3>3 DEF Better
      <4>2. Rank[r] <= Rank[best[v]]
        BY <1>6, <2>2, <3>1, <4>1
      <4> QED BY <2>1, <4>1, <4>2
    <3> QED BY <3>2, <3>3
  <2>5. CASE j > i
    <3>1. ~ (j <= i)
      BY <1>a, <2>5
    <3> QED BY <2>1, <3>1
  <2>6. j < i \/ j = i \/ j > i
    BY <1>a
  <2> QED BY <2>3, <2>4, <2>5, <2>6
<1>8. TypeOK' /\ (best'[v] = found)
  <2>1. pc' \in [Pushers -> Labels]
    BY <1>1, <1>2 DEF TypeOK, Labels
  <2>4. idx' \in [Pushers -> Nat]
    <3>1. idx \in [Pushers -> Nat] /\ (idx' = idx \/ idx' = [idx EXCEPT ![v] = @ + 1])
      BY <1>1, <1>2 DEF TypeOK
    <3> QED BY <1>1, <3>1
  <2>2. best' \in [Workers -> Tasks \cup {Null}] /\ best'[v] = found
    BY <1>1, <1>2, <1>5 DEF TypeOK
  <2>3. bestidx' \in [Workers -> Slots]
    BY <1>1, <1>2, <1>3 DEF TypeOK
  <2> QED BY <1>1, <1>2, <2>1, <2>2, <2>3, <2>4 DEF TypeOK
<1>9. Buffer(v)' = Buffer(v)
  BY <1>2 DEF Buffer
<1>10. ASSUME NEW f, pc' = [pc EXCEPT ![v] = f]
       PROVE  Quiet(v, f) /\ pc'[v] = f
  <2>1. \A w \in Pushers \ {v} : idx'[w] = idx[w]
    BY <1>1, <1>2 DEF TypeOK
  <2>2. \A w \in Workers \ {v} : best'[w] = best[w]
    BY <1>1, <1>2 DEF TypeOK
  <2>3. bar'[v] >= bar[v]
    BY <1>1, <1>2 DEF TypeOK
  <2> QED BY <1>1, <1>2, <1>10, <2>1, <2>2, <2>3 DEF Quiet, TypeOK
<1>11. CASE found # Null /\ (i = QueueSize - 1 \/ (Better(v, t) /\ Rank[t] = Best))
  <2>1. pc' = [pc EXCEPT ![v] = "take"]
    BY <1>2, <1>11
  <2>2. ASSUME NEW r \in present[v]
        PROVE  Rank[r] <= Rank[found] /\ \E j \in Slots : items[Buffer(v)][j] = r
    <3>1. PICK j \in Slots : items[Buffer(v)][j] = r /\ (j <= i => found # Null /\ Rank[r] <= Rank[found])
      BY <1>7
    <3>2. CASE i = QueueSize - 1
      <4>1. j <= i
        BY <3>2, Sizes
      <4> QED BY <3>1, <4>1
    <3>3. CASE Better(v, t) /\ Rank[t] = Best
      <4>1. found = t /\ r \in Tasks
        BY <1>1, <3>3 DEF TypeOK
      <4> QED BY <1>6, <3>1, <3>3, <4>1
    <3> QED BY <1>11, <3>2, <3>3
  <2>3. Quiet(v, "take") /\ pc'[v] = "take"
    BY <1>10, <2>1
  <2>4. PopOf(v)'
    BY <1>2, <1>3, <1>8, <1>9, <1>11, <2>2, <2>3 DEF PopOf
  <2> QED BY <1>1, <1>8, <2>3, <2>4, QuietStep DEF Setup, PushOf, CurOf
<1>12. CASE ~ (found # Null /\ (i = QueueSize - 1 \/ (Better(v, t) /\ Rank[t] = Best))) /\ i = QueueSize - 1
  <2>1. pc' = [pc EXCEPT ![v] = "missed"] /\ found = Null
    BY <1>2, <1>12
  <2>2. Quiet(v, "missed") /\ pc'[v] = "missed"
    BY <1>10, <2>1
  <2>3. present[v] = {}
    <3>1. \A j \in Slots : j <= i
      BY <1>12, Sizes
    <3> QED BY <1>7, <2>1, <3>1
  <2>4. PopOf(v)'
    BY <1>2, <1>3, <2>2, <2>3 DEF PopOf
  <2> QED BY <1>1, <1>8, <2>2, <2>4, QuietStep DEF Setup, PushOf, CurOf
<1>13. CASE ~ (found # Null /\ (i = QueueSize - 1 \/ (Better(v, t) /\ Rank[t] = Best))) /\ i # QueueSize - 1
  <2>1. idx' = [idx EXCEPT ![v] = @ + 1] /\ pc' = pc
    BY <1>2, <1>13
  <2>2. pc' = [pc EXCEPT ![v] = "scan"]
    BY <1>1, <2>1 DEF TypeOK
  <2>3. Quiet(v, "scan") /\ pc'[v] = "scan"
    BY <1>10, <2>2
  <2>4. idx'[v] = i + 1 /\ i + 1 \in Slots
    <3>1. QueueSize \in Nat
      BY Sizes
    <3>2. i + 1 \in Slots
      BY <1>3, <1>13, <3>1 DEF Slots
    <3> QED BY <1>1, <2>1, <3>2 DEF TypeOK
  <2>5. ASSUME NEW r \in present[v]
        PROVE  \E j \in Slots : /\ items[Buffer(v)][j] = r
                                /\ j < i + 1 => found # Null /\ Rank[r] <= Rank[found]
    <3>1. PICK j \in Slots : items[Buffer(v)][j] = r /\ (j <= i => found # Null /\ Rank[r] <= Rank[found])
      BY <1>7
    <3>2. j < i + 1 => j <= i
      BY <1>a
    <3> QED BY <3>1, <3>2
  <2>6. PopOf(v)'
    BY <1>2, <1>3, <1>8, <1>9, <2>3, <2>4, <2>5 DEF PopOf
  <2> QED BY <1>1, <1>8, <2>3, <2>6, QuietStep DEF Setup, PushOf, CurOf
<1> QED BY <1>11, <1>12, <1>13

\* The slot is emptied only of the task the scan chose, and then nobody has to
\* find it any more.
LEMMA TakeStep ==
    ASSUME IInv, NEW v \in Workers, Take(v)
    PROVE  IInv'
<1>1. TypeOK /\ SetupOf(v) /\ PopOf(v) /\ v \in Pushers /\ pc[v] = "take" /\ pc[v] \notin Setup
  BY Sizes DEF IInv, Take, Setup
<1>2. turn[v] \in 0..NbCores /\ best[v] # Null /\ best[v] \in Tasks /\ bestidx[v] \in Slots
  <2>1. best[v] \in Tasks \cup {Null} /\ bestidx[v] \in Slots
    BY <1>1 DEF TypeOK
  <2> QED BY <1>1, <2>1 DEF PopOf
<1> PICK b : b = Buffer(v)
  OBVIOUS
<1>3. b \in Workers
  <2>1. Enumerates(queues[v], Workers)
    BY <1>1 DEF SetupOf
  <2> QED BY <1>2, <2>1, BufferIsAWorker DEF Buffer
<1>4. CASE StillThere(v)
  <2>1. /\ items' = [items EXCEPT ![b][bestidx[v]] = Null] /\ items[b][bestidx[v]] = best[v]
        /\ cur' = [cur EXCEPT ![v] = best[v]]
        /\ present' = [w \in Workers |-> present[w] \ {best[v]}]
        /\ pc' = [pc EXCEPT ![v] = "done_task"]
        /\ UNCHANGED <<sysq, made, system, queues, bar, turn, best, bestidx, idx, hand, received>>
    BY <1>4 DEF Take, StillThere, Goto, setupVars
  <2>2. items \in [Workers -> [Slots -> Tasks \cup {Null}]]
    BY <1>1 DEF TypeOK
  <2>3. TypeOK'
    <3>1. pc' \in [Pushers -> Labels] /\ cur' \in [Workers -> Tasks \cup {Null}]
      BY <1>1, <1>2, <2>1 DEF TypeOK, Labels
    <3>2. present' \in [Workers -> SUBSET Tasks]
      <4>1. \A w \in Workers : present[w] \ {best[v]} \in SUBSET Tasks
        BY <1>1 DEF TypeOK
      <4> QED BY <2>1, <4>1
    <3>3. items' \in [Workers -> [Slots -> Tasks \cup {Null}]]
      <4>1. [items[b] EXCEPT ![bestidx[v]] = Null] \in [Slots -> Tasks \cup {Null}]
        BY <1>3, <2>2
      <4> QED BY <1>3, <2>1, <2>2, <4>1
    <3> QED BY <1>1, <2>1, <3>1, <3>2, <3>3 DEF TypeOK
  <2>4. pc'[v] = "done_task" /\ cur'[v] = best[v] /\ best'[v] = best[v] /\ present'[v] \subseteq present[v]
    BY <1>1, <2>1 DEF TypeOK
  <2>5. Mine(v)'
    <3>1. SetupOf(v)'
      <4>1. /\ SetupOf(v) /\ pc'[v] \notin Setup
            /\ made' = made /\ system' = system /\ queues' = queues /\ bar' = bar
        BY <1>1, <2>1, <2>4 DEF Setup
      <4> QED BY <1>1, <4>1 DEF SetupOf, Setup
    <3>2. CurOf(v)' /\ PushOf(v)'
      BY <1>2, <2>4 DEF CurOf, PushOf
    <3>3. PopOf(v)'
      BY <1>1, <2>4 DEF PopOf
    <3> QED BY <3>1, <3>2, <3>3 DEF Mine
  <2>6. Others(v)
    <3>1. \A w \in Workers \ {v} : Same(w) /\ bar'[w] = bar[w]
      BY <1>1, <2>1, Sizes DEF Same, TypeOK
    <3>2. \A w \in Pushers \ {v} : pc'[w] = pc[w] /\ hand'[w] = hand[w] /\ idx'[w] = idx[w]
      BY <1>1, <2>1 DEF TypeOK
    <3>3. ASSUME NEW w \in Workers PROVE Kept(w)
      <4>1. present'[w] = present[w] \ {best[v]}
        BY <2>1
      <4>2. ASSUME NEW c \in Workers, NEW j \in Slots, items[c][j] \in present'[w]
            PROVE  items'[c][j] = items[c][j]
        <5>1. items[c][j] # best[v]
          BY <4>1, <4>2
        <5>2. c # b \/ j # bestidx[v]
          BY <2>1, <5>1
        <5> QED BY <2>1, <2>2, <5>2
      <4> QED BY <4>1, <4>2 DEF Kept
    <3>4. made \subseteq made' /\ system \subseteq system'
      BY <2>1
    <3> QED BY <3>1, <3>2, <3>3, <3>4 DEF Others
  <2> QED BY <1>1, <2>3, <2>5, <2>6, OneThread
<1>5. CASE ~ StillThere(v)
  <2>1. /\ idx' = [idx EXCEPT ![v] = 0] /\ best' = [best EXCEPT ![v] = Null]
        /\ pc' = [pc EXCEPT ![v] = "scan"]
        /\ UNCHANGED <<items, sysq, made, system, queues, bar, turn, bestidx, present, hand, cur, received>>
    BY <1>5 DEF Take, Goto, setupVars
  <2>2. TypeOK'
    <3>1. pc' \in [Pushers -> Labels] /\ idx' \in [Pushers -> Nat] /\ best' \in [Workers -> Tasks \cup {Null}]
      BY <1>1, <2>1 DEF TypeOK, Labels
    <3> QED BY <1>1, <2>1, <3>1 DEF TypeOK
  <2>3. Quiet(v, "scan")
    <3>1. bar'[v] >= bar[v]
      BY <1>1, <2>1 DEF TypeOK
    <3> QED BY <1>1, <2>1, <3>1 DEF Quiet, TypeOK
  <2>4. pc'[v] = "scan" /\ idx'[v] = 0 /\ 0 \in Slots
    <3>1. 0 \in Slots
      BY HBBufferAssumption DEF Slots
    <3> QED BY <1>1, <2>1, <3>1 DEF TypeOK
  <2>5. PopOf(v)'
    <3>1. Buffer(v)' = b
      BY <2>1 DEF Buffer
    <3>2. ASSUME NEW r \in present[v] PROVE \E j \in Slots : items'[b][j] = r /\ ~ (j < 0)
      <4>1. PICK j \in Slots : items[b][j] = r
        BY <1>1 DEF PopOf
      <4>2. ~ (j < 0)
        BY Sizes
      <4> QED BY <2>1, <4>1, <4>2
    <3> QED BY <1>2, <2>1, <2>4, <3>1, <3>2 DEF PopOf
  <2> QED BY <1>1, <2>2, <2>3, <2>4, <2>5, QuietStep DEF Setup, PushOf, CurOf
<1> QED BY <1>4, <1>5

-----------------------------------------------------------------------------
(* The theorems.                                                           *)

LEMMA InitIInv == Init => IInv
<1> SUFFICES ASSUME Init PROVE IInv
  OBVIOUS
<1>1. 0 \in Slots /\ <<>> \in Seq(Tasks) /\ <<>> \in Seq(Workers \cup {Nobody})
  BY HBBufferAssumption DEF Slots
<1>2. TypeOK
  <2>1. pc \in [Pushers -> Labels]
    BY DEF Init, Labels
  <2>2. /\ items \in [Workers -> [Slots -> Tasks \cup {Null}]] /\ sysq \in Seq(Tasks)
        /\ made \subseteq Workers /\ system \subseteq Workers
        /\ queues \in [Workers -> Seq(Workers \cup {Nobody})] /\ bar \in [Workers -> Nat]
    BY <1>1 DEF Init
  <2>3. /\ turn \in [Workers -> Nat] /\ idx \in [Pushers -> Nat]
        /\ best \in [Workers -> Tasks \cup {Null}] /\ bestidx \in [Workers -> Slots]
        /\ present \in [Workers -> SUBSET Tasks] /\ hand \in [Pushers -> Seq(Tasks)]
        /\ cur \in [Workers -> Tasks \cup {Null}] /\ received \in Nat
    BY <1>1 DEF Init
  <2> QED BY <2>1, <2>2, <2>3 DEF TypeOK
<1>3. ASSUME NEW w \in Pushers PROVE pc[w] \in {"init", "idle"} /\ (w \in Workers => pc[w] = "init")
  BY Sizes DEF Init
<1>4. ASSUME NEW w \in Workers PROVE SetupOf(w) /\ CurOf(w) /\ PopOf(w)
  <2>1. pc[w] = "init" /\ bar[w] = 0
    BY <1>3, Sizes DEF Init
  <2> QED BY <2>1 DEF SetupOf, CurOf, PopOf, Setup
<1>5. \A w \in Pushers : PushOf(w)
  BY <1>3 DEF PushOf
<1> QED BY <1>2, <1>4, <1>5 DEF IInv

LEMMA NextIInv == IInv /\ [Next]_vars => IInv'
<1> SUFFICES ASSUME IInv, [Next]_vars PROVE IInv'
  OBVIOUS
<1>1. CASE Next
  <2>1. ASSUME NEW w \in Workers, Step(w) PROVE IInv'
    BY <2>1, FirstBarrierStep, MakeBufferStep, OrderQueuesStep, ArriveStep, LeaveStep, LoopStep, ScanStep,
       TakeStep, MissStep, TryLockStep, SystemPopStep, DoneTaskStep, ExecuteStep, ReleaseDepsStep DEF Step
  <2>2. ASSUME NEW w \in Pushers, PushStep(w) \/ SpinLock(w) PROVE IInv'
    BY <2>2, PushStepKeeps, OverflowStep, SpinLockStep DEF PushStep
  <2>3. CASE Enqueue \/ Receive
    BY <2>3, EnqueueStep, ReceiveStep
  <2>4. CASE Ended
    BY <2>4 DEF Ended, vars, setupVars, popVars, userVars, IInv, TypeOK, SetupOf, CurOf, PopOf, PushOf, Buffer
  <2> QED BY <1>1, <2>1, <2>2, <2>3, <2>4 DEF Next
<1>2. CASE UNCHANGED vars
  BY <1>2 DEF vars, setupVars, popVars, userVars, IInv, TypeOK, SetupOf, CurOf, PopOf, PushOf, Buffer
<1> QED BY <1>1, <1>2

THEOREM Invariant == Spec => []IInv
<1>1. Init => IInv
  BY InitIInv
<1>2. IInv /\ [Next]_vars => IInv'
  BY NextIInv
<1> QED BY <1>1, <1>2, PTL DEF Spec

\* Once set up, every thread reaches the tasks of every other: the queues it
\* looks into are those of all the threads, each once and its own first, and
\* it knows the system queue, whatever the topology of the machine.
THEOREM QueuesAreKnown == Spec => []KnowsEveryQueue
<1>1. IInv => KnowsEveryQueue
  <2> SUFFICES ASSUME IInv, NEW w \in Workers, pc[w] \notin Setup
               PROVE  /\ w \in system
                      /\ Len(queues[w]) = NbCores /\ ToSet(queues[w]) = Workers
                      /\ queues[w][1] = w
    BY DEF KnowsEveryQueue
  <2>1. w \in system /\ Enumerates(queues[w], Workers) /\ queues[w][1] = w
    BY DEF IInv, SetupOf
  <2>2. Len(queues[w]) = NbCores
    BY <2>1, QueueLength
  <2>3. ToSet(queues[w]) = Workers
    BY <2>1 DEF Enumerates, ToSet
  <2> QED BY <2>1, <2>2, <2>3
<1> QED BY <1>1, Invariant, PTL

\* A pop never overlooks a task that was stored all the while, and takes the
\* best of those, however the pushes and pops of the others interleave with its
\* scan.
THEOREM PopFindsTheBest == Spec => []PopIsBest
<1>1. IInv => PopIsBest
  BY DEF IInv, PopOf, PopIsBest
<1> QED BY <1>1, Invariant, PTL

-----------------------------------------------------------------------------
(* The refinement of TaskGraph: where the tasks are.                       *)

Ending  == {"end", "end_wait", "out"}
Pushing == {"push", "overflow", "overflow_locked"}
Round   == {"loop", "scan", "take", "missed", "system", "system_locked", "done_task", "execute", "running", "end"}

\* Which barrier a thread has met. A push before the first task is that of the
\* startup list, by the master.
PhaseOf(w) ==
    /\ pc[w] = "app" => w = Master
    /\ pc[w] \in {"app", "begin"} => bar[w] = 2
    /\ pc[w] \in Round \cup {"begin_wait"} => bar[w] = 3
    /\ pc[w] \in {"end_wait", "out"} => bar[w] = 4
    /\ pc[w] \in Pushing => (IF cur[w] = Null THEN w = Master /\ bar[w] = 2 ELSE bar[w] = 3)
    /\ cur[w] # Null => bar[w] >= 3
    /\ pc[w] \in Round \cup Ending \/ cur[w] # Null => \A v \in Workers : bar[v] >= 3

\* The object is enqueued once, before the round, which ends when taskstodo
\* is zero.
Untaken == {t \in Tasks : status[t] = "waiting" /\ \A w \in Workers : ~ (pc[w] = "execute" /\ cur[w] = t)}
RoundInv ==
    /\ enqueued \in {0, 1}
    /\ enqueued = 0 <=> pc[Master] \in Setup \cup {"app"}
    /\ enqueued = 0 => \A t \in Tasks : status[t] = "waiting"
    /\ taskstodo = IF enqueued = 0 THEN 0 ELSE Cardinality(Untaken)
    /\ \A w \in Workers : pc[w] \in Ending => taskstodo = 0

\* The places a task can be in.
Slot(b, i, t) == items[b][i] = t
Sys(t)        == \E k \in DOMAIN sysq : sysq[k] = t
Hand(w, t)    == \E k \in DOMAIN hand[w] : hand[w][k] = t
Takes(w, t)   == pc[w] \in {"done_task", "execute"} /\ cur[w] = t
Runs(w, t)    == pc[w] = "running" /\ cur[w] = t
Busy(w, t)    == Takes(w, t) \/ Runs(w, t)

OnePlace(t) ==
    /\ \A b, c \in Workers, i, j \in Slots : Slot(b, i, t) /\ Slot(c, j, t) => b = c /\ i = j
    /\ \A w, v \in Pushers : Hand(w, t) /\ Hand(v, t) => w = v
    /\ \A w, v \in Workers : Busy(w, t) /\ Busy(v, t) => w = v
    /\ \A b \in Workers, i \in Slots : Slot(b, i, t) =>
           ~ Sys(t) /\ (\A w \in Pushers : ~ Hand(w, t)) /\ (\A w \in Workers : ~ Busy(w, t))
    /\ Sys(t) => (\A w \in Pushers : ~ Hand(w, t)) /\ (\A w \in Workers : ~ Busy(w, t))
    /\ \A w \in Pushers, v \in Workers : ~ (Hand(w, t) /\ Busy(v, t))

\* The source of a task has given it.
Ready(t) ==
    \/ enqueued = 1 /\ t \in ToSet(Startup)
    \/ \E p \in Tasks : t \in ToSet(Spawns[p]) /\ status[p] = "done"
    \/ \E i \in DOMAIN Received : i <= received /\ t \in ToSet(Received[i])

\* A task is in one place from when it is ready to when it runs.
TaskInv(t) ==
    /\ OnePlace(t)
    /\ \A b \in Workers, i \in Slots : Slot(b, i, t) => status[t] = "waiting" /\ Ready(t)
    /\ Sys(t) => status[t] = "waiting" /\ Ready(t)
    /\ \A w \in Pushers : Hand(w, t) => status[t] = "waiting" /\ Ready(t)
    /\ \A w \in Workers : Takes(w, t) => status[t] = "waiting" /\ Ready(t)
    /\ \A w \in Workers : Runs(w, t) => status[t] = "running"
    /\ status[t] = "running" => \E w \in Workers : Runs(w, t)
    /\ status[t] # "waiting" => Ready(t)

RInv ==
    /\ IInv
    /\ status \in [Tasks -> {"waiting", "running", "done"}]
    /\ IsInjective(sysq) /\ \A w \in Pushers : IsInjective(hand[w])
    /\ \A w \in Workers : PhaseOf(w)
    /\ RoundInv
    /\ \A t \in Tasks : TaskInv(t)

\* Where tasks are, nothing comes to a place and nothing finishes.
Undisturbed(t) ==
    /\ \A b \in Workers, i \in Slots : Slot(b, i, t)' => Slot(b, i, t)
    /\ Sys(t)' => Sys(t)
    /\ \A w \in Pushers : Hand(w, t)' => Hand(w, t)
    /\ \A w \in Workers : Takes(w, t)' => Takes(w, t)
    /\ \A w \in Workers : Runs(w, t)' <=> Runs(w, t)
    /\ status'[t] = status[t]
    /\ Ready(t) => Ready(t)'

LEMMA UndisturbedKeeps ==
    ASSUME NEW t \in Tasks, TaskInv(t), Undisturbed(t)
    PROVE  TaskInv(t)'
<1>1. \A w \in Workers : Busy(w, t)' => Busy(w, t)
  BY DEF Busy, Undisturbed
<1>2. OnePlace(t)'
  BY <1>1 DEF OnePlace, TaskInv, Undisturbed
<1> QED BY <1>2 DEF TaskInv, Undisturbed

LEMMA ReadyStays ==
    ASSUME NEW t \in Tasks, enqueued = 1 => enqueued' = 1, received \in Nat,
           received' = received \/ received' = received + 1,
           \A p \in Tasks : status[p] = "done" => status'[p] = "done", Ready(t)
    PROVE  Ready(t)'
<1>1. CASE enqueued = 1 /\ t \in ToSet(Startup)
  BY <1>1 DEF Ready
<1>2. CASE \E p \in Tasks : t \in ToSet(Spawns[p]) /\ status[p] = "done"
  BY <1>2 DEF Ready
<1>3. CASE \E i \in DOMAIN Received : i <= received /\ t \in ToSet(Received[i])
  <2>1. PICK i \in DOMAIN Received : i <= received /\ t \in ToSet(Received[i])
    BY <1>3
  <2>2. i \in Nat
    <3>1. Received \in Seq(Seq(Tasks) \ {<<>>})
      BY HBBufferAssumption
    <3> QED BY <3>1
  <2>3. i <= received'
    BY <2>1, <2>2
  <2> QED BY <2>1, <2>3 DEF Ready
<1> QED BY <1>1, <1>2, <1>3 DEF Ready

\* The predecessors of a ready task are done.
LEMMA ReadyHasPreds ==
    ASSUME NEW t \in Tasks, Ready(t), NEW p \in Tasks, t \in ToSet(Spawns[p])
    PROVE  status[p] = "done"
<1>1. /\ t \notin ToSet(Startup)
      /\ \A q \in Tasks \ {p} : t \notin ToSet(Spawns[q])
      /\ \A i \in DOMAIN Received : t \notin ToSet(Received[i])
  BY SourcesAssumption
<1> QED BY <1>1 DEF Ready

\* The tasks of the other threads are where they are when one thread moves
\* outside the execution of a task.
LEMMA QuietTasks ==
    ASSUME TypeOK, NEW v \in Pushers, NEW f, pc' = [pc EXCEPT ![v] = f],
           UNCHANGED <<items, sysq, hand, cur, status, enqueued, received>>,
           v \in Workers => \/ pc[v] \notin {"done_task", "execute", "running"} /\ f \notin {"done_task", "execute", "running"}
                            \/ pc[v] = "done_task" /\ f = "execute",
           NEW t \in Tasks
    PROVE  Undisturbed(t)
<1>1. \A w \in Workers : (Takes(w, t)' => Takes(w, t)) /\ (Runs(w, t)' <=> Runs(w, t))
  <2> SUFFICES ASSUME NEW w \in Workers PROVE (Takes(w, t)' => Takes(w, t)) /\ (Runs(w, t)' <=> Runs(w, t))
    OBVIOUS
  <2>1. CASE w = v
    <3>1. pc'[v] = f
      BY DEF TypeOK
    <3> QED BY <2>1, <3>1 DEF Takes, Runs
  <2>2. CASE w # v
    <3>1. pc'[w] = pc[w]
      BY <2>2, Sizes DEF TypeOK
    <3> QED BY <3>1 DEF Takes, Runs
  <2> QED BY <2>1, <2>2
<1>2. Ready(t) => Ready(t)'
  BY DEF Ready
<1>3. /\ \A b \in Workers, i \in Slots : Slot(b, i, t)' => Slot(b, i, t)
      /\ Sys(t)' => Sys(t)
      /\ \A w \in Pushers : Hand(w, t)' => Hand(w, t)
  BY DEF Slot, Sys, Hand
<1> QED BY <1>1, <1>2, <1>3 DEF Undisturbed

\* The phase of the other threads only needs that nobody leaves a barrier back.
LEMMA PhaseStep ==
    ASSUME TypeOK, TypeOK', \A w \in Workers : PhaseOf(w), NEW v \in Pushers,
           \A w \in Workers \ {v} : pc'[w] = pc[w] /\ cur'[w] = cur[w] /\ bar'[w] = bar[w],
           v \in Workers => bar'[v] >= bar[v] /\ PhaseOf(v)'
    PROVE  \A w \in Workers : PhaseOf(w)'
<1>1. ASSUME NEW u \in Workers PROVE bar[u] \in Nat /\ bar'[u] \in Nat /\ bar'[u] >= bar[u]
  <2>1. bar[u] \in Nat /\ bar'[u] \in Nat
    BY DEF TypeOK
  <2>2. CASE u = v
    BY <2>1, <2>2
  <2>3. CASE u # v
    BY <2>1, <2>3
  <2> QED BY <2>1, <2>2, <2>3
<1>2. (\A u \in Workers : bar[u] >= 3) => \A u \in Workers : bar'[u] >= 3
  BY <1>1
<1>3. ASSUME NEW w \in Workers, w # v PROVE PhaseOf(w)'
  <2>1. pc'[w] = pc[w] /\ cur'[w] = cur[w] /\ bar'[w] = bar[w] /\ PhaseOf(w)
    BY <1>3
  <2> QED BY <1>2, <2>1 DEF PhaseOf
<1> QED BY <1>3

\* The round goes on as it was.
LEMMA RoundStays ==
    ASSUME TypeOK, RoundInv, NEW v \in Pushers, NEW f, pc' = [pc EXCEPT ![v] = f],
           UNCHANGED <<status, enqueued, taskstodo>>, \A w \in Workers \ {v} : cur'[w] = cur[w],
           v \in Workers => pc[v] # "execute" /\ f # "execute",
           v = Master => (pc[v] \in Setup \cup {"app"} <=> f \in Setup \cup {"app"}),
           v \in Workers /\ f \in Ending => pc[v] \in Ending \/ taskstodo = 0
    PROVE  RoundInv'
<1>1. \A w \in Workers : pc'[w] = IF w = v THEN f ELSE pc[w]
  BY Sizes DEF TypeOK
<1>2. Untaken' = Untaken
  <2>1. \A w \in Workers, t \in Tasks : pc'[w] = "execute" /\ cur'[w] = t <=> pc[w] = "execute" /\ cur[w] = t
    BY <1>1
  <2> QED BY <2>1 DEF Untaken
<1>3. pc'[Master] \in Setup \cup {"app"} <=> pc[Master] \in Setup \cup {"app"}
  BY <1>1, Sizes
<1>4. \A w \in Workers : pc'[w] \in Ending => taskstodo = 0
  BY <1>1 DEF RoundInv
<1> QED BY <1>2, <1>3, <1>4 DEF RoundInv, Setup

\* A step that moves no task and changes nothing of the round.
LEMMA PlainStep ==
    ASSUME RInv, IInv', NEW v \in Pushers, NEW f, pc' = [pc EXCEPT ![v] = f],
           UNCHANGED <<items, sysq, hand, cur, status, enqueued, received, taskstodo>>,
           v \in Workers => pc[v] \notin {"done_task", "execute", "running"} /\ f \notin {"done_task", "execute", "running"},
           v = Master => (pc[v] \in Setup \cup {"app"} <=> f \in Setup \cup {"app"}),
           v \in Workers /\ f \in Ending => pc[v] \in Ending \/ taskstodo = 0,
           \A w \in Workers \ {v} : bar'[w] = bar[w],
           v \in Workers => bar'[v] >= bar[v] /\ PhaseOf(v)'
    PROVE  RInv'
<1>1. TypeOK /\ TypeOK'
  BY DEF RInv, IInv
<1>2. \A t \in Tasks : TaskInv(t)'
  <2> SUFFICES ASSUME NEW t \in Tasks PROVE TaskInv(t)'
    OBVIOUS
  <2>1. Undisturbed(t)
    BY <1>1, QuietTasks
  <2>2. TaskInv(t)
    BY DEF RInv
  <2> QED BY <2>1, <2>2, UndisturbedKeeps
<1>3. \A w \in Workers : PhaseOf(w)'
  <2>1. \A w \in Workers \ {v} : pc'[w] = pc[w] /\ cur'[w] = cur[w] /\ bar'[w] = bar[w]
    BY <1>1, Sizes DEF TypeOK
  <2>2. \A w \in Workers : PhaseOf(w)
    BY DEF RInv
  <2> QED BY <1>1, <2>1, <2>2, PhaseStep
<1>4. RoundInv'
  <2>1. RoundInv
    BY DEF RInv
  <2>2. v \in Workers => pc[v] # "execute" /\ f # "execute"
    OBVIOUS
  <2> QED BY <1>1, <2>1, <2>2, RoundStays
<1> QED BY <1>2, <1>3, <1>4 DEF RInv

LEMMA SetupSteps ==
    ASSUME RInv, IInv', NEW v \in Workers, FirstBarrier(v) \/ MakeBuffer(v) \/ OrderQueues(v)
    PROVE  RInv'
<1>1. TypeOK /\ SetupOf(v) /\ PhaseOf(v) /\ v \in Pushers /\ bar[v] \in Nat
  BY Sizes DEF RInv, IInv, TypeOK
<1>2. pc[v] \in Setup /\ UNCHANGED <<items, sysq, hand, cur, status, enqueued, received, taskstodo>>
  BY DEF FirstBarrier, MakeBuffer, OrderQueues, Setup, popVars, userVars
<1>3. cur[v] = Null
  BY <1>1, <1>2 DEF SetupOf, PhaseOf, Setup
<1>4. PICK f : /\ pc' = [pc EXCEPT ![v] = f]
               /\ \/ f \in Setup
                  \/ f \in {"app", "begin"} /\ bar' = bar /\ bar[v] = 2 /\ (f = "app" <=> v = Master)
  <2>1. CASE FirstBarrier(v)
    BY <2>1 DEF FirstBarrier, Goto, Setup
  <2>2. CASE MakeBuffer(v)
    BY <2>2 DEF MakeBuffer, Goto, Setup
  <2>3. CASE OrderQueues(v)
    <3>1. pc' = [pc EXCEPT ![v] = IF v = Master THEN "app" ELSE "begin"] /\ bar' = bar /\ bar[v] = 2
      BY <1>1, <2>3 DEF OrderQueues, Goto, SetupOf
    <3>2. CASE v = Master
      <4>1. pc' = [pc EXCEPT ![v] = "app"]
        BY <3>1, <3>2
      <4> WITNESS "app"
      <4> QED BY <3>1, <3>2, <4>1
    <3>3. CASE v # Master
      <4>1. pc' = [pc EXCEPT ![v] = "begin"]
        BY <3>1, <3>3
      <4> WITNESS "begin"
      <4> QED BY <3>1, <3>3, <4>1
    <3> QED BY <3>2, <3>3
  <2> QED BY <2>1, <2>2, <2>3
<1>5. (\A w \in Workers \ {v} : bar'[w] = bar[w]) /\ bar'[v] >= bar[v]
  <2>1. bar' = bar \/ bar' = [bar EXCEPT ![v] = @ + 1]
    BY DEF FirstBarrier, MakeBuffer, OrderQueues
  <2> QED BY <1>1, <2>1 DEF TypeOK
<1>6. pc'[v] = f /\ cur'[v] = Null
  BY <1>1, <1>2, <1>3, <1>4 DEF TypeOK
<1>7. PhaseOf(v)'
  <2>1. CASE f \in Setup
    <3>1. pc'[v] \in {"init", "system_wait", "buffer_wait"}
      BY <1>6, <2>1 DEF Setup
    <3> QED BY <1>6, <3>1 DEF PhaseOf, Round, Ending, Pushing
  <2>2. CASE f \in {"app", "begin"} /\ bar' = bar /\ bar[v] = 2 /\ (f = "app" <=> v = Master)
    BY <1>6, <2>2 DEF PhaseOf, Round, Ending, Pushing
  <2> QED BY <1>4, <2>1, <2>2
<1>8. /\ pc[v] \notin {"done_task", "execute", "running"} /\ f \notin {"done_task", "execute", "running"}
      /\ v = Master => (pc[v] \in Setup \cup {"app"} <=> f \in Setup \cup {"app"})
      /\ f \notin Ending
  BY <1>2, <1>4 DEF Setup, Ending
<1> QED BY <1>1, <1>2, <1>4, <1>5, <1>7, <1>8, PlainStep

LEMMA BarrierSteps ==
    ASSUME RInv, IInv', NEW v \in Workers, Arrive(v) \/ Leave(v)
    PROVE  RInv'
<1>1. TypeOK /\ PhaseOf(v) /\ v \in Pushers /\ \A w \in Workers : bar[w] \in Nat
  BY Sizes DEF RInv, IInv, TypeOK
<1>2. UNCHANGED <<items, sysq, hand, cur, status, enqueued, received, taskstodo>>
  BY DEF Arrive, Leave, popVars, userVars
<1>3. CASE Arrive(v)
  <2>1. PICK f : /\ pc' = [pc EXCEPT ![v] = f]
                 /\ (pc[v] = "begin" /\ f = "begin_wait") \/ (pc[v] = "end" /\ f = "end_wait")
    <3>1. /\ pc[v] \in {"begin", "end"}
          /\ pc' = [pc EXCEPT ![v] = IF pc[v] = "begin" THEN "begin_wait" ELSE "end_wait"]
      BY <1>3 DEF Arrive, Goto
    <3>2. CASE pc[v] = "begin"
      <4>1. pc' = [pc EXCEPT ![v] = "begin_wait"]
        BY <3>1, <3>2
      <4> WITNESS "begin_wait"
      <4> QED BY <3>2, <4>1
    <3>3. CASE pc[v] = "end"
      <4>1. pc' = [pc EXCEPT ![v] = "end_wait"]
        BY <3>1, <3>3
      <4> WITNESS "end_wait"
      <4> QED BY <3>3, <4>1
    <3> QED BY <3>1, <3>2, <3>3
  <2>2. bar' = [bar EXCEPT ![v] = @ + 1]
    BY <1>3 DEF Arrive
  <2>3. pc'[v] = f /\ bar'[v] = bar[v] + 1 /\ bar'[v] >= bar[v] /\ \A w \in Workers \ {v} : bar'[w] = bar[w]
    BY <1>1, <2>1, <2>2 DEF TypeOK
  <2>4. (\A w \in Workers : bar[w] >= 3) => \A w \in Workers : bar'[w] >= 3
    BY <1>1, <2>3
  <2>5. PhaseOf(v)'
    <3>1. CASE pc[v] = "begin" /\ f = "begin_wait"
      BY <1>1, <1>2, <2>3, <2>4, <3>1 DEF PhaseOf, Round, Ending, Pushing
    <3>2. CASE pc[v] = "end" /\ f = "end_wait"
      BY <1>1, <1>2, <2>3, <2>4, <3>2 DEF PhaseOf, Round, Ending, Pushing
    <3> QED BY <2>1, <3>1, <3>2
  <2>6. /\ pc[v] \notin {"done_task", "execute", "running"} /\ f \notin {"done_task", "execute", "running"}
        /\ v = Master => (pc[v] \in Setup \cup {"app"} <=> f \in Setup \cup {"app"})
        /\ f \in Ending => pc[v] \in Ending
    BY <2>1 DEF Setup, Ending
  <2> QED BY <1>1, <1>2, <2>1, <2>3, <2>5, <2>6, PlainStep
<1>4. CASE Leave(v)
  <2>1. PICK f : /\ pc' = [pc EXCEPT ![v] = f]
                 /\ (pc[v] = "begin_wait" /\ f = "loop") \/ (pc[v] = "end_wait" /\ f = "out")
    <3>1. /\ pc[v] \in {"begin_wait", "end_wait"}
          /\ pc' = [pc EXCEPT ![v] = IF pc[v] = "begin_wait" THEN "loop" ELSE "out"]
      BY <1>4 DEF Leave, Goto
    <3>2. CASE pc[v] = "begin_wait"
      <4>1. pc' = [pc EXCEPT ![v] = "loop"]
        BY <3>1, <3>2
      <4> WITNESS "loop"
      <4> QED BY <3>2, <4>1
    <3>3. CASE pc[v] = "end_wait"
      <4>1. pc' = [pc EXCEPT ![v] = "out"]
        BY <3>1, <3>3
      <4> WITNESS "out"
      <4> QED BY <3>3, <4>1
    <3> QED BY <3>1, <3>2, <3>3
  <2>2. bar' = bar /\ Released(v)
    BY <1>4 DEF Leave
  <2>3. pc'[v] = f /\ bar'[v] >= bar[v]
    BY <1>1, <2>1, <2>2 DEF TypeOK
  <2>4. \A w \in Workers : bar[w] >= 3
    <3>1. bar[v] >= 3
      BY <1>1, <2>1 DEF PhaseOf, Round
    <3> QED BY <1>1, <2>2, <3>1 DEF Released
  <2>5. PhaseOf(v)'
    <3>1. CASE pc[v] = "begin_wait" /\ f = "loop"
      BY <1>1, <1>2, <2>2, <2>3, <2>4, <3>1 DEF PhaseOf, Round, Ending, Pushing
    <3>2. CASE pc[v] = "end_wait" /\ f = "out"
      BY <1>1, <1>2, <2>2, <2>3, <2>4, <3>2 DEF PhaseOf, Round, Ending, Pushing
    <3> QED BY <2>1, <3>1, <3>2
  <2>6. /\ pc[v] \notin {"done_task", "execute", "running"} /\ f \notin {"done_task", "execute", "running"}
        /\ v = Master => (pc[v] \in Setup \cup {"app"} <=> f \in Setup \cup {"app"})
        /\ f \in Ending => pc[v] \in Ending
    BY <2>1 DEF Setup, Ending
  <2> QED BY <1>1, <1>2, <2>1, <2>2, <2>3, <2>5, <2>6, PlainStep
<1> QED BY <1>3, <1>4

\* In the round a thread moves on without having met another barrier.
LEMMA RoundPhase ==
    ASSUME NEW v \in Workers, PhaseOf(v), pc[v] \in Round, pc'[v] \in Round, bar' = bar
    PROVE  PhaseOf(v)'
<1>1. pc'[v] \notin {"app", "begin", "end_wait", "out", "push", "overflow", "overflow_locked"}
  BY DEF Round
<1> QED BY <1>1 DEF PhaseOf, Pushing

LEMMA SearchSteps ==
    ASSUME RInv, IInv', NEW v \in Workers, NEW f, pc' = [pc EXCEPT ![v] = f],
           UNCHANGED <<items, sysq, hand, cur, status, enqueued, received, taskstodo, bar>>,
           pc[v] \in Round \ {"done_task", "execute", "running", "end"},
           f \in Round \ {"done_task", "execute", "running"},
           f = "end" => taskstodo = 0
    PROVE  RInv'
<1>1. TypeOK /\ PhaseOf(v) /\ v \in Pushers /\ bar[v] \in Nat
  BY Sizes DEF RInv, IInv, TypeOK
<1>2. pc'[v] = f
  BY <1>1 DEF TypeOK
<1>3. PhaseOf(v)'
  BY <1>1, <1>2, RoundPhase
<1>4. /\ pc[v] \notin {"done_task", "execute", "running"} /\ f \notin {"done_task", "execute", "running"}
      /\ pc[v] \notin Setup \cup {"app"} /\ f \notin Setup \cup {"app"}
      /\ f \in Ending => taskstodo = 0
  BY DEF Setup, Ending, Round
<1>5. bar'[v] >= bar[v] /\ (\A w \in Workers \ {v} : bar'[w] = bar[w])
  BY <1>1
<1> QED BY <1>1, <1>3, <1>4, <1>5, PlainStep

LEMMA LookSteps ==
    ASSUME RInv, IInv', NEW v \in Workers, Loop(v) \/ Scan(v) \/ Miss(v) \/ TryLock(v)
    PROVE  RInv'
<1>1. TypeOK
  BY DEF RInv, IInv
<1>2. UNCHANGED <<items, sysq, hand, cur, status, enqueued, received, taskstodo, bar>>
  BY DEF Loop, Scan, Miss, TryLock, userVars
<1>3. pc[v] \in {"loop", "scan", "missed", "system"}
  BY DEF Loop, Scan, Miss, TryLock
<1>4. PICK f \in {"end", "scan", "take", "missed", "system", "system_locked", "loop"} :
          pc' = [pc EXCEPT ![v] = f] /\ (f = "end" => taskstodo = 0)
  <2>1. CASE Loop(v)
    BY <2>1 DEF Loop, StartPop, Goto
  <2>2. CASE Scan(v)
    <3>1. \/ pc' = [pc EXCEPT ![v] = "take"]
          \/ pc' = [pc EXCEPT ![v] = "missed"]
          \/ pc' = pc
      BY <2>2 DEF Scan, Goto
    <3>2. pc' = pc => pc' = [pc EXCEPT ![v] = "scan"]
      <4>1. pc[v] = "scan" /\ pc = [pc EXCEPT ![v] = pc[v]]
        BY <1>1, <2>2 DEF TypeOK, Scan
      <4> QED BY <4>1
    <3> QED BY <3>1, <3>2
  <2>3. CASE Miss(v)
    BY <2>3 DEF Miss, StartPop, Goto
  <2>4. CASE TryLock(v)
    BY <2>4 DEF TryLock, Goto
  <2> QED BY <2>1, <2>2, <2>3, <2>4
<1>5. /\ pc[v] \in Round \ {"done_task", "execute", "running", "end"}
      /\ f \in Round \ {"done_task", "execute", "running"}
  BY <1>3 DEF Round
<1> QED BY <1>2, <1>4, <1>5, SearchSteps

LEMMA SpinLockR ==
    ASSUME RInv, IInv', NEW v \in Pushers, SpinLock(v)
    PROVE  RInv'
<1>1. TypeOK /\ v \in Pushers
  BY DEF RInv, IInv
<1>2. /\ UNCHANGED <<items, sysq, hand, cur, status, enqueued, received, taskstodo, bar>>
      /\ pc[v] = "overflow" /\ pc' = [pc EXCEPT ![v] = "overflow_locked"]
  BY DEF SpinLock, Goto, userVars
<1>3. pc'[v] = "overflow_locked"
  BY <1>1, <1>2 DEF TypeOK
<1>4. ASSUME v \in Workers PROVE bar'[v] >= bar[v] /\ PhaseOf(v)'
  <2>1. bar[v] \in Nat /\ PhaseOf(v)
    BY <1>1, <1>4 DEF TypeOK, RInv
  <2>2. PhaseOf(v)'
    BY <1>2, <1>3, <2>1 DEF PhaseOf, Round, Ending, Pushing
  <2> QED BY <1>2, <2>1, <2>2
<1> QED BY <1>2, <1>4, PlainStep DEF Setup, Ending

-----------------------------------------------------------------------------
(* The refinement: steps that move tasks.                                  *)

LEMMA MoveStep ==
    ASSUME RInv, IInv', NEW v \in Pushers,
           status' \in [Tasks -> {"waiting", "running", "done"}],
           IsInjective(sysq'), \A w \in Pushers : IsInjective(hand'[w]),
           \A w \in Workers \ {v} : pc'[w] = pc[w] /\ cur'[w] = cur[w] /\ bar'[w] = bar[w],
           v \in Workers => bar'[v] >= bar[v] /\ PhaseOf(v)',
           RoundInv', \A t \in Tasks : TaskInv(t)'
    PROVE  RInv'
<1>1. TypeOK /\ TypeOK' /\ \A w \in Workers : PhaseOf(w)
  BY DEF RInv, IInv
<1>2. \A w \in Workers : PhaseOf(w)'
  BY <1>1, PhaseStep
<1> QED BY <1>2 DEF RInv

LEMMA OnePlaceStays ==
    ASSUME NEW t \in Tasks, OnePlace(t),
           \A b \in Workers, i \in Slots : Slot(b, i, t)' => Slot(b, i, t),
           Sys(t)' => Sys(t),
           \A w \in Pushers : Hand(w, t)' => Hand(w, t),
           \A w \in Workers : Busy(w, t)' => Busy(w, t)
    PROVE  OnePlace(t)'
  BY DEF OnePlace

\* A task that was not ready was nowhere: it comes into one hand.
LEMMA NewTask ==
    ASSUME NEW t \in Tasks, TaskInv(t), ~ Ready(t), Ready(t)', NEW v \in Pushers,
           \A b \in Workers, i \in Slots : Slot(b, i, t)' => Slot(b, i, t),
           Sys(t)' => Sys(t),
           \A w \in Pushers \ {v} : Hand(w, t)' => Hand(w, t),
           \A w \in Workers : (Takes(w, t)' => Takes(w, t)) /\ (Runs(w, t)' => Runs(w, t)),
           status'[t] = status[t]
    PROVE  TaskInv(t)'
<1>1. status[t] = "waiting"
  BY DEF TaskInv
<1>2. /\ \A b \in Workers, i \in Slots : ~ Slot(b, i, t)'
      /\ ~ Sys(t)' /\ \A w \in Pushers \ {v} : ~ Hand(w, t)'
      /\ \A w \in Workers : ~ Takes(w, t)' /\ ~ Runs(w, t)'
  BY <1>1 DEF TaskInv
<1>3. OnePlace(t)'
  BY <1>2 DEF OnePlace, Busy
<1> QED BY <1>1, <1>2, <1>3 DEF TaskInv

LEMMA TailFacts ==
    ASSUME NEW S, NEW s \in Seq(S), s # <<>>, IsInjective(s)
    PROVE  /\ IsInjective(Tail(s))
           /\ \E k \in DOMAIN s : s[k] = Head(s)
           /\ \A k \in DOMAIN Tail(s) : Tail(s)[k] # Head(s) /\ \E j \in DOMAIN s : s[j] = Tail(s)[k]
<1>1. Len(s) \in Nat \ {0} /\ DOMAIN s = 1..Len(s) /\ Head(s) = s[1]
  OBVIOUS
<1>2. DOMAIN Tail(s) = 1..(Len(s) - 1) /\ \A k \in DOMAIN Tail(s) : Tail(s)[k] = s[k + 1] /\ k + 1 \in DOMAIN s
  BY <1>1
<1>3. \A i, j \in DOMAIN s : s[i] = s[j] => i = j
  BY DEF IsInjective
<1>4. ASSUME NEW k \in DOMAIN Tail(s) PROVE Tail(s)[k] # Head(s)
  BY <1>1, <1>2, <1>3
<1>5. \A i, j \in DOMAIN Tail(s) : Tail(s)[i] = Tail(s)[j] => i = j
  BY <1>1, <1>2, <1>3
<1> QED BY <1>1, <1>2, <1>4, <1>5 DEF IsInjective

LEMMA ConcatFacts ==
    ASSUME NEW S, NEW s \in Seq(S), NEW u \in Seq(S), IsInjective(s), IsInjective(u),
           \A i \in DOMAIN s, j \in DOMAIN u : s[i] # u[j]
    PROVE  /\ IsInjective(s \o u)
           /\ \A k \in DOMAIN (s \o u) : \/ \E i \in DOMAIN s : s[i] = (s \o u)[k]
                                         \/ \E i \in DOMAIN u : u[i] = (s \o u)[k]
<1>1. /\ Len(s) \in Nat /\ Len(u) \in Nat /\ DOMAIN s = 1..Len(s) /\ DOMAIN u = 1..Len(u)
      /\ DOMAIN (s \o u) = 1..(Len(s) + Len(u))
  OBVIOUS
<1>2. \A k \in DOMAIN (s \o u) : \/ k \in DOMAIN s /\ (s \o u)[k] = s[k]
                                 \/ k - Len(s) \in DOMAIN u /\ (s \o u)[k] = u[k - Len(s)]
  BY <1>1
<1>3. /\ \A i, j \in DOMAIN s : s[i] = s[j] => i = j
      /\ \A i, j \in DOMAIN u : u[i] = u[j] => i = j
  BY DEF IsInjective
<1>4. ASSUME NEW i \in DOMAIN (s \o u), NEW j \in DOMAIN (s \o u), (s \o u)[i] = (s \o u)[j] PROVE i = j
  <2>1. i \in Int /\ j \in Int
    BY <1>1
  <2>2. CASE i \in DOMAIN s /\ (s \o u)[i] = s[i]
    BY <1>2, <1>3, <1>4, <2>2
  <2>3. CASE i - Len(s) \in DOMAIN u /\ (s \o u)[i] = u[i - Len(s)]
    <3>1. j - Len(s) \in DOMAIN u /\ (s \o u)[j] = u[j - Len(s)]
      BY <1>2, <1>4, <2>3
    <3>2. i - Len(s) = j - Len(s)
      BY <1>3, <1>4, <2>3, <3>1
    <3> QED BY <1>1, <2>1, <3>2
  <2> QED BY <1>2, <2>2, <2>3
<1> QED BY <1>2, <1>4 DEF IsInjective

\* A push ends where its thread had come from.
LEMMA PushPhase ==
    ASSUME NEW v \in Workers, PhaseOf(v), pc[v] \in Pushing, pc'[v] \in Pushing \cup {AfterPush(v)},
           bar' = bar, cur' = cur
    PROVE  PhaseOf(v)'
<1>1. CASE pc'[v] \in Pushing
  BY <1>1 DEF PhaseOf, Pushing, Round, Ending
<1>2. CASE cur[v] = Null
  <2>1. AfterPush(v) = "begin" /\ bar[v] = 2
    BY <1>2, Sizes DEF AfterPush, PhaseOf
  <2>2. CASE pc'[v] = "begin"
    BY <1>2, <2>1, <2>2 DEF PhaseOf, Pushing, Round, Ending
  <2> QED BY <1>1, <2>1, <2>2
<1>3. CASE cur[v] # Null
  <2>1. AfterPush(v) = "loop" /\ bar[v] = 3 /\ \A u \in Workers : bar[u] >= 3
    BY <1>3, Sizes DEF AfterPush, PhaseOf
  <2>2. CASE pc'[v] = "loop"
    BY <1>3, <2>1, <2>2 DEF PhaseOf, Pushing, Round, Ending
  <2> QED BY <1>1, <2>1, <2>2
<1> QED BY <1>2, <1>3

LEMMA InRoundEnqueued ==
    ASSUME RInv, NEW v \in Workers, pc[v] \in Round \cup Ending \/ cur[v] # Null
    PROVE  enqueued = 1
<1>1. PhaseOf(v) /\ PhaseOf(Master) /\ SetupOf(Master) /\ RoundInv
  BY Sizes DEF RInv, IInv
<1>2. bar[Master] >= 3
  BY <1>1, Sizes DEF PhaseOf
<1>3. pc[Master] \notin Setup \cup {"app"}
  BY <1>1, <1>2 DEF SetupOf, Setup, PhaseOf
<1> QED BY <1>1, <1>3 DEF RoundInv

LEMMA PushR ==
    ASSUME RInv, IInv', NEW v \in Pushers, Push(v)
    PROVE  RInv'
<1>1. TypeOK /\ PushOf(v) /\ RoundInv /\ Target(v) \in Workers /\ IsInjective(hand[v])
  BY Sizes DEF RInv, IInv
<1>2. PICK f \in Pushing \cup {AfterPush(v)} : pc[v] = "push" /\ pc' = [pc EXCEPT ![v] = f]
  <2>1. PICK left : StoreNext(v, left) /\ pc[v] = "push"
    BY DEF Push
  <2>2. PICK f : f = IF left = <<>> THEN AfterPush(v) ELSE IF idx[v] + 1 = QueueSize THEN "overflow" ELSE "push"
    OBVIOUS
  <2>3. pc' = [pc EXCEPT ![v] = f]
    BY <2>1, <2>2 DEF StoreNext, Goto
  <2>4. f \in Pushing \cup {AfterPush(v)}
    BY <2>2 DEF Pushing
  <2> QED BY <2>1, <2>3, <2>4
<1>3. UNCHANGED <<sysq, cur, status, enqueued, received, taskstodo, bar>>
  BY DEF Push, userVars
<1>4. hand[v] # <<>> /\ hand[v] \in Seq(Tasks) /\ idx[v] \in Slots
  BY <1>1, <1>2 DEF PushOf, TypeOK
<1>5. pc'[v] = f /\ \A w \in Pushers \ {v} : pc'[w] = pc[w]
  BY <1>1, <1>2 DEF TypeOK
<1>6. ASSUME v \in Workers PROVE bar'[v] >= bar[v] /\ PhaseOf(v)'
  <2>1. PhaseOf(v) /\ bar[v] \in Nat /\ pc[v] \in Pushing
    BY <1>1, <1>2, <1>6 DEF RInv, TypeOK, Pushing
  <2> QED BY <1>2, <1>3, <1>5, <1>6, <2>1, PushPhase
<1>7. /\ pc[v] \notin {"done_task", "execute", "running"} /\ f \notin {"done_task", "execute", "running"}
      /\ pc[v] \notin Setup \cup {"app"} /\ f \notin Setup \cup {"app"} /\ f \notin Ending
  BY <1>2 DEF Pushing, AfterPush, Setup, Ending
<1>8. CASE ~ SlotIs(v, idx[v])
  <2>1. items' = items /\ hand' = [hand EXCEPT ![v] = hand[v]]
    BY <1>8 DEF Push, StoreNext
  <2>2. hand' = hand
    BY <1>1, <2>1 DEF TypeOK
  <2> QED BY <1>2, <1>3, <1>6, <1>7, <2>1, <2>2, PlainStep
<1>9. CASE SlotIs(v, idx[v])
  <2> PICK x : x = Head(hand[v])
    OBVIOUS
  <2>1. /\ items' = [items EXCEPT ![Target(v)][idx[v]] = x] /\ items[Target(v)][idx[v]] = Null
        /\ hand' = [hand EXCEPT ![v] = Tail(hand[v])]
    BY <1>9 DEF Push, StoreNext, SlotIs
  <2>2. /\ IsInjective(Tail(hand[v])) /\ x \in Tasks /\ Hand(v, x)
        /\ \A k \in DOMAIN Tail(hand[v]) : Tail(hand[v])[k] # x /\ \E j \in DOMAIN hand[v] : hand[v][j] = Tail(hand[v])[k]
    BY <1>1, <1>4, TailFacts DEF Hand
  <2>3. hand'[v] = Tail(hand[v]) /\ \A w \in Pushers \ {v} : hand'[w] = hand[w]
    BY <1>1, <2>1 DEF TypeOK
  <2>4. \A w \in Pushers : IsInjective(hand'[w])
    BY <2>2, <2>3 DEF RInv
  <2>5. ASSUME NEW t \in Tasks, NEW w \in Pushers, Hand(w, t)' PROVE Hand(w, t) /\ (w = v => t # x)
    <3>1. CASE w = v
      BY <2>2, <2>3, <2>5, <3>1 DEF Hand
    <3>2. CASE w # v
      BY <2>3, <2>5, <3>2 DEF Hand
    <3> QED BY <3>1, <3>2
  <2>6. ASSUME NEW t \in Tasks, NEW b \in Workers, NEW i \in Slots
        PROVE  Slot(b, i, t)' <=> Slot(b, i, t) \/ (t = x /\ b = Target(v) /\ i = idx[v])
    <3>1. items \in [Workers -> [Slots -> Tasks \cup {Null}]] /\ t # Null
      BY <1>1, Sizes DEF TypeOK
    <3>2. CASE b = Target(v) /\ i = idx[v]
      BY <1>4, <2>1, <3>1, <3>2 DEF Slot
    <3>3. CASE ~ (b = Target(v) /\ i = idx[v])
      <4>1. items'[b][i] = items[b][i]
        BY <2>1, <3>1, <3>3
      <4> QED BY <3>3, <4>1 DEF Slot
    <3> QED BY <3>2, <3>3
  <2>7. ASSUME NEW t \in Tasks, NEW w \in Workers
        PROVE  (Takes(w, t)' <=> Takes(w, t)) /\ (Runs(w, t)' <=> Runs(w, t))
    <3>1. CASE w = v
      BY <1>5, <1>7, <3>1 DEF Takes, Runs
    <3>2. CASE w # v
      <4>1. pc'[w] = pc[w]
        BY <1>5, <3>2, Sizes
      <4> QED BY <1>3, <4>1 DEF Takes, Runs
    <3> QED BY <3>1, <3>2
  <2>8. ASSUME NEW t \in Tasks PROVE (Sys(t)' <=> Sys(t)) /\ (Ready(t)' <=> Ready(t)) /\ status'[t] = status[t]
    BY <1>3 DEF Sys, Ready
  <2>9. ASSUME NEW t \in Tasks PROVE TaskInv(t)'
    <3>1. TaskInv(t)
      BY DEF RInv
    <3>2. CASE t # x
      <4>1. Undisturbed(t)
        BY <2>5, <2>6, <2>7, <2>8, <3>2 DEF Undisturbed
      <4> QED BY <3>1, <4>1, UndisturbedKeeps
    <3>3. CASE t = x
      <4>1. /\ Hand(v, t) /\ status[t] = "waiting" /\ Ready(t)
            /\ ~ Sys(t) /\ (\A w \in Pushers \ {v} : ~ Hand(w, t)) /\ (\A w \in Workers : ~ Takes(w, t) /\ ~ Runs(w, t))
            /\ \A b \in Workers, i \in Slots : ~ Slot(b, i, t)
        BY <2>2, <3>1, <3>3 DEF TaskInv, OnePlace, Busy
      <4>2. /\ ~ Sys(t)' /\ (\A w \in Pushers : ~ Hand(w, t)')
            /\ (\A w \in Workers : ~ Takes(w, t)' /\ ~ Runs(w, t)')
            /\ \A b \in Workers, i \in Slots : Slot(b, i, t)' => b = Target(v) /\ i = idx[v]
        BY <2>5, <2>6, <2>7, <2>8, <3>3, <4>1
      <4>3. OnePlace(t)'
        BY <4>2 DEF OnePlace, Busy
      <4>4. status'[t] = "waiting" /\ Ready(t)'
        BY <2>8, <4>1
      <4> QED BY <4>2, <4>3, <4>4 DEF TaskInv
    <3> QED BY <3>2, <3>3
  <2>10. RoundInv'
    BY <1>1, <1>2, <1>3, <1>7, RoundStays
  <2>11. \A w \in Workers \ {v} : pc'[w] = pc[w] /\ cur'[w] = cur[w] /\ bar'[w] = bar[w]
    BY <1>3, <1>5, Sizes
  <2>12. status' \in [Tasks -> {"waiting", "running", "done"}] /\ IsInjective(sysq')
    BY <1>3 DEF RInv
  <2> QED BY <1>6, <2>4, <2>9, <2>10, <2>11, <2>12, MoveStep
<1> QED BY <1>8, <1>9

LEMMA OverflowR ==
    ASSUME RInv, IInv', NEW v \in Pushers, Overflow(v)
    PROVE  RInv'
<1>1. TypeOK /\ RoundInv /\ sysq \in Seq(Tasks) /\ hand[v] \in Seq(Tasks) /\ IsInjective(sysq) /\ IsInjective(hand[v])
  BY DEF RInv, IInv, TypeOK
<1> PICK f : f = AfterPush(v)
  OBVIOUS
<1>2. /\ pc[v] = "overflow_locked" /\ pc' = [pc EXCEPT ![v] = f]
      /\ sysq' = sysq \o hand[v] /\ hand' = [hand EXCEPT ![v] = <<>>]
      /\ UNCHANGED <<items, cur, status, enqueued, received, taskstodo, bar>>
  BY DEF Overflow, Goto, userVars
<1>3. /\ pc'[v] = f /\ hand'[v] = <<>>
      /\ \A w \in Pushers \ {v} : pc'[w] = pc[w] /\ hand'[w] = hand[w]
  BY <1>1, <1>2 DEF TypeOK
<1>4. ASSUME v \in Workers PROVE bar'[v] >= bar[v] /\ PhaseOf(v)'
  <2>1. PhaseOf(v) /\ bar[v] \in Nat /\ pc[v] \in Pushing
    BY <1>1, <1>2, <1>4 DEF RInv, TypeOK, Pushing
  <2> QED BY <1>2, <1>3, <1>4, <2>1, PushPhase
<1>5. /\ pc[v] \notin {"done_task", "execute", "running"} /\ f \notin {"done_task", "execute", "running"}
      /\ pc[v] \notin Setup \cup {"app"} /\ f \notin Setup \cup {"app"} /\ f \notin Ending
  BY <1>2 DEF AfterPush, Setup, Ending
<1>6. \A i \in DOMAIN sysq, j \in DOMAIN hand[v] : sysq[i] # hand[v][j]
  <2> SUFFICES ASSUME NEW i \in DOMAIN sysq, NEW j \in DOMAIN hand[v], sysq[i] = hand[v][j] PROVE FALSE
    OBVIOUS
  <2>1. sysq[i] \in Tasks /\ Sys(sysq[i]) /\ Hand(v, sysq[i])
    BY <1>1 DEF Sys, Hand
  <2>2. TaskInv(sysq[i])
    BY <2>1 DEF RInv
  <2> QED BY <2>1, <2>2 DEF TaskInv, OnePlace
<1>7. /\ IsInjective(sysq')
      /\ \A k \in DOMAIN sysq' : \/ \E i \in DOMAIN sysq : sysq[i] = sysq'[k]
                                 \/ \E i \in DOMAIN hand[v] : hand[v][i] = sysq'[k]
  <2> DEFINE q == sysq \o hand[v]
  <2>1. /\ IsInjective(q)
        /\ \A k \in DOMAIN q : \/ \E i \in DOMAIN sysq : sysq[i] = q[k]
                              \/ \E i \in DOMAIN hand[v] : hand[v][i] = q[k]
    BY <1>1, <1>6, ConcatFacts
  <2>2. sysq' = q
    BY <1>2
  <2> HIDE DEF q
  <2> QED BY <2>1, <2>2
<1>8. \A w \in Pushers : IsInjective(hand'[w])
  <2>1. IsInjective(<<>>)
    BY DEF IsInjective
  <2> QED BY <1>3, <2>1 DEF RInv
<1>9. ASSUME NEW t \in Tasks
      PROVE  /\ Sys(t)' => Sys(t) \/ Hand(v, t)
             /\ ~ Hand(v, t)' /\ \A w \in Pushers \ {v} : Hand(w, t)' <=> Hand(w, t)
             /\ \A b \in Workers, i \in Slots : Slot(b, i, t)' <=> Slot(b, i, t)
             /\ status'[t] = status[t] /\ (Ready(t) <=> Ready(t)')
  BY <1>2, <1>3, <1>7 DEF Sys, Hand, Slot, Ready
<1>10. ASSUME NEW t \in Tasks, NEW w \in Workers
       PROVE  (Takes(w, t)' <=> Takes(w, t)) /\ (Runs(w, t)' <=> Runs(w, t))
  <2>1. CASE w = v
    BY <1>3, <1>5, <2>1 DEF Takes, Runs
  <2>2. CASE w # v
    <3>1. pc'[w] = pc[w]
      BY <1>3, <2>2, Sizes
    <3> QED BY <1>2, <3>1 DEF Takes, Runs
  <2> QED BY <2>1, <2>2
<1>11. ASSUME NEW t \in Tasks PROVE TaskInv(t)'
  <2>1. TaskInv(t)
    BY DEF RInv
  <2>2. CASE ~ Hand(v, t)
    <3>1. Undisturbed(t)
      BY <1>9, <1>10, <2>2 DEF Undisturbed
    <3> QED BY <2>1, <3>1, UndisturbedKeeps
  <2>3. CASE Hand(v, t)
    <3>1. /\ status[t] = "waiting" /\ Ready(t)
          /\ (\A w \in Pushers \ {v} : ~ Hand(w, t)) /\ (\A w \in Workers : ~ Takes(w, t) /\ ~ Runs(w, t))
          /\ \A b \in Workers, i \in Slots : ~ Slot(b, i, t)
      BY <2>1, <2>3 DEF TaskInv, OnePlace, Busy
    <3>2. /\ (\A w \in Pushers : ~ Hand(w, t)')
          /\ (\A w \in Workers : ~ Takes(w, t)' /\ ~ Runs(w, t)')
          /\ \A b \in Workers, i \in Slots : ~ Slot(b, i, t)'
          /\ status'[t] = "waiting" /\ Ready(t)'
      BY <1>9, <1>10, <3>1
    <3>3. OnePlace(t)'
      BY <3>2 DEF OnePlace, Busy
    <3> QED BY <3>2, <3>3 DEF TaskInv
  <2> QED BY <2>2, <2>3
<1>12. RoundInv'
  BY <1>1, <1>2, <1>5, RoundStays
<1>13. \A w \in Workers \ {v} : pc'[w] = pc[w] /\ cur'[w] = cur[w] /\ bar'[w] = bar[w]
  BY <1>2, <1>3, Sizes
<1>14. status' \in [Tasks -> {"waiting", "running", "done"}]
  BY <1>2 DEF RInv
<1> QED BY <1>4, <1>7, <1>8, <1>11, <1>12, <1>13, <1>14, MoveStep

\* A thread takes a task from where it was.
LEMMA TakenFrom ==
    ASSUME RInv, IInv', NEW v \in Workers, NEW x \in Tasks, TaskInv(x),
           pc[v] \in {"take", "system_locked"}, pc' = [pc EXCEPT ![v] = "done_task"],
           cur' = [cur EXCEPT ![v] = x],
           UNCHANGED <<hand, status, enqueued, received, taskstodo, bar>>, IsInjective(sysq'),
           Sys(x) \/ \E b \in Workers, i \in Slots : Slot(b, i, x),
           ~ Sys(x)', \A b \in Workers, i \in Slots : ~ Slot(b, i, x)',
           \A t \in Tasks : Sys(t)' => Sys(t),
           \A t \in Tasks, b \in Workers, i \in Slots : Slot(b, i, t)' => Slot(b, i, t)
    PROVE  RInv'
<1>1. TypeOK /\ RoundInv /\ v \in Pushers /\ PhaseOf(v) /\ bar[v] \in Nat
  BY Sizes DEF RInv, IInv, TypeOK
<1>2. pc'[v] = "done_task" /\ cur'[v] = x /\ \A w \in Workers \ {v} : pc'[w] = pc[w] /\ cur'[w] = cur[w]
  BY <1>1, Sizes DEF TypeOK
<1>3. PhaseOf(v)' /\ bar'[v] >= bar[v]
  <2>1. pc[v] \in Round /\ pc'[v] \in Round
    BY <1>2 DEF Round
  <2> QED BY <1>1, <2>1, RoundPhase
<1>4. ASSUME NEW t \in Tasks
      PROVE  /\ (\A w \in Pushers : Hand(w, t)' <=> Hand(w, t))
             /\ status'[t] = status[t] /\ (Ready(t) <=> Ready(t)')
  BY DEF Hand, Ready
<1>5. ASSUME NEW t \in Tasks, NEW w \in Workers
      PROVE  /\ Runs(w, t)' <=> Runs(w, t)
             /\ Takes(w, t)' <=> Takes(w, t) \/ (w = v /\ t = x)
  <2>1. CASE w = v
    BY <1>2, <2>1 DEF Takes, Runs
  <2>2. CASE w # v
    BY <1>2, <2>2 DEF Takes, Runs
  <2> QED BY <2>1, <2>2
<1>6. ASSUME NEW t \in Tasks PROVE TaskInv(t)'
  <2>1. CASE t # x
    <3>1. Undisturbed(t)
      BY <1>4, <1>5, <2>1 DEF Undisturbed
    <3>2. TaskInv(t)
      BY DEF RInv
    <3> QED BY <3>1, <3>2, UndisturbedKeeps
  <2>2. CASE t = x
    <3>1. /\ status[t] = "waiting" /\ Ready(t)
          /\ (\A w \in Pushers : ~ Hand(w, t)) /\ (\A w \in Workers : ~ Takes(w, t) /\ ~ Runs(w, t))
      BY <2>2 DEF TaskInv, OnePlace, Busy
    <3>2. /\ ~ Sys(t)' /\ (\A w \in Pushers : ~ Hand(w, t)')
          /\ (\A w \in Workers : ~ Runs(w, t)' /\ (Takes(w, t)' => w = v))
          /\ \A b \in Workers, i \in Slots : ~ Slot(b, i, t)'
          /\ status'[t] = "waiting" /\ Ready(t)'
      BY <1>4, <1>5, <2>2, <3>1
    <3>3. OnePlace(t)'
      BY <3>2 DEF OnePlace, Busy
    <3> QED BY <3>2, <3>3 DEF TaskInv
  <2> QED BY <2>1, <2>2
<1>7. RoundInv'
  <2>1. /\ pc[v] # "execute" /\ "done_task" # "execute"
        /\ pc[v] \notin Setup \cup {"app"} /\ "done_task" \notin Setup \cup {"app"}
        /\ "done_task" \notin Ending
    BY DEF Setup, Ending
  <2> QED BY <1>1, <1>2, <2>1, RoundStays
<1>8. /\ status' \in [Tasks -> {"waiting", "running", "done"}]
      /\ \A w \in Pushers : IsInjective(hand'[w])
      /\ \A w \in Workers \ {v} : pc'[w] = pc[w] /\ cur'[w] = cur[w] /\ bar'[w] = bar[w]
  BY <1>2 DEF RInv
<1> QED BY <1>1, <1>3, <1>6, <1>7, <1>8, MoveStep

LEMMA TakeR ==
    ASSUME RInv, IInv', NEW v \in Workers, Take(v)
    PROVE  RInv'
<1>1. TypeOK /\ SetupOf(v) /\ PopOf(v) /\ pc[v] = "take" /\ pc[v] \notin Setup
  BY DEF RInv, IInv, Take, Setup
<1>2. best[v] \in Tasks /\ bestidx[v] \in Slots
  BY <1>1 DEF TypeOK, PopOf
<1> PICK b : b = Buffer(v)
  OBVIOUS
<1>3. b \in Workers
  <2>1. turn[v] \in 0..NbCores /\ Enumerates(queues[v], Workers)
    BY <1>1 DEF SetupOf, PopOf
  <2> QED BY <2>1, BufferIsAWorker DEF Buffer
<1>4. CASE StillThere(v)
  <2> PICK x : x = best[v]
    OBVIOUS
  <2>1. /\ items' = [items EXCEPT ![b][bestidx[v]] = Null] /\ items[b][bestidx[v]] = x
        /\ cur' = [cur EXCEPT ![v] = x] /\ pc' = [pc EXCEPT ![v] = "done_task"]
        /\ UNCHANGED <<hand, status, enqueued, received, taskstodo, bar, sysq>>
    BY <1>4 DEF Take, StillThere, Goto, userVars
  <2>2. items \in [Workers -> [Slots -> Tasks \cup {Null}]] /\ Null \notin Tasks /\ x \in Tasks /\ TaskInv(x)
    BY <1>1, <1>2, Sizes DEF TypeOK, RInv
  <2>3. Slot(b, bestidx[v], x)
    BY <2>1 DEF Slot
  <2>4. \A t \in Tasks, c \in Workers, i \in Slots : Slot(c, i, t)' => Slot(c, i, t) /\ (c # b \/ i # bestidx[v])
    <3> SUFFICES ASSUME NEW t \in Tasks, NEW c \in Workers, NEW i \in Slots, items'[c][i] = t
                 PROVE  items[c][i] = t /\ (c # b \/ i # bestidx[v])
      BY DEF Slot
    <3>1. CASE c = b /\ i = bestidx[v]
      BY <1>2, <1>3, <2>1, <2>2, <3>1
    <3>2. CASE ~ (c = b /\ i = bestidx[v])
      BY <2>1, <2>2, <3>2
    <3> QED BY <3>1, <3>2
  <2>5. \A c \in Workers, i \in Slots : ~ Slot(c, i, x)'
    BY <1>2, <1>3, <2>2, <2>3, <2>4 DEF TaskInv, OnePlace
  <2>6. (\A t \in Tasks : Sys(t)' <=> Sys(t)) /\ ~ Sys(x)
    BY <1>2, <1>3, <2>1, <2>2, <2>3 DEF Sys, TaskInv, OnePlace
  <2>7. IsInjective(sysq')
    BY <2>1 DEF RInv
  <2> QED BY <1>1, <1>2, <1>3, <2>1, <2>2, <2>3, <2>4, <2>5, <2>6, <2>7, TakenFrom
<1>5. CASE ~ StillThere(v)
  <2>1. /\ pc' = [pc EXCEPT ![v] = "scan"]
        /\ UNCHANGED <<items, sysq, hand, cur, status, enqueued, received, taskstodo, bar>>
    BY <1>5 DEF Take, Goto, userVars
  <2>2. /\ pc[v] \in Round \ {"done_task", "execute", "running", "end"}
        /\ "scan" \in Round \ {"done_task", "execute", "running"}
    BY <1>1 DEF Round
  <2> QED BY <2>1, <2>2, SearchSteps
<1> QED BY <1>4, <1>5

LEMMA SystemPopR ==
    ASSUME RInv, IInv', NEW v \in Workers, SystemPop(v)
    PROVE  RInv'
<1>1. TypeOK /\ pc[v] = "system_locked" /\ sysq \in Seq(Tasks) /\ IsInjective(sysq)
  BY DEF RInv, IInv, SystemPop, TypeOK
<1>2. UNCHANGED <<items, hand, status, enqueued, received, taskstodo, bar>>
  BY DEF SystemPop, userVars
<1>3. CASE sysq = <<>>
  <2>1. pc' = [pc EXCEPT ![v] = "loop"] /\ UNCHANGED <<sysq, cur>>
    BY <1>3 DEF SystemPop, Goto
  <2>2. /\ pc[v] \in Round \ {"done_task", "execute", "running", "end"}
        /\ "loop" \in Round \ {"done_task", "execute", "running"}
    BY <1>1 DEF Round
  <2> QED BY <1>2, <2>1, <2>2, SearchSteps
<1>4. CASE sysq # <<>>
  <2> PICK x : x = Head(sysq)
    OBVIOUS
  <2>1. pc' = [pc EXCEPT ![v] = "done_task"] /\ sysq' = Tail(sysq) /\ cur' = [cur EXCEPT ![v] = x]
    BY <1>4 DEF SystemPop, Goto
  <2>2. x \in Tasks
    BY <1>1, <1>4
  <2>3. TaskInv(x)
    BY <2>2 DEF RInv
  <2>4. /\ IsInjective(Tail(sysq)) /\ Sys(x)
        /\ \A k \in DOMAIN Tail(sysq) : Tail(sysq)[k] # x /\ \E j \in DOMAIN sysq : sysq[j] = Tail(sysq)[k]
    BY <1>1, <1>4, TailFacts DEF Sys
  <2>5. IsInjective(sysq') /\ ~ Sys(x)' /\ \A t \in Tasks : Sys(t)' => Sys(t)
    BY <2>1, <2>4 DEF Sys
  <2>6. \A t \in Tasks, b \in Workers, i \in Slots : Slot(b, i, t)' <=> Slot(b, i, t)
    BY <1>2 DEF Slot
  <2>7. \A b \in Workers, i \in Slots : ~ Slot(b, i, x)
    BY <2>3, <2>4 DEF TaskInv, OnePlace
  <2> QED BY <1>1, <1>2, <2>1, <2>2, <2>3, <2>4, <2>5, <2>6, <2>7, TakenFrom
<1> QED BY <1>3, <1>4

\* The task in the hands of a thread has not run.
LEMMA DoneTaskR ==
    ASSUME RInv, IInv', NEW v \in Workers, DoneTask(v)
    PROVE  RInv'
<1>1. /\ TypeOK /\ RoundInv /\ v \in Pushers /\ PhaseOf(v) /\ CurOf(v) /\ bar[v] \in Nat
      /\ status \in [Tasks -> {"waiting", "running", "done"}]
  BY Sizes DEF RInv, IInv, TypeOK
<1>2. /\ pc[v] = "done_task" /\ pc' = [pc EXCEPT ![v] = "execute"] /\ taskstodo' = taskstodo - 1
      /\ UNCHANGED <<items, sysq, hand, cur, status, enqueued, received, bar>>
  BY DEF DoneTask, Goto, userVars
<1>3. pc'[v] = "execute" /\ \A w \in Workers \ {v} : pc'[w] = pc[w]
  BY <1>1, <1>2, Sizes DEF TypeOK
<1>4. PhaseOf(v)'
  <2>1. pc[v] \in Round /\ pc'[v] \in Round
    BY <1>2, <1>3 DEF Round
  <2> QED BY <1>1, <1>2, <2>1, RoundPhase
<1>5. ASSUME NEW t \in Tasks PROVE TaskInv(t)'
  <2>1. Undisturbed(t)
    BY <1>1, <1>2, QuietTasks
  <2>2. TaskInv(t)
    BY DEF RInv
  <2> QED BY <2>1, <2>2, UndisturbedKeeps
<1> PICK x : x = cur[v]
  OBVIOUS
<1>6. x \in Tasks /\ Takes(v, x)
  BY <1>1, <1>2 DEF CurOf, Takes
<1>7. x \in Untaken /\ Untaken' = Untaken \ {x}
  <2>1. TaskInv(x)
    BY <1>6 DEF RInv
  <2>2. status[x] = "waiting" /\ \A w \in Workers \ {v} : ~ (pc[w] = "execute" /\ cur[w] = x)
    BY <1>6, <2>1 DEF TaskInv, OnePlace, Busy, Takes
  <2>3. x \in Untaken
    BY <1>2, <1>6, <2>2 DEF Untaken
  <2>4. ASSUME NEW t \in Tasks
        PROVE  (\A w \in Workers : ~ (pc'[w] = "execute" /\ cur'[w] = t))
                   <=> t # x /\ \A w \in Workers : ~ (pc[w] = "execute" /\ cur[w] = t)
    BY <1>2, <1>3
  <2> QED BY <1>2, <2>3, <2>4 DEF Untaken
<1>8. IsFiniteSet(Untaken) /\ Cardinality(Untaken) \in Nat /\ Cardinality(Untaken') = Cardinality(Untaken) - 1
  <2>1. IsFiniteSet(Untaken)
    <3>1. Untaken \subseteq Tasks
      BY DEF Untaken
    <3> QED BY <3>1, FS_Subset, SourcesAssumption
  <2> QED BY <1>7, <2>1, FS_RemoveElement, FS_CardinalityType
<1>9. enqueued = 1
  <2>1. pc[v] \in Round
    BY <1>2 DEF Round
  <2> QED BY <2>1, InRoundEnqueued
<1>10. taskstodo = Cardinality(Untaken) /\ taskstodo # 0
  <2>1. Cardinality(Untaken) # 0
    BY <1>7, <1>8, FS_EmptySet
  <2> QED BY <1>1, <1>9, <2>1 DEF RoundInv
<1>11. RoundInv'
  <2>1. pc'[Master] \in Setup \cup {"app"} <=> pc[Master] \in Setup \cup {"app"}
    <3>1. CASE v = Master
      BY <1>2, <1>3, <3>1 DEF Setup
    <3>2. CASE v # Master
      BY <1>3, <3>2, Sizes
    <3> QED BY <3>1, <3>2
  <2>2. \A w \in Workers : pc'[w] \notin Ending
    <3> SUFFICES ASSUME NEW w \in Workers PROVE pc'[w] \notin Ending
      OBVIOUS
    <3>1. CASE w = v
      BY <1>3, <3>1 DEF Ending
    <3>2. CASE w # v
      BY <1>1, <1>3, <1>10, <3>2 DEF RoundInv
    <3> QED BY <3>1, <3>2
  <2>3. taskstodo' = Cardinality(Untaken') /\ enqueued' = 1
    BY <1>2, <1>8, <1>9, <1>10
  <2>4. enqueued \in {0, 1} /\ (enqueued = 0 <=> pc[Master] \in Setup \cup {"app"})
    BY <1>1 DEF RoundInv
  <2> QED BY <1>2, <1>9, <2>1, <2>2, <2>3, <2>4 DEF RoundInv, Setup
<1>12. /\ status' \in [Tasks -> {"waiting", "running", "done"}] /\ IsInjective(sysq')
       /\ \A w \in Pushers : IsInjective(hand'[w])
       /\ \A w \in Workers \ {v} : pc'[w] = pc[w] /\ cur'[w] = cur[w] /\ bar'[w] = bar[w]
       /\ bar'[v] >= bar[v]
  BY <1>1, <1>2, <1>3 DEF RInv
<1> QED BY <1>1, <1>4, <1>5, <1>11, <1>12, MoveStep

LEMMA ExecuteR ==
    ASSUME RInv, IInv', NEW v \in Workers, Execute(v)
    PROVE  RInv'
<1>1. /\ TypeOK /\ RoundInv /\ v \in Pushers /\ PhaseOf(v) /\ CurOf(v) /\ bar[v] \in Nat
      /\ status \in [Tasks -> {"waiting", "running", "done"}]
  BY Sizes DEF RInv, IInv, TypeOK
<1> PICK x : x = cur[v]
  OBVIOUS
<1>2. /\ pc[v] = "execute" /\ pc' = [pc EXCEPT ![v] = "running"] /\ status' = [status EXCEPT ![x] = "running"]
      /\ UNCHANGED <<items, sysq, hand, cur, enqueued, received, taskstodo, bar>>
  BY DEF Execute, Goto
<1>3. pc'[v] = "running" /\ \A w \in Workers \ {v} : pc'[w] = pc[w]
  BY <1>1, <1>2, Sizes DEF TypeOK
<1>4. PhaseOf(v)'
  <2>1. pc[v] \in Round /\ pc'[v] \in Round
    BY <1>2, <1>3 DEF Round
  <2> QED BY <1>1, <1>2, <2>1, RoundPhase
<1>5. x \in Tasks /\ Takes(v, x) /\ TaskInv(x)
  BY <1>1, <1>2 DEF CurOf, Takes, RInv
<1>6. /\ status[x] = "waiting" /\ Ready(x) /\ (\A w \in Workers : ~ Runs(w, x))
      /\ \A w \in Workers \ {v} : ~ Takes(w, x)
      /\ ~ Sys(x) /\ (\A w \in Pushers : ~ Hand(w, x)) /\ \A b \in Workers, i \in Slots : ~ Slot(b, i, x)
  BY <1>5 DEF TaskInv, OnePlace, Busy
<1>7. status'[x] = "running" /\ \A t \in Tasks \ {x} : status'[t] = status[t]
  BY <1>1, <1>2, <1>5
<1>8. ASSUME NEW t \in Tasks
      PROVE  /\ (\A b \in Workers, i \in Slots : Slot(b, i, t)' <=> Slot(b, i, t))
             /\ (Sys(t)' <=> Sys(t)) /\ (\A w \in Pushers : Hand(w, t)' <=> Hand(w, t))
  BY <1>2 DEF Slot, Sys, Hand
<1>9. ASSUME NEW t \in Tasks, NEW w \in Workers
      PROVE  /\ Takes(w, t)' <=> Takes(w, t) /\ w # v
             /\ Runs(w, t)' <=> Runs(w, t) \/ (w = v /\ t = x)
  <2>1. CASE w = v
    BY <1>2, <1>3, <2>1 DEF Takes, Runs
  <2>2. CASE w # v
    BY <1>2, <1>3, <2>2 DEF Takes, Runs
  <2> QED BY <2>1, <2>2
<1>10. ASSUME NEW t \in Tasks, Ready(t) PROVE Ready(t)'
  <2>1. received \in Nat /\ \A p \in Tasks : status[p] = "done" => status'[p] = "done"
    BY <1>1, <1>6, <1>7 DEF TypeOK
  <2> QED BY <1>2, <1>10, <2>1, ReadyStays
<1>11. ASSUME NEW t \in Tasks PROVE TaskInv(t)'
  <2>1. TaskInv(t)
    BY DEF RInv
  <2>2. CASE t # x
    <3>1. Undisturbed(t)
      BY <1>7, <1>8, <1>9, <1>10, <2>2 DEF Undisturbed
    <3> QED BY <2>1, <3>1, UndisturbedKeeps
  <2>3. CASE t = x
    <3>1. /\ ~ Sys(t)' /\ (\A w \in Pushers : ~ Hand(w, t)') /\ (\A b \in Workers, i \in Slots : ~ Slot(b, i, t)')
          /\ \A w \in Workers : ~ Takes(w, t)' /\ (Runs(w, t)' <=> w = v)
          /\ Ready(t)' /\ status'[t] = "running"
      BY <1>6, <1>7, <1>8, <1>9, <1>10, <2>3
    <3>2. OnePlace(t)'
      BY <3>1 DEF OnePlace, Busy
    <3> QED BY <3>1, <3>2 DEF TaskInv
  <2> QED BY <2>2, <2>3
<1>12. RoundInv'
  <2>1. Untaken' = Untaken
    <3>1. ASSUME NEW t \in Tasks
          PROVE  (status'[t] = "waiting" /\ \A w \in Workers : ~ (pc'[w] = "execute" /\ cur'[w] = t))
                 <=> (status[t] = "waiting" /\ \A w \in Workers : ~ (pc[w] = "execute" /\ cur[w] = t))
      <4>1. CASE t = x
        BY <1>2, <1>7, <4>1
      <4>2. CASE t # x
        BY <1>2, <1>3, <1>7, <4>2
      <4> QED BY <4>1, <4>2
    <3> QED BY <3>1 DEF Untaken
  <2>2. pc'[Master] \in Setup \cup {"app"} <=> pc[Master] \in Setup \cup {"app"}
    <3>1. CASE v = Master
      BY <1>2, <1>3, <3>1 DEF Setup
    <3>2. CASE v # Master
      BY <1>3, <3>2, Sizes
    <3> QED BY <3>1, <3>2
  <2>3. \A w \in Workers : pc'[w] \in Ending => pc[w] \in Ending
    <3> SUFFICES ASSUME NEW w \in Workers, pc'[w] \in Ending PROVE pc[w] \in Ending
      OBVIOUS
    <3>1. CASE w = v
      BY <1>3, <3>1 DEF Ending
    <3>2. CASE w # v
      BY <1>3, <3>2
    <3> QED BY <3>1, <3>2
  <2>4. enqueued = 1
    <3>1. pc[v] \in Round
      BY <1>2 DEF Round
    <3> QED BY <3>1, InRoundEnqueued
  <2> QED BY <1>1, <1>2, <2>1, <2>2, <2>3, <2>4 DEF RoundInv, Setup
<1>13. /\ status' \in [Tasks -> {"waiting", "running", "done"}] /\ IsInjective(sysq')
       /\ \A w \in Pushers : IsInjective(hand'[w])
       /\ \A w \in Workers \ {v} : pc'[w] = pc[w] /\ cur'[w] = cur[w] /\ bar'[w] = bar[w]
       /\ bar'[v] >= bar[v]
  <2>1. status' \in [Tasks -> {"waiting", "running", "done"}]
    BY <1>1, <1>2
  <2>2. IsInjective(sysq') /\ \A w \in Pushers : IsInjective(hand'[w])
    BY <1>2 DEF RInv
  <2> QED BY <1>1, <1>2, <1>3, <2>1, <2>2
<1> QED BY <1>1, <1>4, <1>11, <1>12, <1>13, MoveStep

\* A new list of tasks in the hand of a thread: none of them was ready before.
LEMMA NewList ==
    ASSUME RInv, IInv', NEW v \in Pushers, NEW f, pc' = [pc EXCEPT ![v] = f],
           NEW list \in Seq(Tasks), IsInjective(list), StartPush(v, list),
           UNCHANGED <<items, sysq, cur, bar>>,
           status' \in [Tasks -> {"waiting", "running", "done"}], RoundInv',
           v \in Workers => PhaseOf(v)',
           pc[v] \notin {"done_task", "execute"}, f \notin {"done_task", "execute", "running"},
           \A t \in Tasks : Ready(t) => Ready(t)',
           \A t \in ToSet(list) : ~ Ready(t) /\ Ready(t)',
           \A t \in Tasks : IF v \in Workers /\ Runs(v, t) THEN status'[t] = "done" ELSE status'[t] = status[t]
    PROVE  RInv'
<1>1. TypeOK
  BY DEF RInv, IInv
<1>2. /\ hand'[v] = list /\ \A w \in Pushers \ {v} : hand'[w] = hand[w]
      /\ pc'[v] = f /\ \A w \in Pushers \ {v} : pc'[w] = pc[w]
  BY <1>1, StartedPush DEF TypeOK
<1>3. ASSUME NEW t \in Tasks
      PROVE  /\ (\A b \in Workers, i \in Slots : Slot(b, i, t)' <=> Slot(b, i, t))
             /\ (Sys(t)' <=> Sys(t)) /\ (\A w \in Pushers \ {v} : Hand(w, t)' <=> Hand(w, t))
             /\ Hand(v, t)' <=> t \in ToSet(list)
  <2>1. Hand(v, t)' <=> t \in ToSet(list)
    BY <1>2 DEF Hand, ToSet
  <2> QED BY <1>2, <2>1 DEF Slot, Sys, Hand
<1>4. ASSUME NEW t \in Tasks, NEW w \in Workers
      PROVE  /\ Takes(w, t)' <=> Takes(w, t)
             /\ Runs(w, t)' <=> Runs(w, t) /\ w # v
  <2>1. CASE w = v
    BY <1>2, <2>1 DEF Takes, Runs
  <2>2. CASE w # v
    <3>1. pc'[w] = pc[w]
      BY <1>2, <2>2, Sizes
    <3> QED BY <2>2, <3>1 DEF Takes, Runs
  <2> QED BY <2>1, <2>2
<1>5. ASSUME NEW t \in Tasks PROVE TaskInv(t)'
  <2>1. TaskInv(t)
    BY DEF RInv
  <2>2. CASE t \in ToSet(list)
    <3>1. ~ Ready(t) /\ Ready(t)' /\ \A w \in Workers : ~ Runs(w, t)
      BY <2>1, <2>2 DEF TaskInv
    <3>2. status'[t] = status[t]
      BY <3>1
    <3> QED BY <1>3, <1>4, <2>1, <3>1, <3>2, NewTask
  <2>3. CASE t \notin ToSet(list) /\ ~ (v \in Workers /\ Runs(v, t))
    <3>1. status'[t] = status[t] /\ \A w \in Workers : Runs(w, t)' <=> Runs(w, t)
      BY <1>4, <2>3
    <3>2. \A w \in Pushers : Hand(w, t)' => Hand(w, t)
      BY <1>3, <2>3
    <3>3. Undisturbed(t)
      BY <1>3, <1>4, <3>1, <3>2 DEF Undisturbed
    <3> QED BY <2>1, <3>3, UndisturbedKeeps
  <2>4. CASE t \notin ToSet(list) /\ v \in Workers /\ Runs(v, t)
    <3>1. /\ ~ Sys(t) /\ (\A w \in Pushers : ~ Hand(w, t)) /\ (\A b \in Workers, i \in Slots : ~ Slot(b, i, t))
          /\ \A w \in Workers : ~ Takes(w, t) /\ (Runs(w, t) => w = v)
          /\ Ready(t)
      BY <2>1, <2>4 DEF TaskInv, OnePlace, Busy
    <3>2. /\ ~ Sys(t)' /\ (\A b \in Workers, i \in Slots : ~ Slot(b, i, t)')
          /\ (\A w \in Workers : ~ Takes(w, t)' /\ ~ Runs(w, t)')
          /\ Ready(t)' /\ status'[t] = "done"
      BY <1>3, <1>4, <2>4, <3>1
    <3>3. \A w \in Pushers : ~ Hand(w, t)'
      BY <1>3, <2>4, <3>1
    <3>4. OnePlace(t)'
      BY <3>2, <3>3 DEF OnePlace, Busy
    <3> QED BY <3>2, <3>3, <3>4 DEF TaskInv
  <2> QED BY <2>2, <2>3, <2>4
<1>6. /\ IsInjective(sysq') /\ \A w \in Pushers : IsInjective(hand'[w])
      /\ \A w \in Workers \ {v} : pc'[w] = pc[w] /\ cur'[w] = cur[w] /\ bar'[w] = bar[w]
      /\ v \in Workers => bar'[v] >= bar[v]
  <2>1. IsInjective(sysq') /\ \A w \in Pushers : IsInjective(hand'[w])
    BY <1>2 DEF RInv
  <2>2. \A w \in Workers \ {v} : pc'[w] = pc[w] /\ cur'[w] = cur[w] /\ bar'[w] = bar[w]
    BY <1>2, Sizes
  <2>3. v \in Workers => bar'[v] >= bar[v]
    BY <1>1 DEF TypeOK
  <2> QED BY <2>1, <2>2, <2>3
<1> QED BY <1>5, <1>6, MoveStep

LEMMA ReleaseDepsR ==
    ASSUME RInv, IInv', NEW v \in Workers, ReleaseDeps(v)
    PROVE  RInv'
<1>1. /\ TypeOK /\ RoundInv /\ v \in Pushers /\ PhaseOf(v) /\ CurOf(v) /\ bar[v] \in Nat
      /\ status \in [Tasks -> {"waiting", "running", "done"}]
  BY Sizes DEF RInv, IInv, TypeOK
<1> PICK x : x = cur[v]
  OBVIOUS
<1> PICK list : list = Spawns[x]
  OBVIOUS
<1> PICK f : f = IF list = <<>> THEN "loop" ELSE "push"
  OBVIOUS
<1>2. /\ pc[v] = "running" /\ pc' = [pc EXCEPT ![v] = f] /\ status' = [status EXCEPT ![x] = "done"]
      /\ StartPush(v, list)
      /\ UNCHANGED <<items, sysq, cur, enqueued, received, taskstodo, bar>>
  BY DEF ReleaseDeps, Goto
<1>3. pc'[v] = f /\ (\A w \in Workers \ {v} : pc'[w] = pc[w]) /\ f \in {"loop", "push"}
  BY <1>1, <1>2, Sizes DEF TypeOK
<1>4. x \in Tasks /\ Runs(v, x) /\ TaskInv(x)
  BY <1>1, <1>2 DEF CurOf, Runs, RInv
<1>5. status[x] = "running" /\ Ready(x) /\ status'[x] = "done" /\ \A t \in Tasks \ {x} : status'[t] = status[t]
  BY <1>1, <1>2, <1>4 DEF TaskInv
<1>6. list \in Seq(Tasks) /\ IsInjective(list)
  <2>1. Spawns \in [Tasks -> Seq(Tasks)]
    BY HBBufferAssumption
  <2>2. IsInjective(Spawns[x])
    BY <1>4, SourcesAssumption
  <2> QED BY <1>4, <2>1, <2>2
<1>7. PhaseOf(v)'
  <2>1. bar[v] = 3 /\ (\A u \in Workers : bar[u] >= 3) /\ cur[v] # Null
    BY <1>1, <1>2, <1>4, Sizes DEF PhaseOf, Round
  <2>2. CASE f = "loop"
    BY <1>2, <1>3, <2>1, <2>2 DEF PhaseOf, Round, Ending, Pushing
  <2>3. CASE f = "push"
    BY <1>2, <1>3, <2>1, <2>3 DEF PhaseOf, Round, Ending, Pushing
  <2> QED BY <1>3, <2>2, <2>3
<1>8. ASSUME NEW t \in Tasks, Ready(t) PROVE Ready(t)'
  <2>1. received \in Nat /\ \A p \in Tasks : status[p] = "done" => status'[p] = "done"
    BY <1>1, <1>5 DEF TypeOK
  <2> QED BY <1>2, <1>8, <2>1, ReadyStays
<1>9. ASSUME NEW t \in ToSet(list) PROVE ~ Ready(t) /\ Ready(t)'
  <2>1. t \in Tasks
    BY <1>6 DEF ToSet
  <2>2. ~ Ready(t)
    BY <1>4, <1>5, <2>1, ReadyHasPreds
  <2>3. Ready(t)'
    BY <1>4, <1>5 DEF Ready
  <2> QED BY <2>2, <2>3
<1>10. \A t \in Tasks : IF v \in Workers /\ Runs(v, t) THEN status'[t] = "done" ELSE status'[t] = status[t]
  <2> SUFFICES ASSUME NEW t \in Tasks PROVE IF Runs(v, t) THEN status'[t] = "done" ELSE status'[t] = status[t]
    OBVIOUS
  <2>1. Runs(v, t) <=> t = x
    BY <1>2 DEF Runs
  <2> QED BY <1>5, <2>1
<1>11. RoundInv'
  <2>1. Untaken' = Untaken
    <3>1. ASSUME NEW t \in Tasks
          PROVE  (status'[t] = "waiting" /\ \A w \in Workers : ~ (pc'[w] = "execute" /\ cur'[w] = t))
                 <=> (status[t] = "waiting" /\ \A w \in Workers : ~ (pc[w] = "execute" /\ cur[w] = t))
      <4>1. CASE t = x
        BY <1>5, <4>1
      <4>2. CASE t # x
        BY <1>2, <1>3, <1>5, <4>2
      <4> QED BY <4>1, <4>2
    <3> QED BY <3>1 DEF Untaken
  <2>2. pc'[Master] \in Setup \cup {"app"} <=> pc[Master] \in Setup \cup {"app"}
    <3>1. CASE v = Master
      BY <1>2, <1>3, <3>1 DEF Setup
    <3>2. CASE v # Master
      BY <1>3, <3>2, Sizes
    <3> QED BY <3>1, <3>2
  <2>3. \A w \in Workers : pc'[w] \in Ending => pc[w] \in Ending
    <3> SUFFICES ASSUME NEW w \in Workers, pc'[w] \in Ending PROVE pc[w] \in Ending
      OBVIOUS
    <3>1. CASE w = v
      BY <1>3, <3>1 DEF Ending
    <3>2. CASE w # v
      BY <1>3, <3>2
    <3> QED BY <3>1, <3>2
  <2>4. enqueued = 1
    <3>1. pc[v] \in Round
      BY <1>2 DEF Round
    <3> QED BY <3>1, InRoundEnqueued
  <2> QED BY <1>1, <1>2, <2>1, <2>2, <2>3, <2>4 DEF RoundInv, Setup
<1>12. /\ status' \in [Tasks -> {"waiting", "running", "done"}]
       /\ pc[v] \notin {"done_task", "execute"} /\ f \notin {"done_task", "execute", "running"}
  BY <1>1, <1>2, <1>3
<1> QED BY <1>1, <1>2, <1>6, <1>7, <1>8, <1>9, <1>10, <1>11, <1>12, NewList

\* No task runs before the object is enqueued.
LEMMA EnqueueR ==
    ASSUME RInv, IInv', Enqueue
    PROVE  RInv'
<1> PICK v : v = Master
  OBVIOUS
<1>1. /\ TypeOK /\ RoundInv /\ v \in Pushers /\ v \in Workers /\ PhaseOf(v)
      /\ status \in [Tasks -> {"waiting", "running", "done"}]
  BY Sizes DEF RInv, IInv
<1> PICK f : f = IF Startup = <<>> THEN "begin" ELSE "push"
  OBVIOUS
<1>2. /\ pc[v] = "app" /\ pc' = [pc EXCEPT ![v] = f] /\ taskstodo' = taskstodo + LocalTasks
      /\ enqueued' = 1 /\ StartPush(v, Startup)
      /\ UNCHANGED <<items, sysq, cur, received, status, bar>>
  BY DEF Enqueue, Goto
<1>3. pc'[v] = f /\ (\A w \in Workers \ {v} : pc'[w] = pc[w]) /\ f \in {"begin", "push"}
  BY <1>1, <1>2, Sizes DEF TypeOK
<1>4. enqueued = 0 /\ taskstodo = 0 /\ \A t \in Tasks : status[t] = "waiting"
  BY <1>1, <1>2 DEF RoundInv
<1>5. \A w \in Workers : pc[w] \notin Round \cup Ending /\ cur[w] = Null
  BY <1>4, InRoundEnqueued
<1>6. PhaseOf(v)'
  <2>1. bar[v] = 2 /\ cur[v] = Null
    BY <1>1, <1>2, <1>5 DEF PhaseOf
  <2>2. CASE f = "begin"
    BY <1>2, <1>3, <2>1, <2>2 DEF PhaseOf, Round, Ending, Pushing
  <2>3. CASE f = "push"
    BY <1>2, <1>3, <2>1, <2>3 DEF PhaseOf, Round, Ending, Pushing
  <2> QED BY <1>3, <2>2, <2>3
<1>7. Startup \in Seq(Tasks) /\ IsInjective(Startup)
  BY HBBufferAssumption, SourcesAssumption
<1>8. ASSUME NEW t \in Tasks, Ready(t) PROVE Ready(t)'
  <2>1. received \in Nat
    BY <1>1 DEF TypeOK
  <2> QED BY <1>2, <1>8, <2>1, ReadyStays
<1>9. ASSUME NEW t \in ToSet(Startup) PROVE ~ Ready(t) /\ Ready(t)'
  <2>1. /\ \A p \in Tasks : t \notin ToSet(Spawns[p])
        /\ \A i \in DOMAIN Received : t \notin ToSet(Received[i])
    BY SourcesAssumption
  <2>2. ~ Ready(t)
    BY <1>4, <2>1 DEF Ready
  <2>3. Ready(t)'
    BY <1>2 DEF Ready
  <2> QED BY <2>2, <2>3
<1>10. \A t \in Tasks : IF v \in Workers /\ Runs(v, t) THEN status'[t] = "done" ELSE status'[t] = status[t]
  BY <1>2 DEF Runs
<1>11. RoundInv'
  <2>1. \A w \in Workers : pc'[w] # "execute" /\ pc'[w] \notin Ending
    <3> SUFFICES ASSUME NEW w \in Workers PROVE pc'[w] # "execute" /\ pc'[w] \notin Ending
      OBVIOUS
    <3>1. CASE w = v
      BY <1>3, <3>1 DEF Ending
    <3>2. CASE w # v
      BY <1>3, <1>5, <3>2 DEF Round
    <3> QED BY <3>1, <3>2
  <2>2. Untaken' = Tasks
    BY <1>2, <1>4, <2>1 DEF Untaken
  <2>3. taskstodo' = Cardinality(Untaken')
    <3>1. Cardinality(Tasks) \in Nat
      BY FS_CardinalityType, SourcesAssumption
    <3> QED BY <1>2, <1>4, <2>2, <3>1 DEF LocalTasks
  <2>4. pc'[Master] \notin Setup \cup {"app"}
    BY <1>3 DEF Setup
  <2> QED BY <1>2, <2>1, <2>3, <2>4 DEF RoundInv, Setup
<1>12. /\ status' \in [Tasks -> {"waiting", "running", "done"}]
       /\ pc[v] \notin {"done_task", "execute"} /\ f \notin {"done_task", "execute", "running"}
  BY <1>1, <1>2, <1>3
<1> QED BY <1>1, <1>2, <1>6, <1>7, <1>8, <1>9, <1>10, <1>11, <1>12, NewList

LEMMA ReceiveR ==
    ASSUME RInv, IInv', Receive
    PROVE  RInv'
<1> PICK v : v = Comm
  OBVIOUS
<1> PICK list : list = Received[received + 1]
  OBVIOUS
<1>1. /\ TypeOK /\ RoundInv /\ v \in Pushers /\ v \notin Workers /\ v # Master
      /\ status \in [Tasks -> {"waiting", "running", "done"}]
  BY Sizes DEF RInv, IInv
<1>2. /\ pc[v] = "idle" /\ pc' = [pc EXCEPT ![v] = "push"] /\ received' = received + 1
      /\ received < Len(Received) /\ StartPush(v, list)
      /\ UNCHANGED <<items, sysq, cur, status, enqueued, taskstodo, bar>>
  BY DEF Receive, Goto, userVars
<1>3. received \in Nat /\ received + 1 \in DOMAIN Received /\ list \in Seq(Tasks) /\ IsInjective(list)
  <2>1. received \in Nat /\ Received \in Seq(Seq(Tasks) \ {<<>>})
    BY <1>1, HBBufferAssumption DEF TypeOK
  <2>2. received + 1 \in DOMAIN Received
    BY <1>2, <2>1
  <2>3. Received[received + 1] \in Seq(Tasks)
    BY <2>1, <2>2
  <2>4. IsInjective(Received[received + 1])
    BY <2>2, SourcesAssumption
  <2> QED BY <2>1, <2>2, <2>3, <2>4
<1>4. ASSUME NEW t \in Tasks, Ready(t) PROVE Ready(t)'
  BY <1>2, <1>3, <1>4, ReadyStays
<1>5. ASSUME NEW t \in ToSet(list) PROVE ~ Ready(t) /\ Ready(t)'
  <2>1. /\ t \notin ToSet(Startup)
        /\ \A p \in Tasks : t \notin ToSet(Spawns[p])
        /\ \A i \in DOMAIN Received \ {received + 1} : t \notin ToSet(Received[i])
    BY <1>3, SourcesAssumption
  <2>2. ~ (received + 1 <= received)
    BY <1>3
  <2>3. ~ Ready(t)
    BY <2>1, <2>2 DEF Ready
  <2>4. Ready(t)'
    <3>1. received + 1 <= received'
      BY <1>2, <1>3
    <3> QED BY <1>3, <3>1 DEF Ready
  <2> QED BY <2>3, <2>4
<1>6. RoundInv'
  BY <1>1, <1>2, RoundStays
<1>7. \A t \in Tasks : IF v \in Workers /\ Runs(v, t) THEN status'[t] = "done" ELSE status'[t] = status[t]
  BY <1>1, <1>2
<1>8. /\ status' \in [Tasks -> {"waiting", "running", "done"}]
      /\ pc[v] \notin {"done_task", "execute"} /\ "push" \notin {"done_task", "execute", "running"}
  BY <1>1, <1>2
<1> QED BY <1>1, <1>2, <1>3, <1>4, <1>5, <1>6, <1>7, <1>8, NewList

-----------------------------------------------------------------------------
(* The refinement: every state, then every step.                           *)

LEMMA InitRInv == Init => RInv
<1> SUFFICES ASSUME Init PROVE RInv
  OBVIOUS
<1>1. IInv
  BY InitIInv
<1>2. /\ sysq = <<>> /\ received = 0 /\ taskstodo = 0 /\ enqueued = 0
      /\ \A w \in Pushers : hand[w] = <<>>
      /\ \A w \in Workers : pc[w] = "init" /\ cur[w] = Null /\ bar[w] = 0
      /\ \A t \in Tasks : status[t] = "waiting"
      /\ status \in [Tasks -> {"waiting", "running", "done"}]
  BY Sizes DEF Init
<1>3. IsInjective(<<>>)
  BY DEF IsInjective
<1>4. \A w \in Workers : PhaseOf(w)
  BY <1>2 DEF PhaseOf, Round, Ending, Pushing
<1>5. RoundInv
  BY <1>2, Sizes DEF RoundInv, Setup, Ending
<1>6. ASSUME NEW t \in Tasks PROVE TaskInv(t)
  <2>1. /\ \A b \in Workers, i \in Slots : ~ Slot(b, i, t)
        /\ ~ Sys(t)
        /\ \A w \in Pushers : ~ Hand(w, t)
        /\ \A w \in Workers : ~ Takes(w, t) /\ ~ Runs(w, t)
    <3>1. \A b \in Workers, i \in Slots : ~ Slot(b, i, t)
      <4>1. \A b \in Workers, i \in Slots : items[b][i] = Null
        BY DEF Init
      <4> QED BY <4>1, Sizes DEF Slot
    <3>2. ~ Sys(t) /\ \A w \in Pushers : ~ Hand(w, t)
      BY <1>2 DEF Sys, Hand
    <3>3. \A w \in Workers : ~ Takes(w, t) /\ ~ Runs(w, t)
      BY <1>2 DEF Takes, Runs
    <3> QED BY <3>1, <3>2, <3>3
  <2>2. OnePlace(t)
    BY <2>1 DEF OnePlace, Busy
  <2> QED BY <1>2, <2>1, <2>2 DEF TaskInv
<1> QED BY <1>1, <1>2, <1>3, <1>4, <1>5, <1>6 DEF RInv

LEMMA StutterR ==
    ASSUME RInv, UNCHANGED vars
    PROVE  RInv'
<1>1. /\ UNCHANGED <<items, sysq, bar, pc, hand, cur, received, taskstodo, enqueued, status>>
      /\ IInv
  BY DEF vars, userVars, RInv
<1>2. IInv'
  BY <1>1, NextIInv
<1>3. ASSUME NEW t \in Tasks PROVE TaskInv(t)'
  <2>1. TaskInv(t)
    BY DEF RInv
  <2>2. Undisturbed(t)
    BY <1>1 DEF Undisturbed, Slot, Sys, Hand, Takes, Runs, Ready
  <2> QED BY <2>1, <2>2, UndisturbedKeeps
<1>4. \A w \in Workers : PhaseOf(w)'
  BY <1>1 DEF RInv, PhaseOf
<1>5. RoundInv'
  BY <1>1 DEF RInv, RoundInv, Untaken
<1> QED BY <1>1, <1>2, <1>3, <1>4, <1>5 DEF RInv

LEMMA NextRInv == RInv /\ [Next]_vars => RInv'
<1> SUFFICES ASSUME RInv, [Next]_vars PROVE RInv'
  OBVIOUS
<1>1. IInv'
  BY NextIInv DEF RInv
<1>2. ASSUME NEW w \in Workers, Step(w) PROVE RInv'
  BY <1>1, <1>2, SetupSteps, BarrierSteps, LookSteps, TakeR, SystemPopR, DoneTaskR, ExecuteR, ReleaseDepsR DEF Step
<1>3. ASSUME NEW w \in Pushers, PushStep(w) \/ SpinLock(w) PROVE RInv'
  BY <1>1, <1>3, PushR, OverflowR, SpinLockR DEF PushStep
<1>4. CASE Enqueue \/ Receive
  BY <1>1, <1>4, EnqueueR, ReceiveR
<1>5. CASE UNCHANGED vars
  BY <1>5, StutterR
<1> QED BY <1>2, <1>3, <1>4, <1>5 DEF Next, Ended

LEMMA RInvariance == Spec => []RInv
<1>1. Init => RInv
  BY InitRInv
<1>2. RInv /\ [Next]_vars => RInv'
  BY NextRInv
<1> QED BY <1>1, <1>2, PTL DEF Spec

\* A thread that leaves the last barrier has met all the others there: no task
\* is untaken and none is in anybody's hands.
LEMMA AllDone ==
    ASSUME RInv, NEW v \in Workers, pc[v] = "end_wait", Released(v)
    PROVE  \A t \in Tasks : status[t] = "done"
<1>1. TypeOK /\ RoundInv /\ status \in [Tasks -> {"waiting", "running", "done"}]
  BY DEF RInv, IInv
<1>2. \A w \in Workers : bar[w] \in Nat /\ bar[w] >= 4
  <2>1. bar[v] = 4
    BY DEF RInv, PhaseOf
  <2> QED BY <1>1, <2>1 DEF Released, TypeOK
<1>3. ASSUME NEW w \in Workers PROVE pc[w] \notin {"execute", "running"}
  <2>1. PhaseOf(w)
    BY DEF RInv
  <2>2. pc[w] \in {"execute", "running"} => bar[w] = 3
    BY <2>1 DEF PhaseOf, Round
  <2> QED BY <1>2, <2>2
<1>4. enqueued = 1 /\ taskstodo = 0
  BY <1>1, InRoundEnqueued DEF Ending, RoundInv
<1>5. Untaken = {}
  <2>1. IsFiniteSet(Untaken)
    BY SourcesAssumption, FS_Subset DEF Untaken
  <2>2. Cardinality(Untaken) = 0
    BY <1>1, <1>4 DEF RoundInv
  <2> QED BY <2>1, <2>2, FS_EmptySet
<1>6. ASSUME NEW t \in Tasks PROVE status[t] = "done"
  <2>1. status[t] # "waiting"
    BY <1>3, <1>5 DEF Untaken
  <2>2. status[t] # "running"
    BY <1>3 DEF RInv, TaskInv, Runs
  <2> QED BY <1>1, <2>1, <2>2
<1> QED BY <1>6

LEMMA StepImplements ==
    ASSUME RInv, [Next]_vars
    PROVE  [TG!Next]_(TG!vars)
<1> USE DEF userVars, popVars
<1>1. CASE Enqueue
  <2>1. enqueued = 0
    BY <1>1 DEF Enqueue, RInv, RoundInv
  <2>2. TG!Enqueue
    BY <1>1, <2>1 DEF Enqueue, TG!Enqueue
  <2> QED BY <2>2 DEF TG!Next
<1>2. ASSUME NEW w \in Workers, Execute(w) PROVE \E t \in Tasks : TG!Start(t)
  <2>1. /\ pc[w] = "execute" /\ status' = [status EXCEPT ![cur[w]] = "running"]
        /\ UNCHANGED <<enqueued, waited>>
    BY <1>2 DEF Execute
  <2>2. cur[w] \in Tasks /\ Takes(w, cur[w])
    BY <2>1 DEF RInv, IInv, CurOf, Takes
  <2>3. status[cur[w]] = "waiting" /\ Ready(cur[w])
    BY <2>2 DEF RInv, TaskInv
  <2>4. \A p \in Tasks : cur[w] \in ToSet(Spawns[p]) => status[p] = "done"
    BY <2>2, <2>3, ReadyHasPreds
  <2>5. enqueued = 1
    BY <2>1, InRoundEnqueued DEF Round
  <2>6. TG!Start(cur[w])
    BY <2>1, <2>2, <2>3, <2>4, <2>5 DEF TG!Start, TG!EnqueuedTasks
  <2> QED BY <2>2, <2>6
<1>3. ASSUME NEW w \in Workers, ReleaseDeps(w) PROVE \E t \in Tasks : TG!Finish(t)
  <2>1. /\ pc[w] = "running" /\ status' = [status EXCEPT ![cur[w]] = "done"]
        /\ UNCHANGED <<enqueued, waited>>
    BY <1>3 DEF ReleaseDeps
  <2>2. cur[w] \in Tasks /\ Runs(w, cur[w])
    BY <2>1 DEF RInv, IInv, CurOf, Runs
  <2>3. status[cur[w]] = "running"
    BY <2>2 DEF RInv, TaskInv
  <2>4. TG!Finish(cur[w])
    BY <2>1, <2>3 DEF TG!Finish
  <2> QED BY <2>2, <2>4
<1>4. ASSUME NEW w \in Workers, Leave(w) PROVE [TG!Next]_(TG!vars)
  <2>1. CASE pc[w] = "end_wait" /\ w = Master
    <3>1. waited' = enqueued /\ UNCHANGED <<enqueued, status>> /\ Released(w)
      BY <1>4, <2>1 DEF Leave
    <3>2. \A t \in TG!EnqueuedTasks : status[t] = "done"
      BY <2>1, <3>1, AllDone DEF TG!EnqueuedTasks
    <3>3. TG!WaitReturns
      BY <3>1, <3>2 DEF TG!WaitReturns
    <3> QED BY <3>3 DEF TG!Next
  <2>2. CASE ~ (pc[w] = "end_wait" /\ w = Master)
    <3>1. UNCHANGED TG!vars
      BY <1>4, <2>2 DEF Leave, TG!vars
    <3> QED BY <3>1
  <2> QED BY <2>1, <2>2
<1>5. ASSUME NEW w \in Workers, FirstBarrier(w) \/ MakeBuffer(w) \/ OrderQueues(w) \/ Arrive(w)
      PROVE  UNCHANGED TG!vars
  BY <1>5 DEF FirstBarrier, MakeBuffer, OrderQueues, Arrive, TG!vars
<1>6. ASSUME NEW w \in Workers,
             Loop(w) \/ Scan(w) \/ Take(w) \/ Miss(w) \/ TryLock(w) \/ SystemPop(w) \/ DoneTask(w)
      PROVE  UNCHANGED TG!vars
  BY <1>6 DEF Loop, Scan, Take, Miss, TryLock, SystemPop, DoneTask, TG!vars
<1>7. ASSUME NEW w \in Pushers, PushStep(w) \/ SpinLock(w) PROVE UNCHANGED TG!vars
  BY <1>7 DEF PushStep, Push, Overflow, SpinLock, TG!vars
<1>8. CASE Receive
  <2>1. UNCHANGED TG!vars
    BY <1>8 DEF Receive, TG!vars
  <2> QED BY <2>1
<1>9. CASE UNCHANGED vars
  <2>1. UNCHANGED TG!vars
    BY <1>9 DEF vars, TG!vars
  <2> QED BY <2>1
<1>10. ASSUME NEW w \in Workers, Step(w) PROVE [TG!Next]_(TG!vars)
  <2>1. CASE Execute(w)
    BY <1>2, <2>1 DEF TG!Next
  <2>2. CASE ReleaseDeps(w)
    BY <1>3, <2>2 DEF TG!Next
  <2>3. CASE Leave(w)
    BY <1>4, <2>3
  <2> QED BY <1>5, <1>6, <1>10, <2>1, <2>2, <2>3 DEF Step
<1> QED BY <1>1, <1>7, <1>8, <1>9, <1>10 DEF Next, Ended

\* The hwloc engine keeps the promise of TaskGraph: every task runs once, after
\* the task that made it ready, and dague_wait returns after all of them, for
\* any number of threads and slots and any topology, whichever way the tasks
\* take through the buffers, the chains of the pushers and the overflow queue.
THEOREM HBBufferImplements == Spec => ImplementsTaskGraph
<1>1. Init => TG!Init
  BY DEF Init, TG!Init
<1>2. RInv /\ [Next]_vars => [TG!Next]_(TG!vars)
  BY StepImplements
<1> QED BY <1>1, <1>2, RInvariance, PTL DEF Spec, TG!Spec, ImplementsTaskGraph
=============================================================================
