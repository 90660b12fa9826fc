--------------------------- MODULE ReadyListProof ---------------------------
(***************************************************************************)
(* Lemmas about AddByPriority, for lists of any length and any priorities: *)
(* an insertion puts one more element into the list and moves no other.    *)
(***************************************************************************)
EXTENDS ReadyList, Integers, FiniteSetTheorems, SequenceTheorems, TLAPS

\* The set whose cardinality Passed is.
Prefix(list, elem, pri) == {i \in DOMAIN list : \A k \in 1..i : pri[list[k]] > pri[elem]}

LEMMA PassedIsBounded ==
    ASSUME NEW S, NEW list \in Seq(S), NEW elem, NEW pri
    PROVE  /\ Passed(list, elem, pri) \in 0..Len(list)
           /\ Passed(list, elem, pri) = 0 <=> Prefix(list, elem, pri) = {}
<1>1. DOMAIN list = 1..Len(list) /\ Len(list) \in Nat  BY LenProperties
<1>2. IsFiniteSet(1..Len(list)) /\ Cardinality(1..Len(list)) = Len(list)
  BY <1>1, FS_Interval
<1>3. Prefix(list, elem, pri) \in SUBSET (1..Len(list))  BY <1>1 DEF Prefix
<1>4. /\ IsFiniteSet(Prefix(list, elem, pri))
      /\ Cardinality(Prefix(list, elem, pri)) <= Len(list)
  BY <1>2, <1>3, FS_Subset
<1>5. /\ Cardinality(Prefix(list, elem, pri)) \in Nat
      /\ Cardinality(Prefix(list, elem, pri)) = 0 <=> Prefix(list, elem, pri) = {}
  BY <1>4, FS_CardinalityType, FS_EmptySet
<1>6. Passed(list, elem, pri) = Cardinality(Prefix(list, elem, pri))
  BY DEF Passed, Prefix
<1> QED  BY <1>1, <1>4, <1>5, <1>6

\* r is list with elem inserted after its first n elements, position by position.
Inserted(S, list, n, elem, r) ==
    /\ r \in Seq(S)
    /\ Len(r) = Len(list) + 1
    /\ \A i \in 1..n : r[i] = list[i]
    /\ r[n + 1] = elem
    /\ \A i \in 1..Len(list) : i > n => r[i + 1] = list[i]

LEMMA InsertAfterProperties ==
    ASSUME NEW S, NEW list \in Seq(S), NEW elem \in S, NEW n \in 0..Len(list)
    PROVE  Inserted(S, list, n, elem, InsertAfter(list, n, elem))
<1> DEFINE s == SubSeq(list, 1, n)
           m == s \o <<elem>>
           t == SubSeq(list, n + 1, Len(list))
<1>1. Len(list) \in Nat /\ n \in Nat /\ n <= Len(list)  BY LenProperties
<1>2. s \in Seq(S) /\ Len(s) = n /\ \A i \in 1..n : s[i] = list[i]
  BY <1>1, ElementOfSeq, SubSeqProperties
<1>3. /\ t \in Seq(S) /\ Len(t) = Len(list) - n
      /\ \A i \in 1..(Len(list) - n) : t[i] = list[n + i]
  <2>1. \A i \in (n + 1)..Len(list) : list[i] \in S  BY <1>1, ElementOfSeq
  <2>2. /\ t \in Seq(S)
        /\ Len(t) = (IF n + 1 <= Len(list) THEN Len(list) - (n + 1) + 1 ELSE 0)
        /\ \A i \in 1..(Len(list) - (n + 1) + 1) : t[i] = list[(n + 1) + i - 1]
    BY <1>1, <2>1, SubSeqProperties
  <2> QED  BY <1>1, <2>2
<1>4. <<elem>> \in Seq(S) /\ Len(<<elem>>) = 1 /\ <<elem>>[1] = elem  OBVIOUS
<1>5. /\ m \in Seq(S) /\ Len(m) = n + 1
      /\ \A i \in 1..n : m[i] = list[i]
      /\ m[n + 1] = elem
  <2>1. /\ m \in Seq(S) /\ Len(m) = n + 1
        /\ \A i \in 1..(n + 1) : m[i] = IF i <= n THEN s[i] ELSE <<elem>>[i - n]
    BY <1>2, <1>4, ConcatProperties
  <2> HIDE DEF s, m
  <2>2. \A i \in 1..n : m[i] = list[i]  BY <1>1, <1>2, <2>1
  <2>3. m[n + 1] = <<elem>>[(n + 1) - n] /\ (n + 1) - n = 1  BY <1>1, <2>1
  <2> QED  BY <1>4, <2>1, <2>2, <2>3
<1> HIDE DEF s, m, t
<1>6. /\ m \o t \in Seq(S) /\ Len(m \o t) = Len(list) + 1
      /\ \A i \in 1..(Len(list) + 1) : (m \o t)[i] = IF i <= n + 1 THEN m[i] ELSE t[i - (n + 1)]
  <2>1. Len(m) + Len(t) = Len(list) + 1  BY <1>1, <1>3, <1>5
  <2> QED  BY <1>3, <1>5, <2>1, ConcatProperties
<1>7. InsertAfter(list, n, elem) = m \o t  BY DEF InsertAfter, s, m, t
<1>8. \A i \in 1..n : (m \o t)[i] = list[i]  BY <1>1, <1>5, <1>6
<1>9. (m \o t)[n + 1] = elem  BY <1>1, <1>5, <1>6
<1>10. \A i \in 1..Len(list) : i > n => (m \o t)[i + 1] = list[i]
  <2>1. SUFFICES ASSUME NEW i \in 1..Len(list), i > n PROVE (m \o t)[i + 1] = list[i]
    OBVIOUS
  <2>2. (m \o t)[i + 1] = t[(i + 1) - (n + 1)]  BY <1>1, <1>6, <2>1
  <2>3. (i + 1) - (n + 1) = i - n /\ i - n \in 1..(Len(list) - n) /\ n + (i - n) = i
    BY <1>1, <2>1
  <2> QED  BY <1>3, <2>2, <2>3
<1> QED  BY <1>6, <1>7, <1>8, <1>9, <1>10 DEF Inserted

\* An insertion is an InsertAfter: one more element, the others in their order.
\* It is at the head only when the head has a lower priority.
LEMMA AddByPriorityInserts ==
    ASSUME NEW S, NEW list \in Seq(S), NEW elem \in S, NEW pri \in [S -> Int]
    PROVE  \E n \in 0..Len(list) :
              /\ AddByPriority(list, elem, pri) = InsertAfter(list, n, elem)
              /\ n = 0 => list = <<>> \/ pri[list[1]] < pri[elem]
              /\ n > 0 => list # <<>> /\ ~(pri[list[1]] < pri[elem])
<1> DEFINE n == Passed(list, elem, pri)
           At(k) == /\ AddByPriority(list, elem, pri) = InsertAfter(list, k, elem)
                    /\ k = 0 => list = <<>> \/ pri[list[1]] < pri[elem]
                    /\ k > 0 => list # <<>> /\ ~(pri[list[1]] < pri[elem])
<1> SUFFICES \E k \in 0..Len(list) : At(k)  OBVIOUS
<1>1. Len(list) \in Nat /\ DOMAIN list = 1..Len(list)  BY LenProperties
<1>2. n \in 0..Len(list) /\ (n = 0 <=> Prefix(list, elem, pri) = {})
  BY PassedIsBounded
<1>3. CASE n > 0
  <2>1. list # <<>> /\ pri[list[1]] > pri[elem] /\ list[1] \in S
    BY <1>1, <1>2, <1>3, EmptySeq, ElementOfSeq DEF Prefix
  <2>2. AddByPriority(list, elem, pri) = InsertAfter(list, n, elem)
    BY <1>3 DEF AddByPriority
  <2> QED  BY <1>2, <1>3, <2>1, <2>2
<1>4. CASE n = 0 /\ list # <<>> /\ pri[list[1]] < pri[elem]
  <2>1. AddByPriority(list, elem, pri) = <<elem>> \o list
    BY <1>4 DEF AddByPriority
  <2>2. SubSeq(list, 1, 0) = <<>> /\ SubSeq(list, 0 + 1, Len(list)) = list
    BY SubSeqEmpty, SubSeqFull
  <2>3. InsertAfter(list, 0, elem) = <<elem>> \o list
    BY <2>2, ConcatEmptySeq DEF InsertAfter
  <2>4. At(0)  BY <1>4, <2>1, <2>3
  <2> HIDE DEF At
  <2> QED  BY <1>1, <2>4
<1>5. CASE n = 0 /\ ~(list # <<>> /\ pri[list[1]] < pri[elem])
  <2>1. AddByPriority(list, elem, pri) = Append(list, elem)
    BY <1>5 DEF AddByPriority
  <2>2. SubSeq(list, 1, Len(list)) = list  BY SubSeqFull
  <2>3. SubSeq(list, Len(list) + 1, Len(list)) = <<>>  BY <1>1, SubSeqEmpty
  <2>4. InsertAfter(list, Len(list), elem) = (list \o <<elem>>) \o <<>>
    BY <2>2, <2>3 DEF InsertAfter
  <2>5. list \o <<elem>> \in Seq(S) /\ list \o <<elem>> = Append(list, elem)
    OBVIOUS
  <2>6. InsertAfter(list, Len(list), elem) = Append(list, elem)
    BY <2>4, <2>5, ConcatEmptySeq
  <2>7. Len(list) = 0 <=> list = <<>>  BY EmptySeq
  <2>8. At(Len(list))  BY <1>1, <1>5, <2>1, <2>6, <2>7
  <2> HIDE DEF At
  <2> QED  BY <1>1, <2>8
<1> QED  BY <1>2, <1>3, <1>4, <1>5

LEMMA AddByPriorityType ==
    ASSUME NEW S, NEW list \in Seq(S), NEW elem \in S, NEW pri \in [S -> Int]
    PROVE  AddByPriority(list, elem, pri) \in Seq(S)
<1>1. PICK n \in 0..Len(list) : AddByPriority(list, elem, pri) = InsertAfter(list, n, elem)
  BY AddByPriorityInserts
<1>2. Inserted(S, list, n, elem, AddByPriority(list, elem, pri))
  BY <1>1, InsertAfterProperties
<1> QED  BY <1>2 DEF Inserted
=============================================================================
