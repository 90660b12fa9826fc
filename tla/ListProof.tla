------------------------------ MODULE ListProof ------------------------------
(***************************************************************************)
(* Proofs about the lists of the engine, for every set of items, of        *)
(* threads, of tasks and any priorities: what the walk along the links of  *)
(* a list meets, the LIFO as a stack whose operations are atomic while one *)
(* thread pops, the order of the lists of ready tasks, and the dequeue as  *)
(* a sequence whose operations are atomic.                                 *)
(***************************************************************************)
EXTENDS Lifo, Dequeue, ReadyRing, ReadyListProof, WellFoundedInduction

-----------------------------------------------------------------------------
(* Walking along the links of a list.                                      *)

\* Every set of numbers but the empty one has a least element.
LEMMA LeastElement ==
    ASSUME NEW S \in SUBSET Nat, S # {}
    PROVE  \E x \in S : \A y \in S : x <= y
<1>1. PICK x \in S : \A y \in S : ~ (<<y, x>> \in OpToRel(<, Nat))
  BY WFMin, NatLessThanWellFounded
<1>2. \A y \in S : x <= y
  <2> TAKE y \in S
  <2>1. <<y, x>> \in Nat \X Nat => ~ (y < x)
    BY <1>1 DEF OpToRel
  <2> QED BY <2>1
<1> QED BY <1>2

\* The items a walk along nx that ends at g lists from each node: f[n][i] is
\* what it lists from i in at most n steps, and e what f[n - 1] lists.
Layer(S, g, nx, n, e) == [i \in S |-> IF n = 0 \/ i = g THEN <<>> ELSE <<i>> \o e[nx[i]]]
WalksUpto(S, g, nx, m, f) == f = [n \in 0..m |-> Layer(S, g, nx, n, f[n - 1])]
Walks(S, g, nx, f) == f = [n \in Nat |-> Layer(S, g, nx, n, f[n - 1])]

LEMMA LayerZero == \A S, g, nx, d, e : Layer(S, g, nx, 0, d) = Layer(S, g, nx, 0, e)
  BY DEF Layer

LEMMA UptoExists ==
    ASSUME NEW S, NEW g, NEW nx, NEW m \in Nat
    PROVE  \E f : WalksUpto(S, g, nx, m, f)
<1> DEFINE Bad == {k \in Nat : ~ \E f : WalksUpto(S, g, nx, k, f)}
<1>1. SUFFICES ASSUME Bad # {} PROVE FALSE
  OBVIOUS
<1>2. PICK k \in Bad : \A y \in Bad : k <= y
  BY <1>1, LeastElement
<1>3. CASE k = 0
  <2>1. PICK f : f = [n \in 0..0 |-> Layer(S, g, nx, 0, <<>>)]
    OBVIOUS
  <2>2. f[0] = Layer(S, g, nx, 0, f[0 - 1])
    BY <2>1, LayerZero
  <2>3. WalksUpto(S, g, nx, 0, f)
    <3>1. \A n \in 0..0 : f[n] = Layer(S, g, nx, n, f[n - 1])
      BY <2>2
    <3>2. f = [n \in 0..0 |-> f[n]]
      BY <2>1
    <3> QED BY <3>1, <3>2 DEF WalksUpto
  <2> QED BY <1>3, <2>3
<1>4. CASE k # 0
  <2>1. k \in Nat /\ k - 1 \in Nat /\ ~ (k <= k - 1)
    BY <1>4
  <2>2. PICK e : WalksUpto(S, g, nx, k - 1, e)
    BY <1>2, <2>1
  <2>3. PICK f : f = [n \in 0..k |-> IF n = k THEN Layer(S, g, nx, n, e[n - 1]) ELSE e[n]]
    OBVIOUS
  <2>4. ASSUME NEW n \in 0..k
        PROVE  f[n] = Layer(S, g, nx, n, f[n - 1])
    <3>1. n # 0 => f[n - 1] = e[n - 1]
      <4> SUFFICES ASSUME n # 0 PROVE f[n - 1] = e[n - 1]
        OBVIOUS
      <4>1. n - 1 \in 0..k /\ n - 1 # k
        BY <2>1
      <4> QED BY <2>3, <4>1
    <3>2. Layer(S, g, nx, n, f[n - 1]) = Layer(S, g, nx, n, e[n - 1])
      BY <3>1, LayerZero
    <3>3. CASE n = k
      BY <2>3, <3>2, <3>3
    <3>4. CASE n # k
      <4>1. n \in 0..(k - 1)
        BY <2>1, <3>4
      <4>2. e[n] = Layer(S, g, nx, n, e[n - 1])
        BY <2>2, <4>1 DEF WalksUpto
      <4> QED BY <2>3, <3>2, <3>4, <4>2
    <3> QED BY <3>3, <3>4
  <2>5. f = [n \in 0..k |-> f[n]]
    BY <2>3
  <2>6. WalksUpto(S, g, nx, k, f)
    BY <2>4, <2>5 DEF WalksUpto
  <2> QED BY <2>6
<1> QED BY <1>3, <1>4

\* Walks of different bounds agree where both are defined.
LEMMA UptoAgree ==
    ASSUME NEW S, NEW g, NEW nx, NEW m \in Nat, NEW k \in 0..m,
           NEW e, WalksUpto(S, g, nx, k, e), NEW f, WalksUpto(S, g, nx, m, f)
    PROVE  \A n \in 0..k : e[n] = f[n]
<1> DEFINE Bad == {n \in 0..k : e[n] # f[n]}
<1>1. SUFFICES ASSUME Bad # {} PROVE FALSE
  OBVIOUS
<1>2. Bad \in SUBSET Nat
  OBVIOUS
<1>3. PICK n \in Bad : \A y \in Bad : n <= y
  BY <1>1, <1>2, LeastElement
<1>4. n \in 0..k /\ n \in 0..m /\ e[n] # f[n]
  BY <1>3
<1>5. e[n] = Layer(S, g, nx, n, e[n - 1])
  BY <1>4 DEF WalksUpto
<1>6. f[n] = Layer(S, g, nx, n, f[n - 1])
  BY <1>4 DEF WalksUpto
<1>7. n # 0 => e[n - 1] = f[n - 1]
  <2> SUFFICES ASSUME n # 0 PROVE e[n - 1] = f[n - 1]
    OBVIOUS
  <2>1. n - 1 \in 0..k /\ ~ (n <= n - 1)
    BY <1>4
  <2> QED BY <1>3, <2>1
<1>8. CASE n = 0
  BY <1>4, <1>5, <1>6, <1>8, LayerZero
<1>9. CASE n # 0
  BY <1>4, <1>5, <1>6, <1>7, <1>9
<1> QED BY <1>8, <1>9

LEMMA WalkExists ==
    ASSUME NEW S, NEW g, NEW nx
    PROVE  \E f : Walks(S, g, nx, f)
<1> DEFINE A(m) == CHOOSE f : WalksUpto(S, g, nx, m, f)
<1>1. \A m \in Nat : WalksUpto(S, g, nx, m, A(m))
  BY UptoExists
<1> HIDE DEF A
<1>2. PICK F : F = [n \in Nat |-> A(n)[n]]
  OBVIOUS
<1>3. ASSUME NEW n \in Nat
      PROVE  F[n] = Layer(S, g, nx, n, F[n - 1])
  <2>1. PICK f : f = A(n)
    OBVIOUS
  <2>2. WalksUpto(S, g, nx, n, f) /\ n \in 0..n
    BY <1>1, <2>1
  <2>3. f[n] = Layer(S, g, nx, n, f[n - 1])
    BY <2>2 DEF WalksUpto
  <2>4. n # 0 => f[n - 1] = F[n - 1]
    <3> SUFFICES ASSUME n # 0 PROVE f[n - 1] = F[n - 1]
      OBVIOUS
    <3>1. n - 1 \in Nat /\ n - 1 \in 0..n /\ n - 1 \in 0..(n - 1)
      OBVIOUS
    <3>2. PICK e : e = A(n - 1)
      OBVIOUS
    <3>3. WalksUpto(S, g, nx, n - 1, e)
      BY <1>1, <3>1, <3>2
    <3>4. e[n - 1] = f[n - 1]
      BY <2>2, <3>1, <3>3, UptoAgree
    <3> QED BY <1>2, <3>1, <3>2, <3>4
  <2>5. Layer(S, g, nx, n, f[n - 1]) = Layer(S, g, nx, n, F[n - 1])
    BY <2>4, LayerZero
  <2> QED BY <1>2, <2>1, <2>3, <2>5
<1>4. F = [n \in Nat |-> F[n]]
  BY <1>2
<1>5. Walks(S, g, nx, F)
  BY <1>3, <1>4 DEF Walks
<1> QED BY <1>5

\* The node at place i of the list s, which ends at g.
Node(g, s, i) == IF i <= Len(s) THEN s[i] ELSE g

\* s lists different items of I, each linked to the next one and the last to g.
Linked(I, g, nx, s) ==
    /\ s \in Seq(I)
    /\ \A i, j \in 1..Len(s) : s[i] = s[j] => i = j
    /\ \A i \in 1..Len(s) : nx[s[i]] = Node(g, s, i + 1)

\* A walk of enough steps from the head of a list lists it.
LEMMA WalkLists ==
    ASSUME NEW I, IsFiniteSet(I), NEW g, g \notin I, NEW nx,
           NEW w, Walks(I \cup {g}, g, nx, w), NEW s, Linked(I, g, nx, s)
    PROVE  w[Cardinality(I) + 1][Node(g, s, 1)] = s
<1> SUFFICES ASSUME s \in Seq(I), \A i, j \in 1..Len(s) : s[i] = s[j] => i = j,
                    \A i \in 1..Len(s) : nx[s[i]] = Node(g, s, i + 1)
             PROVE  w[Cardinality(I) + 1][Node(g, s, 1)] = s
  BY DEF Linked
<1>0. PICK L : L = Len(s)
  OBVIOUS
<1>1. L \in Nat /\ s \in [1..L -> I]
  BY <1>0
<1>2. L <= Cardinality(I) /\ Cardinality(I) \in Nat
  <2>0. 1 \in Int /\ L \in Int /\ L \in Nat
    BY <1>1
  <2>1. /\ IsFiniteSet(1..L)
        /\ Cardinality(1..L) = IF 1 > L THEN 0 ELSE L - 1 + 1
    BY <2>0, FS_Interval
  <2>3. Cardinality(1..L) = L
    BY <2>0, <2>1
  <2>2. s \in Injection(1..L, I)
    BY <1>0, <1>1 DEF Injection, IsInjective
  <2> QED BY <2>1, <2>2, <2>3, FS_Injection, FS_CardinalityType DEF ExistsInjection
<1> DEFINE Rest(k) == SubSeq(s, L - k + 1, L)
           Bad == {k \in 0..L : \E n \in Nat : n >= k /\ w[n][Node(g, s, L - k + 1)] # Rest(k)}
<1>3. Bad = {}
  <2> SUFFICES ASSUME Bad # {} PROVE FALSE
    OBVIOUS
  <2>1. Bad \in SUBSET Nat
    BY <1>1
  <2>2. PICK k \in Bad : \A y \in Bad : k <= y
    BY <2>1, LeastElement
  <2>3. PICK n \in Nat : n >= k /\ w[n][Node(g, s, L - k + 1)] # Rest(k)
    BY <2>2
  <2>0. w[n] = Layer(I \cup {g}, g, nx, n, w[n - 1])
    BY DEF Walks
  <2>4. k \in 0..L /\ n \in Nat /\ n >= k
    BY <2>2, <2>3
  <2>5. CASE k = 0
    <3>1. Node(g, s, L - k + 1) = g
      BY <1>0, <1>1, <2>5 DEF Node
    <3>2. w[n][g] = <<>>
      BY <2>0 DEF Layer
    <3>3. Rest(k) = <<>>
      BY <1>1, <2>5
    <3> QED BY <2>3, <3>1, <3>2, <3>3
  <2>6. CASE k # 0
    <3>0. PICK i : i = L - k + 1
      OBVIOUS
    <3>1. /\ i \in 1..L /\ i + 1 = L - (k - 1) + 1 /\ k - 1 \in 0..L /\ n - 1 \in Nat
          /\ n # 0 /\ n - 1 >= k - 1 /\ ~ (k <= k - 1) /\ k - 1 \in Nat
      BY <1>1, <2>4, <2>6, <3>0
    <3>2. Node(g, s, i) = s[i] /\ s[i] \in I /\ s[i] # g
      BY <1>0, <1>1, <3>1 DEF Node
    <3>3. w[n][s[i]] = <<s[i]>> \o w[n - 1][Node(g, s, i + 1)]
      <4>1. nx[s[i]] = Node(g, s, i + 1)
        BY <1>0, <3>1
      <4>2. w[n][s[i]] = <<s[i]>> \o w[n - 1][nx[s[i]]]
        BY <2>0, <3>1, <3>2 DEF Layer
      <4> QED BY <4>1, <4>2
    <3>4. w[n - 1][Node(g, s, i + 1)] = Rest(k - 1)
      <4>1. k - 1 \notin Bad
        BY <2>2, <3>1
      <4> QED BY <3>1, <4>1
    <3>5. <<s[i]>> \o SubSeq(s, i + 1, L) = SubSeq(s, i, L)
      <4>1. i \in 1..Len(s) /\ L \in i..Len(s)
        BY <1>0, <1>1, <3>1
      <4> QED BY <4>1, SubSeqRecursiveFirst
    <3> QED BY <2>3, <3>0, <3>1, <3>2, <3>3, <3>4, <3>5
  <2> QED BY <2>5, <2>6
<1>4. /\ L \notin Bad /\ L \in 0..L /\ Cardinality(I) + 1 \in Nat /\ Cardinality(I) + 1 >= L /\ L - L + 1 = 1
  BY <1>1, <1>2, <1>3
<1>5. w[Cardinality(I) + 1][Node(g, s, 1)] = SubSeq(s, 1, L)
  BY <1>4
<1>6. SubSeq(s, 1, L) = s
  BY <1>0, <1>1
<1> QED BY <1>5, <1>6
-----------------------------------------------------------------------------
(* The LIFO.                                                               *)


LEMMA ContentsAre ==
    ASSUME NEW s, Linked(Items, Ghost, next, s), head = Node(Ghost, s, 1)
    PROVE  Contents = s
<1>1. From = CHOOSE f : Walks(Nodes, Ghost, next, f)
  BY DEF From, Walks, Layer, Nodes
<1>2. PICK w : w = From
  OBVIOUS
<1>3. Walks(Items \cup {Ghost}, Ghost, next, w)
  BY <1>1, <1>2, WalkExists DEF Nodes
<1>4. IsFiniteSet(Items) /\ Ghost \notin Items
  BY ItemsAssumption
<1>5. w[Cardinality(Items) + 1][Node(Ghost, s, 1)] = s
  BY <1>3, <1>4, WalkLists
<1> QED BY <1>2, <1>5 DEF Contents

Pushing(t) == pc[t] \in {"push_link", "push_cas"}
Popping(t) == pc[t] \in {"pop_next", "pop_cas"}
Chain(t) == {item[t], prev[item[t]]}
Out == outside \cup Pushed

LifoType ==
    /\ head \in Nodes
    /\ next \in [Nodes -> Nodes]
    /\ prev \in [Items -> Items]
    /\ outside \in SUBSET Items
    /\ pc \in [Threads -> {"idle", "push_link", "push_cas", "pop_head", "pop_next", "pop_cas"}]
    /\ item \in [Threads -> Nodes]
    /\ succ \in [Threads -> Nodes]

\* A chain that is being pushed is nobody else's, and its items are linked.
ChainsInv ==
    /\ \A t \in Threads : Pushing(t) =>
         /\ item[t] \in Items /\ Chain(t) \cap outside = {}
         /\ prev[item[t]] # item[t] => next[item[t]] = prev[item[t]]
    /\ \A t, u \in Threads : Pushing(t) /\ Pushing(u) /\ t # u => Chain(t) \cap Chain(u) = {}

\* The list the links make from the head on is s, and its items are nobody's.
IsStack(s) ==
    /\ Linked(Items, Ghost, next, s)
    /\ head = Node(Ghost, s, 1)
    /\ \A i \in 1..Len(s) : s[i] \notin outside /\ \A t \in Threads : Pushing(t) => s[i] \notin Chain(t)

\* What a pop has read stays in the stack, and so does what follows it.
PopInv(s) ==
    \A p \in Threads :
        /\ pc[p] = "pop_head" \/ Popping(p) => p \in Poppers
        /\ Popping(p) => \E i \in 1..Len(s) : s[i] = item[p]
        /\ pc[p] = "pop_cas" => succ[p] = next[item[p]]

LifoInv == LifoType /\ ChainsInv /\ \E s : IsStack(s) /\ PopInv(s)

\* What a step does to the stack s: nothing, a push or a pop.
Pushes(s, r, chain) ==
    /\ {chain[i] : i \in DOMAIN chain} \subseteq Out
    /\ Cardinality({chain[i] : i \in DOMAIN chain}) = Len(chain)
    /\ r = chain \o s
    /\ Out' = Out \ {chain[i] : i \in DOMAIN chain}

Pops(s, r) == s # <<>> /\ r = Tail(s) /\ Out' = Out \cup {Head(s)}

StackStep(s, r) ==
    \/ r = s /\ Out' = Out
    \/ \E a, b \in Items : Pushes(s, r, <<a>>) \/ Pushes(s, r, <<a, b>>)
    \/ Pops(s, r)

LEMMA PushedAre == \A x : x \in Pushed <=> \E t \in Threads : Pushing(t) /\ x \in Chain(t)
  BY DEF Pushed, Pushing, Chain

LEMMA PushedAreNext == (\A x : x \in Pushed <=> \E t \in Threads : Pushing(t) /\ x \in Chain(t))'
  BY PushedAre, PTL

LEMMA InitLifo == Init => LifoInv
<1> SUFFICES ASSUME Init PROVE LifoInv
  OBVIOUS
<1>1. LifoType
  BY DEF Init, LifoType, Nodes
<1>2. ChainsInv
  BY DEF Init, ChainsInv, Pushing
<1>3. IsStack(<<>>) /\ PopInv(<<>>)
  <2>1. <<>> \in Seq(Items) /\ Len(<<>>) = 0 /\ 1..0 = {}
    BY EmptySeq
  <2>2. head = Node(Ghost, <<>>, 1)
    BY <2>1 DEF Init, Node
  <2>3. IsStack(<<>>)
    BY <2>1, <2>2 DEF IsStack, Linked
  <2>4. PopInv(<<>>)
    BY DEF Init, PopInv, Popping
  <2> QED BY <2>3, <2>4
<1> QED BY <1>1, <1>2, <1>3 DEF LifoInv

LEMMA PushBeginSteps ==
    ASSUME LifoType, ChainsInv, NEW s, IsStack(s), PopInv(s), NEW t \in Threads, PushBegin(t)
    PROVE  LifoType' /\ ChainsInv' /\ IsStack(s)' /\ PopInv(s)' /\ StackStep(s, s)
<1>1. PICK a \in outside, b \in outside :
         /\ pc[t] = "idle"
         /\ outside' = outside \ {a, b}
         /\ next' = [next EXCEPT ![a] = b, ![b] = a]
         /\ prev' = [prev EXCEPT ![a] = b, ![b] = a]
         /\ item' = [item EXCEPT ![t] = a]
         /\ pc' = [pc EXCEPT ![t] = "push_link"]
         /\ head' = head /\ succ' = succ
  BY DEF PushBegin, Goto
<1>2. a \in Items /\ b \in Items /\ a # Ghost /\ b # Ghost
  BY ItemsAssumption DEF LifoType
<1>3. LifoType'
  BY <1>1, <1>2 DEF LifoType, Nodes
<1>4. /\ item'[t] = a /\ prev'[a] = b /\ Pushing(t)' /\ Chain(t)' = {a, b}
      /\ a # b => next'[a] = b
  BY <1>1, <1>2 DEF LifoType, Nodes, Pushing, Chain
<1>5. /\ \A i \in Items : i # a /\ i # b => next'[i] = next[i] /\ prev'[i] = prev[i]
      /\ \A u \in Threads : u # t => item'[u] = item[u] /\ pc'[u] = pc[u]
  BY <1>1, <1>2 DEF LifoType, Nodes
<1>6. ASSUME NEW u \in Threads, u # t, Pushing(u)'
      PROVE  /\ Pushing(u) /\ item[u] \in Items /\ item'[u] = item[u] /\ Chain(u)' = Chain(u)
             /\ Chain(u) \cap {a, b} = {} /\ next'[item[u]] = next[item[u]]
             /\ prev'[item[u]] = prev[item[u]]
  <2>1. Pushing(u) /\ item'[u] = item[u]
    BY <1>5, <1>6 DEF Pushing
  <2>2. item[u] \in Items /\ Chain(u) \cap outside = {}
    BY <2>1 DEF ChainsInv
  <2>3. Chain(u) \cap {a, b} = {} /\ item[u] # a /\ item[u] # b
    BY <2>2 DEF Chain
  <2>4. next'[item[u]] = next[item[u]] /\ prev'[item[u]] = prev[item[u]]
    BY <1>5, <2>2, <2>3
  <2> QED BY <2>1, <2>2, <2>3, <2>4 DEF Chain
<1>7. ChainsInv'
  <2>1. ASSUME NEW u \in Threads, Pushing(u)'
        PROVE  /\ item'[u] \in Items /\ Chain(u)' \cap outside' = {}
               /\ prev'[item'[u]] # item'[u] => next'[item'[u]] = prev'[item'[u]]
    <3>1. CASE u = t
      BY <1>1, <1>2, <1>4, <3>1
    <3>2. CASE u # t
      <4>1. Chain(u) \cap outside = {} /\ (prev[item[u]] # item[u] => next[item[u]] = prev[item[u]])
        BY <1>6, <2>1, <3>2 DEF ChainsInv
      <4>2. Chain(u)' \cap outside' = {}
        BY <1>1, <1>6, <2>1, <3>2, <4>1
      <4>3. prev'[item'[u]] # item'[u] => next'[item'[u]] = prev'[item'[u]]
        BY <1>6, <2>1, <3>2, <4>1
      <4> QED BY <1>6, <2>1, <3>2, <4>2, <4>3
    <3> QED BY <3>1, <3>2
  <2>2. ASSUME NEW u \in Threads, NEW v \in Threads, Pushing(u)', Pushing(v)', u # v
        PROVE  Chain(u)' \cap Chain(v)' = {}
    <3>1. CASE u = t
      BY <1>4, <1>6, <2>2, <3>1
    <3>2. CASE v = t
      BY <1>4, <1>6, <2>2, <3>2
    <3>3. CASE u # t /\ v # t
      <4>1. Chain(u) \cap Chain(v) = {}
        BY <1>6, <2>2, <3>3 DEF ChainsInv
      <4> QED BY <1>6, <2>2, <3>3, <4>1
    <3> QED BY <3>1, <3>2, <3>3
  <2> QED BY <2>1, <2>2 DEF ChainsInv
<1>8. ASSUME NEW i \in 1..Len(s)
      PROVE  s[i] \in Items /\ s[i] # a /\ s[i] # b /\ next'[s[i]] = next[s[i]]
  <2>1. s[i] \in Items /\ s[i] \notin outside
    BY DEF IsStack, Linked
  <2> QED BY <1>5, <2>1
<1>9. IsStack(s)'
  <2>1. \A i \in 1..Len(s) : next'[s[i]] = Node(Ghost, s, i + 1)
    BY <1>8 DEF IsStack, Linked
  <2>2. ASSUME NEW i \in 1..Len(s)
        PROVE  s[i] \notin outside' /\ \A u \in Threads : Pushing(u)' => s[i] \notin Chain(u)'
    BY <1>1, <1>4, <1>6, <1>8 DEF IsStack, Linked
  <2>3. head' = Node(Ghost, s, 1)
    BY <1>1 DEF IsStack, Linked
  <2> QED BY <2>1, <2>2, <2>3 DEF IsStack, Linked
<1>10. PopInv(s)'
  <2>1. ASSUME NEW p \in Threads
        PROVE  /\ (pc[p] = "pop_head" \/ Popping(p))' => p \in Poppers
               /\ Popping(p)' => \E i \in 1..Len(s) : s[i] = item'[p]
               /\ pc'[p] = "pop_cas" => succ'[p] = next'[item'[p]]
    <3>1. CASE p = t
      <4>1. pc'[t] = "push_link"
        BY <1>1 DEF LifoType
      <4> QED BY <3>1, <4>1 DEF Popping
    <3>2. CASE p # t
      <4>1. pc'[p] = pc[p] /\ item'[p] = item[p] /\ succ'[p] = succ[p] /\ (Popping(p)' <=> Popping(p))
        BY <1>1, <1>5, <3>2 DEF Popping
      <4>2. CASE Popping(p)
        <5>1. PICK i \in 1..Len(s) : s[i] = item[p]
          BY <4>2 DEF PopInv
        <5>2. next'[item[p]] = next[item[p]]
          BY <1>8, <5>1
        <5> QED BY <4>1, <4>2, <5>1, <5>2 DEF PopInv
      <4>3. CASE ~ Popping(p)
        BY <4>1, <4>3 DEF PopInv, Popping
      <4> QED BY <4>2, <4>3
    <3> QED BY <3>1, <3>2
  <2> QED BY <2>1 DEF PopInv
<1>11. Out' = Out
  <2>1. ASSUME NEW x PROVE x \in Pushed' <=> x \in Pushed \/ x = a \/ x = b
    <3>1. ASSUME x \in Pushed' PROVE x \in Pushed \/ x = a \/ x = b
      <4>1. PICK u \in Threads : Pushing(u)' /\ x \in Chain(u)'
        BY <3>1, PushedAreNext
      <4> QED BY <1>4, <1>6, <4>1, PushedAre
    <3>2. ASSUME x \in Pushed PROVE x \in Pushed'
      <4>1. PICK u \in Threads : Pushing(u) /\ x \in Chain(u)
        BY <3>2, PushedAre
      <4>2. u # t /\ Pushing(u)'
        BY <1>1, <1>5, <4>1 DEF Pushing
      <4>3. x \in Chain(u)'
        BY <1>6, <4>1, <4>2
      <4> QED BY <4>2, <4>3, PushedAreNext
    <3>3. a \in Pushed' /\ b \in Pushed'
      BY <1>4, PushedAreNext
    <3> QED BY <3>1, <3>2, <3>3
  <2> QED BY <1>1, <2>1 DEF Out
<1> QED BY <1>3, <1>7, <1>9, <1>10, <1>11 DEF StackStep

\* A step that neither begins nor ends a push, and links only the end of a chain.
LEMMA ChainsKept ==
    ASSUME LifoType, ChainsInv, NEW s, IsStack(s), prev' = prev, outside' = outside, head' = head,
           \A u \in Threads : (Pushing(u)' <=> Pushing(u)) /\ (Pushing(u) => item'[u] = item[u]),
           \A u \in Threads : Pushing(u) /\ prev[item[u]] # item[u] => next'[item[u]] = next[item[u]],
           \A i \in 1..Len(s) : next'[s[i]] = next[s[i]]
    PROVE  ChainsInv' /\ IsStack(s)' /\ Out' = Out
<1>1. \A u \in Threads : Pushing(u) => Chain(u)' = Chain(u)
  BY DEF Chain
<1>2. ChainsInv'
  <2>1. ASSUME NEW u \in Threads, Pushing(u)'
        PROVE  /\ item'[u] \in Items /\ Chain(u)' \cap outside' = {}
               /\ prev'[item'[u]] # item'[u] => next'[item'[u]] = prev'[item'[u]]
    <3>1. Pushing(u) /\ item'[u] = item[u] /\ Chain(u)' = Chain(u)
      BY <1>1, <2>1
    <3> QED BY <3>1 DEF ChainsInv
  <2>2. ASSUME NEW u \in Threads, NEW v \in Threads, Pushing(u)', Pushing(v)', u # v
        PROVE  Chain(u)' \cap Chain(v)' = {}
    <3>1. Pushing(u) /\ Pushing(v) /\ Chain(u)' = Chain(u) /\ Chain(v)' = Chain(v)
      BY <1>1, <2>2
    <3> QED BY <2>2, <3>1 DEF ChainsInv
  <2> QED BY <2>1, <2>2 DEF ChainsInv
<1>3. IsStack(s)'
  <2>1. Linked(Items, Ghost, next, s)'
    BY DEF IsStack, Linked
  <2> QED BY <1>1, <2>1 DEF IsStack
<1>4. Pushed' = Pushed
  BY <1>1, PushedAre, PushedAreNext
<1> QED BY <1>2, <1>3, <1>4 DEF Out

\* A step of t that is not a pop leaves what the others have read as it is.
LEMMA PopsKept ==
    ASSUME LifoType, NEW s, PopInv(s), NEW r, NEW t \in Threads,
           \A i \in 1..Len(s) : \E j \in 1..Len(r) : r[j] = s[i],
           \A i \in 1..Len(s) : next'[s[i]] = next[s[i]],
           \A p \in Threads : p # t =>
             pc'[p] = pc[p] /\ item'[p] = item[p] /\ succ'[p] = succ[p],
           ~ Popping(t)', pc'[t] # "pop_head"
    PROVE  PopInv(r)'
<1>1. ASSUME NEW p \in Threads
      PROVE  /\ (pc[p] = "pop_head" \/ Popping(p))' => p \in Poppers
             /\ Popping(p)' => \E i \in 1..Len(r) : r[i] = item'[p]
             /\ pc'[p] = "pop_cas" => succ'[p] = next'[item'[p]]
  <2>1. CASE p = t
    BY <2>1 DEF Popping
  <2>2. CASE p # t
    <3>1. pc'[p] = pc[p] /\ item'[p] = item[p] /\ succ'[p] = succ[p] /\ (Popping(p)' <=> Popping(p))
      BY <2>2 DEF Popping
    <3>2. CASE Popping(p)
      <4>1. PICK i \in 1..Len(s) : s[i] = item[p]
        BY <3>2 DEF PopInv
      <4>2. next'[item[p]] = next[item[p]]
        BY <4>1
      <4> QED BY <3>1, <3>2, <4>1, <4>2 DEF PopInv
    <3>3. CASE ~ Popping(p)
      BY <3>1, <3>3 DEF PopInv, Popping
    <3> QED BY <3>2, <3>3
  <2> QED BY <2>1, <2>2
<1> QED BY <1>1 DEF PopInv

LEMMA PushLinkSteps ==
    ASSUME LifoType, ChainsInv, NEW s, IsStack(s), PopInv(s), NEW t \in Threads, PushLink(t)
    PROVE  LifoType' /\ ChainsInv' /\ IsStack(s)' /\ PopInv(s)' /\ StackStep(s, s)
<1>1. /\ pc[t] = "push_link"
      /\ next' = [next EXCEPT ![prev[item[t]]] = head]
      /\ pc' = [pc EXCEPT ![t] = "push_cas"]
      /\ head' = head /\ prev' = prev /\ outside' = outside /\ item' = item /\ succ' = succ
  BY DEF PushLink, Goto
<1>2. PICK b : b = prev[item[t]]
  OBVIOUS
<1>3. Pushing(t) /\ b \in Items /\ b \in Chain(t) /\ next' = [next EXCEPT ![b] = head]
  BY <1>1, <1>2 DEF ChainsInv, LifoType, Pushing, Chain
<1>4. LifoType'
  BY <1>1, <1>3 DEF LifoType, Nodes
<1>5. \A i \in Items : i # b => next'[i] = next[i]
  BY <1>3 DEF LifoType, Nodes
<1>6. \A u \in Threads : (Pushing(u)' <=> Pushing(u)) /\ item'[u] = item[u]
  BY <1>1 DEF LifoType, Pushing
<1>7. ASSUME NEW u \in Threads, Pushing(u), prev[item[u]] # item[u]
      PROVE  next'[item[u]] = next[item[u]]
  <2>1. item[u] \in Items
    BY <1>7 DEF ChainsInv
  <2>2. CASE u = t
    BY <1>2, <1>5, <1>7, <2>1, <2>2
  <2>3. CASE u # t
    <3>1. Chain(u) \cap Chain(t) = {} /\ item[u] \in Chain(u)
      BY <1>3, <1>7, <2>3 DEF ChainsInv, Chain
    <3> QED BY <1>3, <1>5, <2>1, <3>1
  <2> QED BY <2>2, <2>3
<1>8. ASSUME NEW i \in 1..Len(s) PROVE next'[s[i]] = next[s[i]]
  <2>1. s[i] \in Items /\ s[i] \notin Chain(t)
    BY <1>3 DEF IsStack, Linked
  <2> QED BY <1>3, <1>5, <2>1
<1>9. ChainsInv' /\ IsStack(s)' /\ Out' = Out
  BY <1>1, <1>6, <1>7, <1>8, ChainsKept
<1>10. PopInv(s)'
  <2>1. ~ Popping(t)' /\ pc'[t] # "pop_head"
    BY <1>1 DEF LifoType, Popping
  <2>2. \A p \in Threads : p # t => pc'[p] = pc[p] /\ item'[p] = item[p] /\ succ'[p] = succ[p]
    BY <1>1 DEF LifoType
  <2> QED BY <1>8, <2>1, <2>2, PopsKept
<1> QED BY <1>4, <1>9, <1>10 DEF StackStep

\* One more node on top of a list, or one less.
LEMMA LinkedOnTop ==
    ASSUME NEW I, NEW g, NEW nx, NEW s, Linked(I, g, nx, s), NEW a \in I,
           \A i \in 1..Len(s) : s[i] # a, nx[a] = Node(g, s, 1)
    PROVE  /\ Linked(I, g, nx, <<a>> \o s) /\ Node(g, <<a>> \o s, 1) = a
           /\ Len(<<a>> \o s) = Len(s) + 1 /\ (<<a>> \o s)[1] = a
           /\ \A i \in 1..Len(s) : (<<a>> \o s)[i + 1] = s[i]
           /\ \A j \in 1..Len(<<a>> \o s) : (<<a>> \o s)[j] = a \/ \E i \in 1..Len(s) : (<<a>> \o s)[j] = s[i]
<1>1. /\ s \in Seq(I) /\ \A i, j \in 1..Len(s) : s[i] = s[j] => i = j
      /\ \A i \in 1..Len(s) : nx[s[i]] = Node(g, s, i + 1)
  BY DEF Linked
<1>2. PICK L \in Nat : L = Len(s)
  BY <1>1
<1>3. PICK r : r = <<a>> \o s
  OBVIOUS
<1>4. r \in Seq(I) /\ Len(r) = L + 1 /\ \A i \in 1..(L + 1) : r[i] = IF i = 1 THEN a ELSE s[i - 1]
  BY <1>1, <1>2, <1>3
<1>5. \A i \in 1..L : r[i + 1] = s[i]
  BY <1>4
<1>6. r[1] = a
  BY <1>4
<1>7. ASSUME NEW j \in 1..(L + 1) PROVE j = 1 \/ (j - 1 \in 1..L /\ r[j] = s[j - 1])
  BY <1>4
<1>8. \A i, j \in 1..(L + 1) : r[i] = r[j] => i = j
  <2> TAKE i, j \in 1..(L + 1)
  <2> HAVE r[i] = r[j]
  <2>1. CASE i = 1
    BY <1>2, <1>6, <1>7, <2>1
  <2>2. CASE j = 1
    BY <1>2, <1>6, <1>7, <2>2
  <2>3. CASE i # 1 /\ j # 1
    <3>1. i - 1 \in 1..L /\ j - 1 \in 1..L /\ s[i - 1] = s[j - 1]
      BY <1>7, <2>3
    <3>2. i - 1 = j - 1
      BY <1>1, <1>2, <3>1
    <3> QED BY <3>2
  <2> QED BY <2>1, <2>2, <2>3
<1>9. ASSUME NEW j \in 1..(L + 1) PROVE nx[r[j]] = Node(g, r, j + 1)
  <2>1. CASE j = 1
    <3>1. CASE L = 0
      BY <1>2, <1>4, <1>6, <2>1, <3>1 DEF Node
    <3>2. CASE L # 0
      <4>1. 1 \in 1..L /\ r[2] = s[1]
        BY <1>5, <3>2
      <4> QED BY <1>2, <1>4, <1>6, <2>1, <4>1 DEF Node
    <3> QED BY <3>1, <3>2
  <2>2. CASE j # 1
    <3>1. j - 1 \in 1..L /\ r[j] = s[j - 1] /\ (j - 1) + 1 = j
      BY <1>7, <2>2
    <3>2. nx[r[j]] = Node(g, s, j)
      BY <1>1, <1>2, <3>1
    <3>3. CASE j <= L
      BY <1>2, <1>4, <1>5, <3>1, <3>2, <3>3 DEF Node
    <3>4. CASE ~ (j <= L)
      BY <1>2, <1>4, <3>2, <3>4 DEF Node
    <3> QED BY <3>3, <3>4
  <2> QED BY <2>1, <2>2
<1>10. Linked(I, g, nx, r)
  BY <1>4, <1>8, <1>9 DEF Linked
<1>11. Node(g, r, 1) = a
  BY <1>4, <1>6 DEF Node
<1>12. \A j \in 1..Len(r) : r[j] = a \/ \E i \in 1..Len(s) : r[j] = s[i]
  BY <1>2, <1>4, <1>6, <1>7
<1> QED BY <1>2, <1>3, <1>4, <1>5, <1>6, <1>10, <1>11, <1>12

LEMMA LinkedTail ==
    ASSUME NEW I, NEW g, NEW nx, NEW s, Linked(I, g, nx, s), s # <<>>
    PROVE  /\ Len(s) \in Nat \ {0} /\ Head(s) = s[1] /\ s[1] \in I /\ Node(g, s, 1) = s[1]
           /\ Linked(I, g, nx, Tail(s)) /\ nx[s[1]] = Node(g, Tail(s), 1)
           /\ Len(Tail(s)) = Len(s) - 1
           /\ \A i \in 1..Len(Tail(s)) : i + 1 \in 1..Len(s) /\ i + 1 # 1 /\ Tail(s)[i] = s[i + 1]
           /\ \A i \in 1..Len(s) : i # 1 => \E j \in 1..Len(Tail(s)) : Tail(s)[j] = s[i]
<1>1. /\ s \in Seq(I) /\ \A i, j \in 1..Len(s) : s[i] = s[j] => i = j
      /\ \A i \in 1..Len(s) : nx[s[i]] = Node(g, s, i + 1)
  BY DEF Linked
<1>2. PICK L \in Nat : L = Len(s)
  BY <1>1
<1>3. PICK r : r = Tail(s)
  OBVIOUS
<1>4. r \in Seq(I) /\ Len(r) = L - 1 /\ L # 0 /\ \A i \in 1..(L - 1) : r[i] = s[i + 1]
  <2>1. L # 0
    BY <1>1, <1>2, EmptySeq
  <2> QED BY <1>1, <1>2, <1>3, <2>1, HeadTailProperties
<1>5. Head(s) = s[1] /\ s[1] \in I /\ Node(g, s, 1) = s[1] /\ 1 \in 1..L
  BY <1>1, <1>2, <1>4 DEF Node
<1>6. \A i \in 1..(L - 1) : i + 1 \in 1..L /\ i + 1 # 1 /\ r[i] = s[i + 1]
  BY <1>4
<1>7. \A i \in 0..(L - 1) : Node(g, s, i + 2) = Node(g, r, i + 1)
  <2> TAKE i \in 0..(L - 1)
  <2>1. CASE i + 2 <= L
    BY <1>2, <1>4, <2>1 DEF Node
  <2>2. CASE ~ (i + 2 <= L)
    BY <1>2, <1>4, <2>2 DEF Node
  <2> QED BY <2>1, <2>2
<1>8. nx[s[1]] = Node(g, r, 1)
  <2>1. nx[s[1]] = Node(g, s, 1 + 1) /\ 1 + 1 = 0 + 2 /\ 0 \in 0..(L - 1) /\ 0 + 1 = 1
    BY <1>1, <1>2, <1>4, <1>5
  <2> QED BY <1>7, <2>1
<1>9. \A i, j \in 1..(L - 1) : r[i] = r[j] => i = j
  <2> TAKE i, j \in 1..(L - 1)
  <2> HAVE r[i] = r[j]
  <2>1. i + 1 = j + 1
    BY <1>1, <1>2, <1>6
  <2> QED BY <2>1
<1>10. ASSUME NEW i \in 1..(L - 1) PROVE nx[r[i]] = Node(g, r, i + 1)
  <2>1. nx[s[i + 1]] = Node(g, s, (i + 1) + 1) /\ (i + 1) + 1 = i + 2 /\ i \in 0..(L - 1)
    BY <1>1, <1>2, <1>6
  <2> QED BY <1>6, <1>7, <2>1
<1>11. Linked(I, g, nx, r)
  BY <1>4, <1>9, <1>10 DEF Linked
<1>12. ASSUME NEW i \in 1..L, i # 1 PROVE \E j \in 1..(L - 1) : r[j] = s[i]
  <2>1. i - 1 \in 1..(L - 1) /\ (i - 1) + 1 = i
    BY <1>12
  <2> QED BY <1>6, <2>1
<1> QED BY <1>2, <1>3, <1>4, <1>5, <1>6, <1>8, <1>11, <1>12

LEMMA PushCasSteps ==
    ASSUME LifoType, ChainsInv, NEW s, IsStack(s), PopInv(s), NEW t \in Threads, PushCas(t)
    PROVE  LifoType' /\ ChainsInv' /\ \E r : IsStack(r)' /\ PopInv(r)' /\ StackStep(s, r)
<1>1. pc[t] = "push_cas" /\ next' = next /\ prev' = prev /\ outside' = outside /\ succ' = succ
  BY DEF PushCas
<1>2. Pushing(t)
  BY <1>1 DEF Pushing
<1>3. CASE ~ HeadIs(next[prev[item[t]]])
  <2>1. head' = head /\ item' = item /\ pc' = [pc EXCEPT ![t] = "push_link"]
    BY <1>3 DEF PushCas, Goto
  <2>2. LifoType'
    BY <1>1, <2>1 DEF LifoType
  <2>3. \A u \in Threads : (Pushing(u)' <=> Pushing(u)) /\ item'[u] = item[u]
    BY <1>1, <2>1 DEF LifoType, Pushing
  <2>4. ChainsInv' /\ IsStack(s)' /\ Out' = Out
    BY <1>1, <2>1, <2>3, ChainsKept
  <2>5. PopInv(s)'
    <3>1. ~ Popping(t)' /\ pc'[t] # "pop_head"
      BY <2>1 DEF LifoType, Popping
    <3>2. \A p \in Threads : p # t => pc'[p] = pc[p] /\ item'[p] = item[p] /\ succ'[p] = succ[p]
      BY <1>1, <2>1 DEF LifoType
    <3> QED BY <1>1, <3>1, <3>2, PopsKept
  <2> QED BY <2>2, <2>4, <2>5 DEF StackStep
<1>4. CASE HeadIs(next[prev[item[t]]])
  <2>1. PICK a \in Items : a = item[t]
    BY <1>2 DEF ChainsInv
  <2>2. PICK b \in Items : b = prev[a]
    BY <2>1 DEF LifoType
  <2>3. /\ head' = a /\ item' = [item EXCEPT ![t] = Ghost] /\ pc' = [pc EXCEPT ![t] = "idle"]
        /\ head = next[b] /\ Chain(t) = {a, b} /\ (a # b => next[a] = b)
    BY <1>2, <1>4, <2>1, <2>2 DEF PushCas, Goto, HeadIs, Chain, ChainsInv
  <2>4. LifoType'
    BY <1>1, <2>3 DEF LifoType, Nodes
  <2>5. ASSUME NEW u \in Threads, Pushing(u)'
        PROVE  u # t /\ Pushing(u) /\ item'[u] = item[u] /\ Chain(u)' = Chain(u) /\ Chain(u) \cap {a, b} = {}
    <3>1. u # t
      BY <2>3, <2>5 DEF LifoType, Pushing
    <3>2. Pushing(u) /\ item'[u] = item[u] /\ Chain(u)' = Chain(u)
      BY <1>1, <2>3, <2>5, <3>1 DEF LifoType, Pushing, Chain
    <3> QED BY <1>2, <2>3, <3>1, <3>2 DEF ChainsInv
  <2>6. ChainsInv'
    <3>1. ASSUME NEW u \in Threads, Pushing(u)'
          PROVE  /\ item'[u] \in Items /\ Chain(u)' \cap outside' = {}
                 /\ prev'[item'[u]] # item'[u] => next'[item'[u]] = prev'[item'[u]]
      BY <1>1, <2>5, <3>1 DEF ChainsInv
    <3>2. ASSUME NEW u \in Threads, NEW v \in Threads, Pushing(u)', Pushing(v)', u # v
          PROVE  Chain(u)' \cap Chain(v)' = {}
      BY <2>5, <3>2 DEF ChainsInv
    <3> QED BY <3>1, <3>2 DEF ChainsInv
  <2>7. /\ Linked(Items, Ghost, next, s) /\ next[b] = Node(Ghost, s, 1)
        /\ \A i \in 1..Len(s) : s[i] # a /\ s[i] # b
    BY <1>2, <2>3 DEF IsStack
  <2>8. PICK q : q = <<b>> \o s
    OBVIOUS
  <2>9. /\ Linked(Items, Ghost, next, q) /\ Node(Ghost, q, 1) = b
        /\ \A j \in 1..Len(q) : q[j] = b \/ \E i \in 1..Len(s) : q[j] = s[i]
        /\ \A i \in 1..Len(s) : \E j \in 1..Len(q) : q[j] = s[i]
    <3>1. /\ Linked(Items, Ghost, next, q) /\ Node(Ghost, q, 1) = b /\ Len(q) = Len(s) + 1
          /\ \A j \in 1..Len(q) : q[j] = b \/ \E i \in 1..Len(s) : q[j] = s[i]
          /\ \A i \in 1..Len(s) : q[i + 1] = s[i]
      BY <2>7, <2>8, LinkedOnTop
    <3>2. Len(s) \in Nat
      BY <2>7 DEF Linked
    <3>3. \A i \in 1..Len(s) : i + 1 \in 1..Len(q)
      BY <3>1, <3>2
    <3> QED BY <3>1, <3>3
  <2>10. \E r : /\ Linked(Items, Ghost, next, r) /\ Node(Ghost, r, 1) = a
                /\ \A j \in 1..Len(r) : r[j] = a \/ r[j] = b \/ \E i \in 1..Len(s) : r[j] = s[i]
                /\ \A i \in 1..Len(s) : \E j \in 1..Len(r) : r[j] = s[i]
                /\ (a = b /\ r = <<a>> \o s) \/ (a # b /\ r = <<a, b>> \o s)
    <3>1. CASE a = b
      BY <2>8, <2>9, <3>1
    <3>2. CASE a # b
      <4>1. PICK r : r = <<a>> \o q
        OBVIOUS
      <4>2. \A i \in 1..Len(q) : q[i] # a
        BY <2>7, <2>9, <3>2
      <4>3. next[a] = Node(Ghost, q, 1)
        BY <2>3, <2>9, <3>2
      <4>4. /\ Linked(Items, Ghost, next, r) /\ Node(Ghost, r, 1) = a /\ Len(r) = Len(q) + 1
            /\ \A j \in 1..Len(r) : r[j] = a \/ \E i \in 1..Len(q) : r[j] = q[i]
            /\ \A i \in 1..Len(q) : r[i + 1] = q[i]
        BY <2>9, <4>1, <4>2, <4>3, LinkedOnTop
      <4>5. Len(q) \in Nat
        BY <2>9 DEF Linked
      <4>6. \A i \in 1..Len(q) : i + 1 \in 1..Len(r) /\ r[i + 1] = q[i]
        BY <4>4, <4>5
      <4>7. ASSUME NEW i \in 1..Len(s) PROVE \E j \in 1..Len(r) : r[j] = s[i]
        <5>1. PICK k \in 1..Len(q) : q[k] = s[i]
          BY <2>9
        <5> QED BY <4>6, <5>1
      <4>8. ASSUME NEW j \in 1..Len(r)
            PROVE  r[j] = a \/ r[j] = b \/ \E i \in 1..Len(s) : r[j] = s[i]
        <5>1. CASE \E k \in 1..Len(q) : r[j] = q[k]
          <6>1. PICK k \in 1..Len(q) : r[j] = q[k]
            BY <5>1
          <6>2. q[k] = b \/ \E i \in 1..Len(s) : q[k] = s[i]
            BY <2>9
          <6> QED BY <6>1, <6>2
        <5> QED BY <4>4, <5>1
      <4>9. <<a>> \o (<<b>> \o s) = <<a, b>> \o s
        <5>1. s \in Seq(Items)
          BY <2>7 DEF Linked
        <5> QED BY <5>1
      <4> QED BY <2>8, <3>2, <4>1, <4>4, <4>7, <4>8, <4>9
    <3> QED BY <3>1, <3>2
  <2>11. PICK r : /\ Linked(Items, Ghost, next, r) /\ Node(Ghost, r, 1) = a
                  /\ \A j \in 1..Len(r) : r[j] = a \/ r[j] = b \/ \E i \in 1..Len(s) : r[j] = s[i]
                  /\ \A i \in 1..Len(s) : \E j \in 1..Len(r) : r[j] = s[i]
                  /\ (a = b /\ r = <<a>> \o s) \/ (a # b /\ r = <<a, b>> \o s)
    BY <2>10
  <2>12. IsStack(r)'
    <3>1. Linked(Items, Ghost, next, r)'
      BY <1>1, <2>11 DEF Linked
    <3>2. ASSUME NEW j \in 1..Len(r), NEW x, x = r[j]
          PROVE  x \notin outside' /\ \A u \in Threads : Pushing(u)' => x \notin Chain(u)'
      <4>1. CASE x = a \/ x = b
        <5>1. x \notin outside
          BY <1>2, <2>3, <4>1 DEF ChainsInv
        <5> QED BY <1>1, <2>5, <4>1, <5>1
      <4>2. CASE \E i \in 1..Len(s) : x = s[i]
        BY <1>1, <2>5, <4>2 DEF IsStack
      <4> QED BY <2>11, <3>2, <4>1, <4>2
    <3> QED BY <2>3, <2>11, <3>1, <3>2 DEF IsStack
  <2>13. PopInv(r)'
    <3>1. ~ Popping(t)' /\ pc'[t] # "pop_head"
      BY <2>3 DEF LifoType, Popping
    <3>2. \A p \in Threads : p # t => pc'[p] = pc[p] /\ item'[p] = item[p] /\ succ'[p] = succ[p]
      BY <1>1, <2>3 DEF LifoType
    <3> QED BY <1>1, <2>11, <3>1, <3>2, PopsKept
  <2>14. Out' = Out \ {a, b} /\ {a, b} \subseteq Out
    <3>1. ASSUME NEW x PROVE x \in Pushed' <=> x \in Pushed /\ x # a /\ x # b
      <4>1. ASSUME x \in Pushed' PROVE x \in Pushed /\ x # a /\ x # b
        <5>1. PICK u \in Threads : Pushing(u)' /\ x \in Chain(u)'
          BY <4>1, PushedAreNext
        <5> QED BY <2>5, <5>1, PushedAre
      <4>2. ASSUME x \in Pushed, x # a, x # b PROVE x \in Pushed'
        <5>1. PICK u \in Threads : Pushing(u) /\ x \in Chain(u)
          BY <4>2, PushedAre
        <5>2. u # t /\ Pushing(u)'
          BY <2>3, <4>2, <5>1 DEF Pushing, LifoType
        <5>3. x \in Chain(u)'
          BY <2>5, <5>1, <5>2
        <5> QED BY <5>2, <5>3, PushedAreNext
      <4> QED BY <4>1, <4>2
    <3>2. a \in Pushed /\ b \in Pushed /\ a \notin outside /\ b \notin outside
      BY <1>2, <2>3, PushedAre DEF ChainsInv
    <3> QED BY <1>1, <3>1, <3>2 DEF Out
  <2>15. StackStep(s, r)
    <3>1. CASE a = b
      <4>1. {<<a>>[i] : i \in DOMAIN <<a>>} = {a} /\ Len(<<a>>) = 1
        OBVIOUS
      <4>2. Cardinality({a}) = 1
        BY FS_Singleton
      <4> QED BY <2>11, <2>14, <3>1, <4>1, <4>2 DEF StackStep, Pushes
    <3>2. CASE a # b
      <4>1. {<<a, b>>[i] : i \in DOMAIN <<a, b>>} = {a, b} /\ Len(<<a, b>>) = 2
        OBVIOUS
      <4>2. Cardinality({a, b}) = 2
        <5>1. IsFiniteSet({a}) /\ Cardinality({a}) = 1 /\ b \notin {a} /\ {a} \cup {b} = {a, b}
          BY <3>2, FS_Singleton
        <5> QED BY <5>1, FS_AddElement
      <4>3. Pushes(s, r, <<a, b>>)
        BY <2>11, <2>14, <3>2, <4>1, <4>2 DEF Pushes
      <4> QED BY <4>3 DEF StackStep
    <3> QED BY <3>1, <3>2
  <2> QED BY <2>4, <2>6, <2>12, <2>13, <2>15
<1> QED BY <1>3, <1>4

\* One thread pops.
OnePopper == \A p, q \in Poppers : p = q

LEMMA PopHeadSteps ==
    ASSUME LifoType, ChainsInv, NEW s, IsStack(s), PopInv(s), NEW t \in Poppers, PopHead(t)
    PROVE  LifoType' /\ ChainsInv' /\ IsStack(s)' /\ PopInv(s)' /\ StackStep(s, s)
<1>1. /\ t \in Threads /\ pc[t] \in {"idle", "pop_head"}
      /\ item' = [item EXCEPT ![t] = head]
      /\ pc' = [pc EXCEPT ![t] = IF head = Ghost THEN "idle" ELSE "pop_next"]
      /\ head' = head /\ next' = next /\ prev' = prev /\ outside' = outside /\ succ' = succ
  BY PoppersAssumption DEF PopHead, Goto
<1>2. LifoType'
  BY <1>1 DEF LifoType
<1>3. \A u \in Threads : (Pushing(u)' <=> Pushing(u)) /\ (Pushing(u) => item'[u] = item[u])
  BY <1>1 DEF LifoType, Pushing
<1>4. ChainsInv' /\ IsStack(s)' /\ Out' = Out
  BY <1>1, <1>3, ChainsKept
<1>5. head # Ghost => \E i \in 1..Len(s) : s[i] = head
  <2>1. Len(s) \in Nat /\ head = Node(Ghost, s, 1)
    BY DEF IsStack, Linked
  <2> QED BY <2>1 DEF Node
<1>6. ASSUME NEW p \in Threads
      PROVE  /\ (pc[p] = "pop_head" \/ Popping(p))' => p \in Poppers
             /\ Popping(p)' => \E i \in 1..Len(s) : s[i] = item'[p]
             /\ pc'[p] = "pop_cas" => succ'[p] = next'[item'[p]]
  <2>1. CASE p = t
    <3>1. item'[t] = head /\ pc'[t] = IF head = Ghost THEN "idle" ELSE "pop_next"
      BY <1>1 DEF LifoType
    <3> QED BY <1>5, <2>1, <3>1 DEF Popping
  <2>2. CASE p # t
    BY <1>1, <2>2 DEF LifoType, PopInv, Popping
  <2> QED BY <2>1, <2>2
<1>7. PopInv(s)'
  BY <1>6 DEF PopInv
<1> QED BY <1>2, <1>4, <1>7 DEF StackStep

LEMMA PopNextSteps ==
    ASSUME LifoType, ChainsInv, NEW s, IsStack(s), PopInv(s), NEW t \in Poppers, PopNext(t)
    PROVE  LifoType' /\ ChainsInv' /\ IsStack(s)' /\ PopInv(s)' /\ StackStep(s, s)
<1>1. /\ t \in Threads /\ pc[t] = "pop_next"
      /\ succ' = [succ EXCEPT ![t] = next[item[t]]]
      /\ pc' = [pc EXCEPT ![t] = "pop_cas"]
      /\ head' = head /\ next' = next /\ prev' = prev /\ outside' = outside /\ item' = item
  BY PoppersAssumption DEF PopNext, Goto
<1>2. LifoType'
  BY <1>1 DEF LifoType
<1>3. \A u \in Threads : (Pushing(u)' <=> Pushing(u)) /\ (Pushing(u) => item'[u] = item[u])
  BY <1>1 DEF LifoType, Pushing
<1>4. ChainsInv' /\ IsStack(s)' /\ Out' = Out
  BY <1>1, <1>3, ChainsKept
<1>5. ASSUME NEW p \in Threads
      PROVE  /\ (pc[p] = "pop_head" \/ Popping(p))' => p \in Poppers
             /\ Popping(p)' => \E i \in 1..Len(s) : s[i] = item'[p]
             /\ pc'[p] = "pop_cas" => succ'[p] = next'[item'[p]]
  <2>1. CASE p = t
    BY <1>1, <2>1 DEF LifoType, PopInv, Popping
  <2>2. CASE p # t
    BY <1>1, <2>2 DEF LifoType, PopInv, Popping
  <2> QED BY <2>1, <2>2
<1>6. PopInv(s)'
  BY <1>5 DEF PopInv
<1> QED BY <1>2, <1>4, <1>6 DEF StackStep

LEMMA PopCasSteps ==
    ASSUME OnePopper, LifoType, ChainsInv, NEW s, IsStack(s), PopInv(s), NEW t \in Poppers, PopCas(t)
    PROVE  LifoType' /\ ChainsInv' /\ \E r : IsStack(r)' /\ PopInv(r)' /\ StackStep(s, r)
<1>1. t \in Threads /\ pc[t] = "pop_cas" /\ next' = next /\ prev' = prev
  BY PoppersAssumption DEF PopCas
<1>2. CASE ~ HeadIs(item[t])
  <2>1. /\ head' = head /\ outside' = outside /\ item' = item /\ succ' = succ
        /\ pc' = [pc EXCEPT ![t] = "pop_head"]
    BY <1>2 DEF PopCas, Goto
  <2>2. LifoType'
    BY <1>1, <2>1 DEF LifoType
  <2>3. \A u \in Threads : (Pushing(u)' <=> Pushing(u)) /\ item'[u] = item[u]
    BY <1>1, <2>1 DEF LifoType, Pushing
  <2>4. ChainsInv' /\ IsStack(s)' /\ Out' = Out
    BY <1>1, <2>1, <2>3, ChainsKept
  <2>5. PopInv(s)'
    BY <1>1, <2>1 DEF LifoType, PopInv, Popping
  <2> QED BY <2>2, <2>4, <2>5 DEF StackStep
<1>3. CASE HeadIs(item[t])
  <2>1. PICK a : a = item[t]
    OBVIOUS
  <2>2. /\ head = a /\ head' = succ[t] /\ outside' = outside \cup {a}
        /\ item' = [item EXCEPT ![t] = Ghost] /\ succ' = [succ EXCEPT ![t] = Ghost]
        /\ pc' = [pc EXCEPT ![t] = "idle"]
    BY <1>3, <2>1 DEF PopCas, Goto, HeadIs
  <2>3. /\ \E i \in 1..Len(s) : s[i] = a
        /\ succ[t] = next[a]
    BY <1>1, <2>1 DEF PopInv, Popping
  <2>4. s # <<>>
    <3>1. Len(<<>>) = 0 /\ 1..0 = {}
      OBVIOUS
    <3> QED BY <2>3, <3>1
  <2>5. Linked(Items, Ghost, next, s) /\ head = Node(Ghost, s, 1)
    BY DEF IsStack
  <2>6. PICK r : r = Tail(s)
    OBVIOUS
  <2>7. /\ Len(s) \in Nat \ {0} /\ Head(s) = a /\ a = s[1] /\ a \in Items
        /\ Linked(Items, Ghost, next, r) /\ next[a] = Node(Ghost, r, 1)
        /\ \A i \in 1..Len(r) : i + 1 \in 1..Len(s) /\ i + 1 # 1 /\ r[i] = s[i + 1]
        /\ \A i \in 1..Len(s) : i # 1 => \E j \in 1..Len(r) : r[j] = s[i]
    <3>1. /\ Len(s) \in Nat \ {0} /\ Head(s) = s[1] /\ s[1] \in Items /\ Node(Ghost, s, 1) = s[1]
          /\ Linked(Items, Ghost, next, Tail(s)) /\ next[s[1]] = Node(Ghost, Tail(s), 1)
      BY <2>4, <2>5, LinkedTail
    <3>2. /\ \A i \in 1..Len(Tail(s)) : i + 1 \in 1..Len(s) /\ i + 1 # 1 /\ Tail(s)[i] = s[i + 1]
          /\ \A i \in 1..Len(s) : i # 1 => \E j \in 1..Len(Tail(s)) : Tail(s)[j] = s[i]
      BY <2>4, <2>5, LinkedTail
    <3>3. a = s[1]
      BY <2>2, <2>5, <3>1
    <3> QED BY <2>6, <3>1, <3>2, <3>3
  <2>8. LifoType'
    BY <1>1, <2>2, <2>7 DEF LifoType, Nodes
  <2>9. \A u \in Threads : (Pushing(u)' <=> Pushing(u)) /\ (Pushing(u) => item'[u] = item[u] /\ Chain(u)' = Chain(u))
    BY <1>1, <2>2 DEF LifoType, Pushing, Chain
  <2>10. 1 \in 1..Len(s) /\ \A u \in Threads : Pushing(u) => a \notin Chain(u)
    BY <2>7 DEF IsStack
  <2>11. ChainsInv'
    <3>1. ASSUME NEW u \in Threads, Pushing(u)'
          PROVE  /\ item'[u] \in Items /\ Chain(u)' \cap outside' = {}
                 /\ prev'[item'[u]] # item'[u] => next'[item'[u]] = prev'[item'[u]]
      BY <1>1, <2>2, <2>9, <2>10, <3>1 DEF ChainsInv
    <3>2. ASSUME NEW u \in Threads, NEW v \in Threads, Pushing(u)', Pushing(v)', u # v
          PROVE  Chain(u)' \cap Chain(v)' = {}
      BY <2>9, <3>2 DEF ChainsInv
    <3> QED BY <3>1, <3>2 DEF ChainsInv
  <2>12. IsStack(r)'
    <3>1. Linked(Items, Ghost, next, r)'
      BY <1>1, <2>7 DEF Linked
    <3>2. ASSUME NEW i \in 1..Len(r)
          PROVE  r[i] \notin outside' /\ \A u \in Threads : Pushing(u)' => r[i] \notin Chain(u)'
      <4>1. PICK k \in 1..Len(s) : k # 1 /\ r[i] = s[k]
        BY <2>7
      <4>2. s[k] # a
        BY <2>5, <2>7, <2>10, <4>1 DEF Linked
      <4>3. s[k] \notin outside /\ \A u \in Threads : Pushing(u) => s[k] \notin Chain(u)
        BY DEF IsStack
      <4> QED BY <2>2, <2>9, <4>1, <4>2, <4>3
    <3>3. head' = Node(Ghost, r, 1)
      BY <2>2, <2>3, <2>7
    <3> QED BY <3>1, <3>2, <3>3 DEF IsStack
  <2>13. PopInv(r)'
    <3>1. ASSUME NEW p \in Threads
          PROVE  pc'[p] # "pop_head" /\ ~ Popping(p)'
      <4>1. CASE p = t
        BY <2>2, <4>1 DEF LifoType, Popping
      <4>2. CASE p # t
        <5>1. p \notin Poppers
          BY <4>2 DEF OnePopper
        <5> QED BY <2>2, <4>2, <5>1 DEF LifoType, PopInv, Popping
      <4> QED BY <4>1, <4>2
    <3>2. \A p \in Threads : pc'[p] # "pop_cas"
      BY <3>1 DEF Popping
    <3> QED BY <3>1, <3>2 DEF PopInv
  <2>14. Out' = Out \cup {Head(s)}
    <3>1. Pushed' = Pushed
      BY <2>9, PushedAre, PushedAreNext
    <3> QED BY <2>2, <2>7, <3>1 DEF Out
  <2> QED BY <2>4, <2>6, <2>8, <2>11, <2>12, <2>13, <2>14 DEF StackStep, Pops
<1> QED BY <1>2, <1>3

LEMMA NextLifo ==
    ASSUME OnePopper, LifoType, ChainsInv, NEW s, IsStack(s), PopInv(s), [Next]_vars
    PROVE  LifoType' /\ ChainsInv' /\ \E r : IsStack(r)' /\ PopInv(r)' /\ StackStep(s, r)
<1>1. ASSUME NEW t \in Threads, PushBegin(t) \/ PushLink(t) \/ PushCas(t)
      PROVE  LifoType' /\ ChainsInv' /\ \E r : IsStack(r)' /\ PopInv(r)' /\ StackStep(s, r)
  BY <1>1, PushBeginSteps, PushLinkSteps, PushCasSteps
<1>2. ASSUME NEW t \in Poppers, PopHead(t) \/ PopNext(t) \/ PopCas(t)
      PROVE  LifoType' /\ ChainsInv' /\ \E r : IsStack(r)' /\ PopInv(r)' /\ StackStep(s, r)
  BY <1>2, PopHeadSteps, PopNextSteps, PopCasSteps
<1>3. CASE UNCHANGED vars
  <2> USE <1>3 DEF vars
  <2>1. LifoType' /\ (\A u \in Threads : (Pushing(u)' <=> Pushing(u)) /\ item'[u] = item[u])
    BY DEF LifoType, Pushing
  <2>2. ChainsInv' /\ IsStack(s)' /\ Out' = Out
    BY <2>1, ChainsKept
  <2>3. PopInv(s)'
    BY DEF PopInv, Popping
  <2> QED BY <2>1, <2>2, <2>3 DEF StackStep
<1> QED BY <1>1, <1>2, <1>3 DEF Next

LEMMA LifoInvariance == ASSUME OnePopper PROVE Spec => []LifoInv
<1>1. LifoInv /\ [Next]_vars => LifoInv'
  BY NextLifo DEF LifoInv
<1> QED BY <1>1, InitLifo, PTL DEF Spec

LEMMA ContentsAreStack == \A s : IsStack(s) => Contents = s
  BY ContentsAre DEF IsStack

LEMMA ContentsAreStackNext == (\A s : IsStack(s) => Contents = s)'
  BY ContentsAreStack, PTL

LEMMA SameCardinality == \A S : AL!Cardinality(S) = Cardinality(S)
  BY DEF AL!Cardinality, Cardinality

LEMMA LifoStepImplements == ASSUME OnePopper, LifoInv, [Next]_vars PROVE [AL!Next]_(AL!vars)
<1>1. PICK s : LifoType /\ ChainsInv /\ IsStack(s) /\ PopInv(s)
  BY DEF LifoInv
<1>2. PICK r : IsStack(r)' /\ StackStep(s, r)
  BY <1>1, NextLifo
<1>3. Contents = s /\ Contents' = r
  BY <1>1, <1>2, ContentsAreStack, ContentsAreStackNext
<1>4. CASE r = s /\ Out' = Out
  BY <1>3, <1>4 DEF AL!vars, Out
<1>5. CASE \E a, b \in Items : Pushes(s, r, <<a>>) \/ Pushes(s, r, <<a, b>>)
  <2>1. ASSUME NEW chain, Pushes(s, r, chain) PROVE AL!Push(chain)
    <3>1. PICK c : c = {chain[i] : i \in DOMAIN chain}
      OBVIOUS
    <3>2. /\ c \subseteq outside \cup Pushed /\ Cardinality(c) = Len(chain)
          /\ r = chain \o s /\ (outside \cup Pushed)' = (outside \cup Pushed) \ c
      BY <2>1, <3>1 DEF Pushes, Out
    <3> QED BY <1>3, <3>1, <3>2, SameCardinality DEF AL!Push
  <2> QED BY <1>5, <2>1 DEF AL!Next
<1>6. CASE Pops(s, r)
  <2>1. AL!Pop
    BY <1>3, <1>6 DEF Pops, AL!Pop, Out
  <2> QED BY <2>1 DEF AL!Next
<1> QED BY <1>2, <1>4, <1>5, <1>6 DEF StackStep

\* While one thread pops, the compare-and-swaps of dague_atomic_lifo_push and
\* dague_atomic_lifo_pop are atomic operations of a stack: a push puts its
\* chain on top and a pop takes the top, whatever the others do in between.
THEOREM LifoImplements == ASSUME OnePopper PROVE Spec => ImplementsAbstractLifo
<1>1. Init => AL!Init
  <2> SUFFICES ASSUME Init PROVE AL!Init
    OBVIOUS
  <2>1. <<>> \in Seq(Items) /\ Len(<<>>) = 0 /\ 1..0 = {}
    BY EmptySeq
  <2>2. Linked(Items, Ghost, next, <<>>) /\ head = Node(Ghost, <<>>, 1)
    BY <2>1 DEF Init, Linked, Node
  <2>3. Contents = <<>>
    BY <2>2, ContentsAre
  <2>4. outside \cup Pushed = Items
    BY PushedAre DEF Init, Pushing
  <2> QED BY <2>3, <2>4 DEF AL!Init
<1>2. LifoInv /\ [Next]_vars => [AL!Next]_(AL!vars)
  BY LifoStepImplements
<1> QED BY <1>1, <1>2, LifoInvariance, PTL DEF Spec, ImplementsAbstractLifo, AL!Spec

\* While one thread pops, no item is on the stack twice, or on the stack and
\* in the hands of a user or of a push: tests/unit/atomics/lifo.c finds none
\* that "appears at least twice".
THEOREM OnePopperTakesNoneTwice == ASSUME OnePopper PROVE Spec => []NoneTwice
<1>1. LifoInv => NoneTwice
  <2> SUFFICES ASSUME LifoInv PROVE NoneTwice
    OBVIOUS
  <2>1. PICK s : ChainsInv /\ IsStack(s)
    BY DEF LifoInv
  <2>2. Contents = s
    BY <2>1, ContentsAreStack
  <2>3. s \in Seq(Items) /\ \A i, j \in 1..Len(s) : s[i] = s[j] => i = j
    BY <2>1 DEF IsStack, Linked
  <2>4. PICK L \in Nat : L = Len(s) /\ DOMAIN s = 1..L
    BY <2>3
  <2>5. PICK stacked : stacked = {s[i] : i \in 1..L}
    OBVIOUS
  <2>6. Cardinality(stacked) = L
    <3>1. s \in Bijection(1..L, stacked)
      <4>1. s \in [1..L -> stacked]
        BY <2>3, <2>4, <2>5
      <4> QED BY <2>3, <2>4, <2>5, <4>1 DEF Bijection, Injection, Surjection, IsInjective
    <3>2. 1 \in Int /\ L \in Int
      BY <2>4
    <3>3. IsFiniteSet(1..L) /\ Cardinality(1..L) = IF 1 > L THEN 0 ELSE L - 1 + 1
      BY <3>2, FS_Interval
    <3>4. Cardinality(1..L) = L
      BY <2>4, <3>3
    <3> QED BY <3>1, <3>3, <3>4, FS_Bijection DEF ExistsBijection
  <2>7. stacked \cap outside = {}
    BY <2>1, <2>4, <2>5 DEF IsStack
  <2>8. Pushed \cap (outside \cup stacked) = {}
    BY <2>1, <2>4, <2>5, PushedAre DEF IsStack, ChainsInv
  <2> QED BY <2>2, <2>4, <2>5, <2>6, <2>7, <2>8 DEF NoneTwice
<1> QED BY <1>1, LifoInvariance, PTL

-----------------------------------------------------------------------------
(* The lists of ready tasks.                                               *)


\* A list without repetition, headed by a task of the highest priority.
Sound(list) ==
    /\ list \in Seq(Tasks)
    /\ \A i, j \in DOMAIN list : list[i] = list[j] => i = j
    /\ \A i \in DOMAIN list : Priority[list[i]] <= Priority[list[1]]

RingIInv == /\ ring = [w \in Releasers |-> ring[w]]
        /\ \A w \in Releasers : Sound(ring[w])

LEMMA InsertionIsSound ==
    ASSUME NEW list, Sound(list), NEW t \in Tasks, \A i \in DOMAIN list : list[i] # t,
           NEW after, after = AddByPriority(list, t, Priority)
    PROVE  Sound(after) /\ Keeps(list, after)
<1>0. list \in Seq(Tasks)  BY DEF Sound
<1>1. PICK n \in 0..Len(list) :
          /\ after = InsertAfter(list, n, t)
          /\ n = 0 => list = <<>> \/ Priority[list[1]] < Priority[t]
          /\ n > 0 => list # <<>> /\ ~(Priority[list[1]] < Priority[t])
  BY <1>0, AddByPriorityInserts, PriorityAssumption
<1>2. /\ after \in Seq(Tasks)
      /\ Len(after) = Len(list) + 1
      /\ \A i \in 1..n : after[i] = list[i]
      /\ after[n + 1] = t
      /\ \A i \in 1..Len(list) : i > n => after[i + 1] = list[i]
  <2>1. Inserted(Tasks, list, n, t, after)  BY <1>0, <1>1, InsertAfterProperties
  <2> QED  BY <2>1 DEF Inserted
<1>3. /\ Len(list) \in Nat /\ DOMAIN list = 1..Len(list)
      /\ DOMAIN after = 1..(Len(list) + 1)
      /\ Len(list) = 0 <=> list = <<>>
  BY <1>0, <1>2, LenProperties, EmptySeq
\* Where each element of the new list comes from.
<1>4. \A j \in DOMAIN after :
          \/ j \in 1..n /\ after[j] = list[j]
          \/ j = n + 1 /\ after[j] = t
          \/ j - 1 \in (n + 1)..Len(list) /\ after[j] = list[j - 1]
  <2>1. SUFFICES ASSUME NEW j \in 1..(Len(list) + 1), ~(j \in 1..n), j # n + 1
                 PROVE  j - 1 \in (n + 1)..Len(list) /\ after[j] = list[j - 1]
    BY <1>2, <1>3
  <2>2. j - 1 \in (n + 1)..Len(list) /\ (j - 1) + 1 = j  BY <1>3, <2>1
  <2>3. after[(j - 1) + 1] = list[j - 1]  BY <1>2, <2>2
  <2> QED  BY <2>2, <2>3
<1>5. ASSUME NEW i \in DOMAIN after, NEW j \in DOMAIN after, after[i] = after[j]
      PROVE  i = j
  <2>1. \A k \in 1..Len(list) : list[k] # t  BY <1>3
  <2>2. \A k, l \in 1..Len(list) : list[k] = list[l] => k = l  BY <1>3 DEF Sound
  <2> QED  BY <1>3, <1>4, <1>5, <2>1, <2>2
<1>6. ASSUME NEW j \in DOMAIN after
      PROVE  Priority[after[j]] <= Priority[after[1]]
  <2>2. \A k \in 1..Len(list) : list[k] \in Tasks  BY <1>0, ElementOfSeq
  <2>3. \A k \in 1..Len(list) : Priority[list[k]] <= Priority[list[1]]
    BY <1>3 DEF Sound
  <2>4. CASE n = 0
    <3>1. after[1] = t  BY <1>2, <2>4
    <3>2. list # <<>> => Priority[list[1]] < Priority[t]  BY <1>1, <2>4
    <3>3. CASE j = 1  BY <3>1, <3>3, PriorityAssumption
    <3>4. CASE j # 1
      <4>1. j - 1 \in 1..Len(list) /\ after[j] = list[j - 1]  BY <1>3, <1>4, <1>6, <2>4, <3>4
      <4>2. 1 \in 1..Len(list) /\ list # <<>>  BY <1>3, <4>1
      <4>3. /\ Priority[list[j - 1]] \in Int /\ Priority[list[1]] \in Int
            /\ Priority[t] \in Int
        BY <2>2, <4>1, <4>2, PriorityAssumption
      <4> QED  BY <2>3, <3>1, <3>2, <4>1, <4>2, <4>3
    <3> QED  BY <3>3, <3>4
  <2>5. CASE n > 0
    <3>1. after[1] = list[1] /\ 1 \in 1..Len(list)  BY <1>2, <1>3, <2>5
    <3>2. ~(Priority[list[1]] < Priority[t])  BY <1>1, <2>5
    <3>3. Priority[list[1]] \in Int /\ Priority[t] \in Int
      BY <2>2, <3>1, PriorityAssumption
    <3>4. CASE after[j] = t  BY <3>1, <3>2, <3>3, <3>4
    <3>5. CASE \E k \in 1..Len(list) : after[j] = list[k]  BY <2>3, <3>1, <3>5
    <3> QED  BY <1>3, <1>4, <1>6, <3>4, <3>5
  <2> QED  BY <1>3, <2>4, <2>5
<1>7. ASSUME NEW i \in DOMAIN list PROVE \E j \in DOMAIN after : after[j] = list[i]
  <2>1. CASE i \in 1..n  BY <1>2, <1>3, <2>1
  <2>2. CASE i \in (n + 1)..Len(list)
    <3>1. i + 1 \in DOMAIN after /\ after[i + 1] = list[i]  BY <1>2, <1>3, <2>2
    <3> QED  BY <3>1
  <2> QED  BY <1>3, <1>7, <2>1, <2>2
<1> QED  BY <1>2, <1>5, <1>6, <1>7 DEF Sound, Keeps

LEMMA EmptyIsSound == Sound(<<>>) /\ \A list : Keeps(list, <<>>)
  BY EmptySeq DEF Sound, Keeps

LEMMA UnchangedKeeps == ASSUME NEW list, Sound(list) PROVE Keeps(list, list)
  BY DEF Sound, Keeps

LEMMA NextRingIInv ==
    ASSUME RingIInv, [RingNext]_ring
    PROVE  RingIInv' /\ \A w \in Releasers : Keeps(ring[w], ring'[w])
<1>1. ASSUME NEW w \in Releasers, NEW t \in Tasks, Insert(w, t)
      PROVE  RingIInv' /\ \A v \in Releasers : Keeps(ring[v], ring'[v])
  <2>1. /\ ring' = [ring EXCEPT ![w] = AddByPriority(ring[w], t, Priority)]
        /\ \A i \in DOMAIN ring[w] : ring[w][i] # t
    BY <1>1 DEF Insert
  <2>2. Sound(AddByPriority(ring[w], t, Priority)) /\ Keeps(ring[w], AddByPriority(ring[w], t, Priority))
    BY <2>1, InsertionIsSound DEF RingIInv
  <2> QED  BY <2>1, <2>2, UnchangedKeeps DEF RingIInv
<1>2. ASSUME NEW w \in Releasers, Scheduled(w)
      PROVE  RingIInv' /\ \A v \in Releasers : Keeps(ring[v], ring'[v])
  BY <1>2, EmptyIsSound, UnchangedKeeps DEF RingIInv, Scheduled
<1>3. CASE UNCHANGED ring
  BY <1>3, UnchangedKeeps DEF RingIInv
<1> QED  BY <1>1, <1>2, <1>3 DEF RingNext

LEMMA RingInvariance == RingSpec => []RingIInv
<1>1. RingInit => RingIInv  BY EmptyIsSound DEF RingInit, RingIInv
<1>2. RingIInv /\ [RingNext]_ring => RingIInv'  BY NextRingIInv
<1> QED  BY <1>1, <1>2, PTL DEF RingSpec

\* The task at the head of a list of ready tasks, the first one to leave it,
\* has the highest priority of the list.
THEOREM HeadIsHighest == RingSpec => []HeadHighest
<1>1. RingIInv => HeadHighest  BY DEF RingIInv, HeadHighest, Sound
<1> QED  BY <1>1, RingInvariance, PTL

\* An insertion keeps every task of the list and lists none twice.
THEOREM InsertionLosesNothing == RingSpec => NothingLost
<1>1. RingIInv /\ [RingNext]_ring => [\A w \in Releasers : Keeps(ring[w], ring'[w])]_ring
  BY NextRingIInv
<1>2. RingSpec => [][\A w \in Releasers : Keeps(ring[w], ring'[w])]_ring
  BY <1>1, RingInvariance, PTL DEF RingSpec
<1> QED  BY <1>2 DEF NothingLost
-----------------------------------------------------------------------------
(* Doubly linked lists.                                                    *)

\* The node at place i of the ring of s and g, where g is at 0 and at the end.
At(g, s, i) == IF i \in 1..Len(s) THEN s[i] ELSE g

\* s lists the items between g and g along fw, and bw leads back.
Ring(I, g, fw, bw, s) ==
    /\ s \in Seq(I)
    /\ \A i, j \in 1..Len(s) : s[i] = s[j] => i = j
    /\ \A i \in 0..Len(s) : fw[At(g, s, i)] = At(g, s, i + 1) /\ bw[At(g, s, i + 1)] = At(g, s, i)

LEMMA RingAt ==
    ASSUME NEW I, NEW g, NEW fw, NEW bw, NEW s, Ring(I, g, fw, bw, s)
    PROVE  /\ Len(s) \in Nat /\ At(g, s, 0) = g /\ At(g, s, Len(s) + 1) = g
           /\ \A i \in 1..Len(s) : At(g, s, i) = s[i] /\ s[i] \in I
           /\ fw[g] = At(g, s, 1) /\ bw[At(g, s, 1)] = g
           /\ \A i \in 0..(Len(s) + 1) : At(g, s, i) = g \/ \E j \in 1..Len(s) : At(g, s, i) = s[j]
<1>1. s \in Seq(I) /\ Len(s) \in Nat
  BY DEF Ring
<1>2. At(g, s, 0) = g /\ At(g, s, Len(s) + 1) = g
  BY <1>1 DEF At
<1>3. \A i \in 1..Len(s) : At(g, s, i) = s[i] /\ s[i] \in I
  BY <1>1 DEF At
<1>4. fw[At(g, s, 0)] = At(g, s, 0 + 1) /\ bw[At(g, s, 0 + 1)] = At(g, s, 0) /\ 0 + 1 = 1
  BY <1>1 DEF Ring
<1>5. \A i \in 0..(Len(s) + 1) : At(g, s, i) = g \/ \E j \in 1..Len(s) : At(g, s, i) = s[j]
  BY <1>1 DEF At
<1> QED BY <1>1, <1>2, <1>3, <1>4, <1>5

LEMMA RingLinked ==
    ASSUME NEW I, NEW g, NEW fw, NEW bw, NEW s, Ring(I, g, fw, bw, s)
    PROVE  Linked(I, g, fw, s) /\ fw[g] = Node(g, s, 1)
<1>1. s \in Seq(I) /\ \A i, j \in 1..Len(s) : s[i] = s[j] => i = j
  BY DEF Ring
<1>2. \A i \in 1..(Len(s) + 1) : At(g, s, i) = Node(g, s, i)
  BY <1>1 DEF At, Node
<1>3. ASSUME NEW i \in 1..Len(s) PROVE fw[s[i]] = Node(g, s, i + 1)
  <2>1. i \in 0..Len(s) /\ i + 1 \in 1..(Len(s) + 1)
    BY <1>1
  <2>2. fw[At(g, s, i)] = At(g, s, i + 1)
    BY <2>1 DEF Ring
  <2> QED BY <1>2, <2>1, <2>2, RingAt
<1>4. fw[g] = At(g, s, 1) /\ 1 \in 1..(Len(s) + 1)
  BY <1>1, RingAt
<1> QED BY <1>1, <1>2, <1>3, <1>4 DEF Linked

LEMMA RingKept ==
    ASSUME NEW I, NEW g, NEW fw, NEW bw, NEW s, Ring(I, g, fw, bw, s), NEW fx, NEW bx,
           fx[g] = fw[g], bx[g] = bw[g],
           \A i \in 1..Len(s) : fx[s[i]] = fw[s[i]] /\ bx[s[i]] = bw[s[i]]
    PROVE  Ring(I, g, fx, bx, s)
<1>1. \A i \in 0..(Len(s) + 1) : fx[At(g, s, i)] = fw[At(g, s, i)] /\ bx[At(g, s, i)] = bw[At(g, s, i)]
  BY RingAt
<1>2. Len(s) \in Nat
  BY RingAt
<1>3. \A i \in 0..Len(s) : i \in 0..(Len(s) + 1) /\ i + 1 \in 0..(Len(s) + 1)
  BY <1>2
<1> QED BY <1>1, <1>3 DEF Ring

\* The list read from the other end.
Reversed(I, s, r) ==
    r \in Seq(I) /\ Len(r) = Len(s) /\ \A i \in 1..Len(s) : r[i] = s[Len(s) + 1 - i]

LEMMA ReversedExists == ASSUME NEW I, NEW s \in Seq(I) PROVE \E r : Reversed(I, s, r)
<1>1. PICK L \in Nat : L = Len(s)
  OBVIOUS
<1>2. PICK r : r = [i \in 1..L |-> s[L + 1 - i]]
  OBVIOUS
<1>3. \A i \in 1..L : L + 1 - i \in 1..L
  OBVIOUS
<1>4. r \in [1..L -> I]
  BY <1>1, <1>2, <1>3
<1>5. r \in Seq(I) /\ Len(r) = L
  BY <1>4
<1> QED BY <1>1, <1>2, <1>5 DEF Reversed

LEMMA ReversedBack == ASSUME NEW I, NEW s \in Seq(I), NEW r, Reversed(I, s, r) PROVE Reversed(I, r, s)
<1>1. PICK L \in Nat : L = Len(s)
  OBVIOUS
<1>2. Len(r) = L /\ \A i \in 1..L : r[i] = s[L + 1 - i]
  BY <1>1 DEF Reversed
<1>3. \A i \in 1..L : L + 1 - i \in 1..L /\ L + 1 - (L + 1 - i) = i
  OBVIOUS
<1> QED BY <1>1, <1>2, <1>3 DEF Reversed

LEMMA RingReversed ==
    ASSUME NEW I, NEW g, NEW fw, NEW bw, NEW s, Ring(I, g, fw, bw, s), NEW r, Reversed(I, s, r)
    PROVE  Ring(I, g, bw, fw, r)
<1>1. PICK L \in Nat : L = Len(s)
  BY RingAt
<1>2. s \in Seq(I) /\ r \in Seq(I) /\ Len(r) = L /\ \A i \in 1..L : r[i] = s[L + 1 - i]
  BY <1>1 DEF Ring, Reversed
<1>3. \A i, j \in 1..L : r[i] = r[j] => i = j
  <2> TAKE i, j \in 1..L
  <2> HAVE r[i] = r[j]
  <2>1. L + 1 - i \in 1..L /\ L + 1 - j \in 1..L /\ s[L + 1 - i] = s[L + 1 - j]
    BY <1>2
  <2>2. L + 1 - i = L + 1 - j
    BY <1>1, <2>1 DEF Ring
  <2> QED BY <2>2
<1>4. \A i \in 0..(L + 1) : At(g, r, i) = At(g, s, L + 1 - i)
  BY <1>1, <1>2 DEF At
<1>5. ASSUME NEW i \in 0..L
      PROVE  bw[At(g, r, i)] = At(g, r, i + 1) /\ fw[At(g, r, i + 1)] = At(g, r, i)
  <2>1. /\ L - i \in 0..L /\ (L - i) + 1 = L + 1 - i /\ L + 1 - (i + 1) = L - i
        /\ i \in 0..(L + 1) /\ i + 1 \in 0..(L + 1)
    OBVIOUS
  <2>2. fw[At(g, s, L - i)] = At(g, s, L + 1 - i) /\ bw[At(g, s, L + 1 - i)] = At(g, s, L - i)
    BY <1>1, <2>1 DEF Ring
  <2>3. At(g, r, i) = At(g, s, L + 1 - i) /\ At(g, r, i + 1) = At(g, s, L - i)
    BY <1>4, <2>1
  <2> QED BY <2>2, <2>3
<1> QED BY <1>2, <1>3, <1>5 DEF Ring

\* r is s behind the nodes o and n, or behind o alone when they are the same.
Behind(I, o, n, s, r) ==
    \E c \in {1, 2} :
      /\ r \in Seq(I) /\ Len(r) = Len(s) + c
      /\ r[1] = o /\ r[c] = n /\ (c = 1 <=> o = n)
      /\ \A i \in 1..Len(s) : r[i + c] = s[i]

\* Two writes put the nodes between g and the rest.
LEMMA RingPush ==
    ASSUME NEW I, NEW g, g \notin I, NEW fw, NEW bw, NEW s, Ring(I, g, fw, bw, s),
           NEW o \in I, NEW n \in I, \A i \in 1..Len(s) : s[i] # o /\ s[i] # n,
           NEW fx, NEW bx, NEW r, Behind(I, o, n, s, r),
           fx[g] = o, bx[o] = g, o # n => fx[o] = n /\ bx[n] = o,
           fx[n] = At(g, s, 1), bx[At(g, s, 1)] = n,
           \A i \in 1..Len(s) : fx[s[i]] = fw[s[i]],
           \A i \in 1..Len(s) : bx[At(g, s, i + 1)] = bw[At(g, s, i + 1)]
    PROVE  Ring(I, g, fx, bx, r)
<1>1. PICK L \in Nat : L = Len(s)
  BY RingAt
<1>2. PICK c \in {1, 2} :
        /\ r \in Seq(I) /\ Len(r) = L + c
        /\ r[1] = o /\ r[c] = n /\ (c = 1 <=> o = n)
        /\ \A i \in 1..L : r[i + c] = s[i]
  BY <1>1 DEF Behind
<1>3. /\ At(g, r, 0) = g /\ At(g, r, 1) = o /\ At(g, r, c) = n
      /\ \A i \in 1..(L + 1) : At(g, r, i + c) = At(g, s, i)
  BY <1>1, <1>2 DEF At
<1>4. \A i, j \in 1..L : s[i] = s[j] => i = j
  BY <1>1 DEF Ring
<1>5. \A i \in 1..(L + c) : i <= c \/ (i - c \in 1..L /\ r[i] = s[i - c])
  <2> TAKE i \in 1..(L + c)
  <2>1. CASE i <= c
    BY <2>1
  <2>2. CASE ~ (i <= c)
    <3>1. i - c \in 1..L /\ (i - c) + c = i
      BY <2>2
    <3> QED BY <1>2, <3>1
  <2> QED BY <2>1, <2>2
<1>6. \A i, j \in 1..(L + c) : r[i] = r[j] => i = j
  <2> TAKE i, j \in 1..(L + c)
  <2> HAVE r[i] = r[j]
  <2>1. \A k \in 1..(L + c) : k <= c => (k = 1 /\ r[k] = o) \/ (k = 2 /\ c = 2 /\ r[k] = n /\ o # n)
    BY <1>2
  <2>2. CASE i <= c /\ j <= c
    BY <2>1, <2>2
  <2>3. CASE i <= c /\ ~ (j <= c)
    BY <1>1, <1>5, <2>1, <2>3
  <2>4. CASE ~ (i <= c) /\ j <= c
    BY <1>1, <1>5, <2>1, <2>4
  <2>5. CASE ~ (i <= c) /\ ~ (j <= c)
    <3>1. i - c \in 1..L /\ j - c \in 1..L /\ s[i - c] = s[j - c]
      BY <1>5, <2>5
    <3>2. i - c = j - c
      BY <1>4, <3>1
    <3> QED BY <3>2
  <2> QED BY <2>2, <2>3, <2>4, <2>5
<1>7. ASSUME NEW i \in 0..(L + c)
      PROVE  fx[At(g, r, i)] = At(g, r, i + 1) /\ bx[At(g, r, i + 1)] = At(g, r, i)
  <2>1. CASE i = 0
    BY <1>3, <2>1
  <2>2. CASE i = 1 /\ c = 2
    BY <1>2, <1>3, <2>2
  <2>3. CASE i = c
    <3>1. 1 \in 1..(L + 1) /\ i + 1 = 1 + c
      BY <2>3
    <3> QED BY <1>3, <2>3, <3>1
  <2>4. CASE i > c
    <3>1. PICK k \in 1..L : k = i - c
      BY <2>4
    <3>2. /\ k \in 1..(L + 1) /\ k + 1 \in 1..(L + 1) /\ k + c = i /\ (k + 1) + c = i + 1 /\ k \in 0..L
      BY <3>1
    <3>3. At(g, r, i) = At(g, s, k) /\ At(g, r, i + 1) = At(g, s, k + 1)
      BY <1>3, <3>2
    <3>4. At(g, s, k) = s[k]
      BY <1>1, RingAt
    <3>5. fw[At(g, s, k)] = At(g, s, k + 1) /\ bw[At(g, s, k + 1)] = At(g, s, k)
      BY <1>1, <3>2 DEF Ring
    <3> QED BY <1>1, <3>3, <3>4, <3>5
  <2> QED BY <2>1, <2>2, <2>3, <2>4
<1> QED BY <1>2, <1>6, <1>7 DEF Ring

\* r is s without its first node.
Without(I, s, r) ==
    r \in Seq(I) /\ Len(s) = Len(r) + 1 /\ \A i \in 1..Len(r) : r[i] = s[i + 1]

\* Two writes take the first node out.
LEMMA RingPop ==
    ASSUME NEW I, NEW g, NEW fw, NEW bw, NEW s, Ring(I, g, fw, bw, s),
           NEW fx, NEW bx, NEW r, Without(I, s, r),
           fx[g] = fw[At(g, s, 1)], bx[fw[At(g, s, 1)]] = g,
           \A i \in 2..Len(s) : fx[s[i]] = fw[s[i]],
           \A i \in 2..Len(s) : bx[At(g, s, i + 1)] = bw[At(g, s, i + 1)]
    PROVE  Ring(I, g, fx, bx, r)
<1>1. PICK L \in Nat : L = Len(r)
  BY DEF Without
<1>2. Len(s) = L + 1 /\ r \in Seq(I) /\ \A i \in 1..L : r[i] = s[i + 1]
  BY <1>1 DEF Without
<1>3. \A i \in 1..(L + 1) : At(g, r, i) = At(g, s, i + 1)
  BY <1>1, <1>2 DEF At
<1>4. \A i, j \in 1..L : r[i] = r[j] => i = j
  <2> TAKE i, j \in 1..L
  <2> HAVE r[i] = r[j]
  <2>1. i + 1 \in 1..(L + 1) /\ j + 1 \in 1..(L + 1) /\ s[i + 1] = s[j + 1]
    BY <1>2
  <2>2. i + 1 = j + 1
    BY <1>2, <2>1 DEF Ring
  <2> QED BY <2>2
<1>5. At(g, r, 0) = g
  BY <1>1 DEF At
<1>6. fw[At(g, s, 1)] = At(g, s, 2)
  <2>1. 1 \in 0..Len(s) /\ 1 + 1 = 2
    BY <1>2
  <2> QED BY <2>1 DEF Ring
<1>7. ASSUME NEW i \in 0..L
      PROVE  fx[At(g, r, i)] = At(g, r, i + 1) /\ bx[At(g, r, i + 1)] = At(g, r, i)
  <2>1. CASE i = 0
    <3>1. At(g, r, 1) = At(g, s, 2)
      BY <1>3
    <3> QED BY <1>5, <1>6, <2>1, <3>1
  <2>2. CASE i # 0
    <3>1. i + 1 \in 2..Len(s) /\ i + 1 \in 0..Len(s) /\ i \in 1..(L + 1) /\ i + 1 \in 1..(L + 1) /\ i + 1 \in 1..Len(s)
      BY <1>2, <2>2
    <3>2. At(g, r, i) = At(g, s, i + 1) /\ At(g, r, i + 1) = At(g, s, (i + 1) + 1)
      BY <1>3, <3>1
    <3>3. At(g, s, i + 1) = s[i + 1]
      BY <3>1 DEF At
    <3>4. fw[At(g, s, i + 1)] = At(g, s, (i + 1) + 1) /\ bw[At(g, s, (i + 1) + 1)] = At(g, s, i + 1)
      BY <3>1 DEF Ring
    <3> QED BY <3>1, <3>2, <3>3, <3>4
  <2> QED BY <2>1, <2>2
<1> QED BY <1>1, <1>2, <1>4, <1>7 DEF Ring

\* A list with one or two items more at an end, and with one less.
Grown(s, r, chain) == r = chain \o s \/ r = s \o chain
Shrunk(s, r, x) ==
    /\ s # <<>>
    /\ \/ r = Tail(s) /\ x = Head(s)
       \/ r = SubSeq(s, 1, Len(s) - 1) /\ x = s[Len(s)]

\* The list s as it is read from the end e.
View(I, e, s, q) == IF e = "front" THEN q = s /\ s \in Seq(I) ELSE Reversed(I, s, q) /\ s \in Seq(I)

LEMMA ViewExists == ASSUME NEW I, NEW e, NEW s \in Seq(I) PROVE \E q : View(I, e, s, q)
  BY ReversedExists DEF View

LEMMA ViewSizes ==
    ASSUME NEW I, NEW e, NEW s, NEW q, View(I, e, s, q)
    PROVE  s \in Seq(I) /\ q \in Seq(I) /\ Len(q) = Len(s) /\ Len(s) \in Nat
<1>1. s \in Seq(I) /\ q \in Seq(I) /\ Len(q) = Len(s)
  BY DEF View, Reversed
<1> QED BY <1>1

\* Each element of q is one of s.
Among(q, s) == \A i \in 1..Len(q) : \E j \in 1..Len(s) : q[i] = s[j]

LEMMA ViewAmong ==
    ASSUME NEW I, NEW e, NEW s, NEW q, View(I, e, s, q)
    PROVE  Among(q, s) /\ Among(s, q)
<1>1. PICK L \in Nat : L = Len(s) /\ L = Len(q)
  BY ViewSizes
<1>2. (\A i \in 1..L : q[i] = s[i]) \/ (\A i \in 1..L : q[i] = s[L + 1 - i])
  BY <1>1 DEF View, Reversed
<1>3. \A i \in 1..L : L + 1 - i \in 1..L /\ L + 1 - (L + 1 - i) = i
  OBVIOUS
<1>4. (\A i \in 1..L : \E j \in 1..L : q[i] = s[j]) /\ (\A j \in 1..L : \E i \in 1..L : s[j] = q[i])
  BY <1>2, <1>3
<1> QED BY <1>1, <1>4 DEF Among

LEMMA FrontExists ==
    ASSUME NEW I, NEW s \in Seq(I), NEW o \in I, NEW n \in I
    PROVE  \E r : /\ Behind(I, o, n, s, r)
                  /\ (o = n /\ r = <<o>> \o s) \/ (o # n /\ r = <<o, n>> \o s)
<1>1. PICK L \in Nat : L = Len(s)
  OBVIOUS
<1>2. CASE o = n
  <2>1. PICK r : r = <<o>> \o s
    OBVIOUS
  <2>2. r \in Seq(I) /\ Len(r) = L + 1 /\ r[1] = o /\ \A i \in 1..L : r[i + 1] = s[i]
    BY <1>1, <2>1
  <2>3. Behind(I, o, n, s, r)
    BY <1>1, <1>2, <2>2 DEF Behind
  <2> QED BY <1>2, <2>1, <2>3
<1>3. CASE o # n
  <2>1. PICK r : r = <<o, n>> \o s
    OBVIOUS
  <2>2. r \in Seq(I) /\ Len(r) = L + 2 /\ r[1] = o /\ r[2] = n /\ \A i \in 1..L : r[i + 2] = s[i]
    BY <1>1, <2>1
  <2>3. Behind(I, o, n, s, r)
    BY <1>1, <1>3, <2>2 DEF Behind
  <2> QED BY <1>3, <2>1, <2>3
<1> QED BY <1>2, <1>3

LEMMA BackExists ==
    ASSUME NEW I, NEW s \in Seq(I), NEW q, Reversed(I, s, q), NEW o \in I, NEW n \in I
    PROVE  \E p, r : /\ Behind(I, o, n, q, p) /\ Reversed(I, r, p) /\ r \in Seq(I)
                     /\ (o = n /\ r = s \o <<o>>) \/ (o # n /\ r = s \o <<n, o>>)
<1>1. PICK L \in Nat : L = Len(s)
  OBVIOUS
<1>2. Len(q) = L /\ \A i \in 1..L : q[i] = s[L + 1 - i]
  BY <1>1 DEF Reversed
<1>3. CASE o = n
  <2>1. PICK r : r = s \o <<o>>
    OBVIOUS
  <2>2. r \in Seq(I) /\ Len(r) = L + 1 /\ r[L + 1] = o /\ \A i \in 1..L : r[i] = s[i]
    BY <1>1, <2>1
  <2>3. PICK p : Reversed(I, r, p)
    BY <2>2, ReversedExists
  <2>4. p \in Seq(I) /\ Len(p) = L + 1 /\ \A i \in 1..(L + 1) : p[i] = r[L + 1 + 1 - i]
    BY <2>2, <2>3 DEF Reversed
  <2>5. p[1] = o
    BY <2>2, <2>4
  <2>6. ASSUME NEW i \in 1..L PROVE p[i + 1] = q[i]
    <3>1. i + 1 \in 1..(L + 1) /\ L + 1 + 1 - (i + 1) = L + 1 - i /\ L + 1 - i \in 1..L
      OBVIOUS
    <3> QED BY <1>2, <2>2, <2>4, <3>1
  <2>7. Behind(I, o, n, q, p)
    BY <1>2, <1>3, <2>4, <2>5, <2>6 DEF Behind
  <2> QED BY <1>3, <2>1, <2>2, <2>3, <2>7
<1>4. CASE o # n
  <2>1. PICK r : r = s \o <<n, o>>
    OBVIOUS
  <2>2. r \in Seq(I) /\ Len(r) = L + 2 /\ r[L + 2] = o /\ r[L + 1] = n /\ \A i \in 1..L : r[i] = s[i]
    BY <1>1, <2>1
  <2>3. PICK p : Reversed(I, r, p)
    BY <2>2, ReversedExists
  <2>4. p \in Seq(I) /\ Len(p) = L + 2 /\ \A i \in 1..(L + 2) : p[i] = r[L + 2 + 1 - i]
    BY <2>2, <2>3 DEF Reversed
  <2>5. p[1] = o /\ p[2] = n
    <3>1. 1 \in 1..(L + 2) /\ L + 2 + 1 - 1 = L + 2 /\ 2 \in 1..(L + 2) /\ L + 2 + 1 - 2 = L + 1
      OBVIOUS
    <3> QED BY <2>2, <2>4, <3>1
  <2>6. ASSUME NEW i \in 1..L PROVE p[i + 2] = q[i]
    <3>1. i + 2 \in 1..(L + 2) /\ L + 2 + 1 - (i + 2) = L + 1 - i /\ L + 1 - i \in 1..L
      OBVIOUS
    <3> QED BY <1>2, <2>2, <2>4, <3>1
  <2>7. Behind(I, o, n, q, p)
    BY <1>2, <1>4, <2>4, <2>5, <2>6 DEF Behind
  <2> QED BY <1>4, <2>1, <2>2, <2>3, <2>7
<1> QED BY <1>3, <1>4

\* A push at the end e: o goes next to the ghost, n next to the rest.
LEMMA GrownExists ==
    ASSUME NEW I, NEW e, NEW s \in Seq(I), NEW q, View(I, e, s, q), NEW o \in I, NEW n \in I
    PROVE  \E p, r : /\ Behind(I, o, n, q, p) /\ View(I, e, r, p)
                     /\ \/ o = n /\ Grown(s, r, <<o>>)
                        \/ o # n /\ Grown(s, r, IF e = "front" THEN <<o, n>> ELSE <<n, o>>)
<1>1. CASE e = "front"
  <2>1. q = s
    BY <1>1 DEF View
  <2>2. PICK r : /\ Behind(I, o, n, s, r)
                 /\ (o = n /\ r = <<o>> \o s) \/ (o # n /\ r = <<o, n>> \o s)
    BY FrontExists
  <2>3. View(I, e, r, r)
    BY <1>1, <2>2 DEF View, Behind
  <2> QED BY <1>1, <2>1, <2>2, <2>3 DEF Grown
<1>2. CASE e # "front"
  <2>1. Reversed(I, s, q)
    BY <1>2 DEF View
  <2>2. PICK p, r : /\ Behind(I, o, n, q, p) /\ Reversed(I, r, p) /\ r \in Seq(I)
                    /\ (o = n /\ r = s \o <<o>>) \/ (o # n /\ r = s \o <<n, o>>)
    BY <2>1, BackExists
  <2>3. View(I, e, r, p)
    BY <1>2, <2>2 DEF View
  <2> QED BY <1>2, <2>2, <2>3 DEF Grown
<1> QED BY <1>1, <1>2

\* A pop at the end e.
LEMMA ShrunkExists ==
    ASSUME NEW I, NEW e, NEW s \in Seq(I), s # <<>>, NEW q, View(I, e, s, q)
    PROVE  \E p, r : Without(I, q, p) /\ View(I, e, r, p) /\ Shrunk(s, r, q[1])
<1>1. PICK L \in Nat : L = Len(s)
  OBVIOUS
<1>2. L # 0 /\ q \in Seq(I) /\ Len(q) = L
  BY <1>1, EmptySeq, ViewSizes
<1>3. CASE e = "front"
  <2>1. q = s
    BY <1>3 DEF View
  <2>2. PICK r : r = Tail(s)
    OBVIOUS
  <2>3. /\ r \in Seq(I) /\ Len(r) = Len(s) - 1 /\ \A i \in 1..Len(r) : r[i] = s[i + 1]
    BY <2>2, HeadTailProperties
  <2>4. Head(s) = s[1]
    OBVIOUS
  <2>5. Without(I, q, r)
    BY <1>1, <1>2, <2>1, <2>3 DEF Without
  <2>6. View(I, e, r, r)
    BY <1>3, <2>3 DEF View
  <2>7. Shrunk(s, r, q[1])
    BY <2>1, <2>2, <2>4 DEF Shrunk
  <2> QED BY <2>5, <2>6, <2>7
<1>4. CASE e # "front"
  <2>1. \A i \in 1..L : q[i] = s[L + 1 - i]
    BY <1>1, <1>4 DEF View, Reversed
  <2>2. PICK r : r = SubSeq(s, 1, L - 1)
    OBVIOUS
  <2>3. r \in Seq(I) /\ Len(r) = L - 1 /\ \A i \in 1..(L - 1) : r[i] = s[i]
    BY <1>1, <1>2, <2>2
  <2>4. PICK p : Reversed(I, r, p)
    BY <2>3, ReversedExists
  <2>5. p \in Seq(I) /\ Len(p) = L - 1 /\ \A i \in 1..(L - 1) : p[i] = r[L - 1 + 1 - i]
    BY <2>3, <2>4 DEF Reversed
  <2>6. ASSUME NEW i \in 1..(L - 1) PROVE p[i] = q[i + 1]
    <3>1. /\ L - 1 + 1 - i = L - i /\ L - i \in 1..(L - 1)
          /\ i + 1 \in 1..L /\ L + 1 - (i + 1) = L - i
      OBVIOUS
    <3> QED BY <2>1, <2>3, <2>5, <3>1
  <2>7. Without(I, q, p)
    BY <1>2, <2>5, <2>6 DEF Without
  <2>8. View(I, e, r, p)
    BY <1>4, <2>3, <2>4 DEF View
  <2>9. q[1] = s[L]
    BY <1>2, <2>1
  <2>10. Shrunk(s, r, q[1])
    BY <1>1, <2>2, <2>9 DEF Shrunk
  <2> QED BY <2>7, <2>8, <2>10
<1> QED BY <1>3, <1>4

LEMMA BehindElements ==
    ASSUME NEW I, NEW o, NEW n, NEW s \in Seq(I), NEW r, Behind(I, o, n, s, r)
    PROVE  \A j \in 1..Len(r) : r[j] = o \/ r[j] = n \/ \E i \in 1..Len(s) : r[j] = s[i]
<1>1. PICK L \in Nat : L = Len(s)
  OBVIOUS
<1>2. PICK c \in {1, 2} :
        /\ Len(r) = L + c /\ r[1] = o /\ r[c] = n
        /\ \A i \in 1..L : r[i + c] = s[i]
  BY <1>1 DEF Behind
<1>3. ASSUME NEW j \in 1..(L + c)
      PROVE  r[j] = o \/ r[j] = n \/ \E i \in 1..L : r[j] = s[i]
  <2>1. CASE j <= c
    BY <1>2, <2>1
  <2>2. CASE ~ (j <= c)
    <3>1. j - c \in 1..L /\ (j - c) + c = j
      BY <2>2
    <3> QED BY <1>2, <3>1
  <2> QED BY <2>1, <2>2
<1> QED BY <1>1, <1>2, <1>3

-----------------------------------------------------------------------------
(* The dequeue.                                                            *)

\* The items of a thread between the begin of a push and the write that makes
\* them visible, and between the write that takes an item and the return.
Filling(t) == pc[t] \in {"lock", "push_inner", "push_outer"}
Hands(t) == IF Filling(t) \/ pc[t] = "pop_unlock" THEN {first[t], last[t]} \ {Ghost} ELSE {}
Locked(t) ==
    pc[t] \in {"push_inner", "push_outer", "push_unlock", "pop_read", "pop_unlink", "pop_unlock"}

DequeType ==
    /\ link \in [{"next", "prev"} -> [Nodes -> Nodes]]
    /\ outside \in SUBSET Items
    /\ pc \in [Threads -> {"idle", "lock", "push_inner", "push_outer", "push_unlock",
                           "pop_read", "pop_unlink", "pop_unlock"}]
    /\ end \in [Threads -> {"front", "back"}]
    /\ first \in [Threads -> Nodes]
    /\ last \in [Threads -> Nodes]

LockInv == \A t \in Threads : Locked(t) => lock = t

\* What is in a hand is nowhere else.
HandsInv ==
    /\ \A t \in Threads : Hands(t) \cap outside = {}
    /\ \A t, u \in Threads : t # u => Hands(t) \cap Hands(u) = {}

\* What a thread has linked and what it has read stays as it is.
LinkFacts(t) ==
    /\ Filling(t) =>
         /\ first[t] \in Items /\ last[t] \in Items
         /\ first[t] # last[t] => link["next"][first[t]] = last[t] /\ link["prev"][last[t]] = first[t]
         /\ link[Back(end[t])][Outer(t)] = Ghost
    /\ pc[t] = "push_outer" => link[In(end[t])][Inner(t)] = link[In(end[t])][Ghost]
    /\ pc[t] = "pop_unlink" => first[t] = link[In(end[t])][Ghost]
    /\ pc[t] \in {"idle", "pop_read", "pop_unlink", "pop_unlock"} => last[t] = Ghost
LinksInv == \A t \in Threads : LinkFacts(t)

\* The links make a ring of the ghost and the items of s, which are nobody's.
IsDeque(s) ==
    /\ Ring(Items, Ghost, link["next"], link["prev"], s)
    /\ \A i \in 1..Len(s) : s[i] \notin outside /\ \A t \in Threads : s[i] \notin Hands(t)

DequeInv == DequeType /\ LockInv /\ HandsInv /\ LinksInv /\ \E s : IsDeque(s)

InHands == UNION {Hands(t) : t \in Threads}
OutDeque == outside \cup InHands

DequeStep(s, r) ==
    \/ r = s /\ OutDeque' = OutDeque
    \/ \E a, b \in Items :
         \/ a = b /\ a \in OutDeque /\ Grown(s, r, <<a>>) /\ OutDeque' = OutDeque \ {a}
         \/ a # b /\ {a, b} \subseteq OutDeque /\ Grown(s, r, <<a, b>>) /\ OutDeque' = OutDeque \ {a, b}
    \/ \E x : Shrunk(s, r, x) /\ OutDeque' = OutDeque \cup {x}

LEMMA Directions ==
    /\ In("front") = "next" /\ In("back") = "prev"
    /\ Back("front") = "prev" /\ Back("back") = "next"
    /\ \A e \in {"front", "back"} : In(e) \in {"next", "prev"} /\ Back(e) \in {"next", "prev"} /\ In(e) # Back(e)
  BY DEF In, Back

LEMMA InitDeque == DequeueInit /\ Ghost \notin Items => DequeInv /\ IsDeque(<<>>)
<1> SUFFICES ASSUME DequeueInit, Ghost \notin Items PROVE DequeInv /\ IsDeque(<<>>)
  OBVIOUS
<1>1. DequeType
  BY DEF DequeueInit, DequeType, Nodes, Nodes
<1>2. LockInv
  BY DEF DequeueInit, LockInv, Locked
<1>3. \A t \in Threads : Hands(t) = {}
  BY DEF DequeueInit, Hands, Filling
<1>4. LinksInv
  BY DEF DequeueInit, LinksInv, LinkFacts, Filling
<1>5. IsDeque(<<>>)
  <2>1. <<>> \in Seq(Items) /\ Len(<<>>) = 0 /\ 1..0 = {} /\ 0..0 = {0}
    BY EmptySeq
  <2>2. link["next"][Ghost] = Ghost /\ link["prev"][Ghost] = Ghost
    BY DEF DequeueInit, Nodes
  <2>3. At(Ghost, <<>>, 0) = Ghost /\ At(Ghost, <<>>, 0 + 1) = Ghost
    BY <2>1 DEF At
  <2>4. Ring(Items, Ghost, link["next"], link["prev"], <<>>)
    BY <2>1, <2>2, <2>3 DEF Ring
  <2> QED BY <2>1, <2>4 DEF IsDeque
<1> QED BY <1>1, <1>2, <1>3, <1>4, <1>5 DEF DequeInv, HandsInv

\* A step of t that leaves the list as it is, and what is in hand.
LEMMA QuietStep ==
    ASSUME DequeType, HandsInv, NEW s, IsDeque(s), outside' = outside,
           \A u \in Threads : Hands(u)' = Hands(u),
           \A d \in {"next", "prev"} : link'[d][Ghost] = link[d][Ghost],
           \A d \in {"next", "prev"}, i \in 1..Len(s) : link'[d][s[i]] = link[d][s[i]]
    PROVE  HandsInv' /\ IsDeque(s)' /\ DequeStep(s, s)
<1>1. HandsInv'
  BY DEF HandsInv
<1>2. IsDeque(s)'
  <2>1. Ring(Items, Ghost, link'["next"], link'["prev"], s)
    BY RingKept DEF IsDeque
  <2> QED BY <2>1 DEF IsDeque, Ring, At
<1>3. InHands' = InHands
  BY DEF InHands
<1> QED BY <1>1, <1>2, <1>3 DEF DequeStep, OutDeque

\* A step of another thread leaves the facts about u as they are.
LEMMA OthersLinks ==
    ASSUME DequeType, NEW u \in Threads, LinkFacts(u), Ghost \notin Items,
           pc'[u] = pc[u], end'[u] = end[u], first'[u] = first[u], last'[u] = last[u],
           \A d \in {"next", "prev"}, i \in Hands(u) : link'[d][i] = link[d][i],
           Locked(u) => \A d \in {"next", "prev"} : link'[d][Ghost] = link[d][Ghost]
    PROVE  LinkFacts(u)' /\ Hands(u)' = Hands(u) /\ (Locked(u)' <=> Locked(u))
<1>1. Hands(u)' = Hands(u) /\ (Filling(u)' <=> Filling(u)) /\ (Locked(u)' <=> Locked(u))
  BY DEF Hands, Filling, Locked
<1>2. PICK e \in {"front", "back"} : e = end[u]
  BY DEF DequeType
<1>3. Outer(u)' = Outer(u) /\ Inner(u)' = Inner(u)
  BY DEF Outer, Inner
<1>4. Filling(u) => /\ first[u] \in Hands(u) /\ last[u] \in Hands(u)
                    /\ Outer(u) \in Hands(u) /\ Inner(u) \in Hands(u)
  BY DEF Hands, LinkFacts, Outer, Inner
<1>5. ASSUME Filling(u)'
      PROVE  /\ first'[u] \in Items /\ last'[u] \in Items
             /\ first'[u] # last'[u] => link'["next"][first'[u]] = last'[u] /\ link'["prev"][last'[u]] = first'[u]
             /\ link'[Back(end'[u])][Outer(u)'] = Ghost
  BY <1>1, <1>2, <1>3, <1>4, <1>5, Directions DEF LinkFacts
<1>6. ASSUME pc'[u] = "push_outer"
      PROVE  link'[In(end'[u])][Inner(u)'] = link'[In(end'[u])][Ghost]
  <2>1. Filling(u) /\ Locked(u)
    BY <1>6 DEF Filling, Locked
  <2> QED BY <1>2, <1>3, <1>4, <1>6, <2>1, Directions DEF LinkFacts
<1>7. ASSUME pc'[u] = "pop_unlink" PROVE first'[u] = link'[In(end'[u])][Ghost]
  <2>1. Locked(u)
    BY <1>7 DEF Locked
  <2> QED BY <1>2, <1>7, <2>1, Directions DEF LinkFacts
<1>8. pc'[u] \in {"idle", "pop_read", "pop_unlink", "pop_unlock"} => last'[u] = Ghost
  BY DEF LinkFacts
<1> QED BY <1>1, <1>5, <1>6, <1>7, <1>8 DEF LinkFacts

\* What a step of t must show about the others and about itself.
LEMMA AllLinks ==
    ASSUME NEW t \in Threads, LinkFacts(t)', \A u \in Threads : u # t => LinkFacts(u)'
    PROVE  LinksInv'
  BY DEF LinksInv

LEMMA DqPushBegin ==
    ASSUME DequeType, LockInv, HandsInv, LinksInv, Ghost \notin Items,
           NEW s, IsDeque(s), NEW t \in Threads, PushRing(t)
    PROVE  DequeType' /\ LockInv' /\ HandsInv' /\ LinksInv' /\ IsDeque(s)' /\ DequeStep(s, s)
<1>0. pc[t] = "idle" /\ pc' = [pc EXCEPT ![t] = "lock"] /\ lock' = lock
  BY DEF PushRing, Goto
<1>1. PICK a \in outside, b \in outside, e \in {"front", "back"} :
        /\ outside' = outside \ {a, b}
        /\ end' = [end EXCEPT ![t] = e]
        /\ first' = [first EXCEPT ![t] = a]
        /\ last' = [last EXCEPT ![t] = b]
        /\ link' = [[link EXCEPT !["next"][a] = b, !["next"][b] = a,
                                 !["prev"][a] = b, !["prev"][b] = a]
                       EXCEPT ![Back(e)][IF e = "front" THEN a ELSE b] = Ghost]
  BY Zenon DEF PushRing, Ends
<1>2. a \in Items /\ b \in Items /\ a # Ghost /\ b # Ghost
  BY DEF DequeType
<1>3. /\ link' \in [{"next", "prev"} -> [Nodes -> Nodes]]
      /\ \A d \in {"next", "prev"}, i \in Nodes : i # a /\ i # b => link'[d][i] = link[d][i]
      /\ e = "front" => link'["prev"][a] = Ghost
      /\ e = "back" => link'["next"][b] = Ghost
      /\ a # b => link'["next"][a] = b /\ link'["prev"][b] = a
  <2>1. PICK linked : linked = [link EXCEPT !["next"][a] = b, !["next"][b] = a,
                                        !["prev"][a] = b, !["prev"][b] = a]
    OBVIOUS
  <2>2. /\ linked \in [{"next", "prev"} -> [Nodes -> Nodes]]
        /\ linked["next"][a] = b /\ linked["next"][b] = a /\ linked["prev"][a] = b /\ linked["prev"][b] = a
        /\ \A d \in {"next", "prev"}, i \in Nodes : i # a /\ i # b => linked[d][i] = link[d][i]
    BY <1>2, <2>1 DEF DequeType, Nodes
  <2>3. CASE e = "front"
    <3>1. link' = [linked EXCEPT !["prev"][a] = Ghost]
      BY <1>1, <2>1, <2>3, Directions
    <3> QED BY <1>2, <2>2, <2>3, <3>1 DEF Nodes
  <2>4. CASE e = "back"
    <3>1. link' = [linked EXCEPT !["next"][b] = Ghost]
      BY <1>1, <2>1, <2>4, Directions
    <3> QED BY <1>2, <2>2, <2>4, <3>1 DEF Nodes
  <2> QED BY <2>3, <2>4
<1>4. DequeType'
  BY <1>0, <1>1, <1>2, <1>3 DEF DequeType, Nodes
<1>5. /\ pc'[t] = "lock" /\ first'[t] = a /\ last'[t] = b /\ end'[t] = e
      /\ \A u \in Threads : u # t =>
           pc'[u] = pc[u] /\ end'[u] = end[u] /\ first'[u] = first[u] /\ last'[u] = last[u]
  BY <1>0, <1>1 DEF DequeType
<1>6. Hands(t)' = {a, b} /\ Hands(t) = {}
  BY <1>0, <1>2, <1>5 DEF Hands, Filling
<1>7. ASSUME NEW u \in Threads, u # t
      PROVE  LinkFacts(u)' /\ Hands(u)' = Hands(u) /\ (Locked(u)' <=> Locked(u)) /\ Hands(u) \cap {a, b} = {}
  <2>1. Hands(u) \cap {a, b} = {} /\ Hands(u) \subseteq Nodes
    BY DEF HandsInv, Hands, DequeType
  <2>2. \A d \in {"next", "prev"}, i \in Hands(u) : link'[d][i] = link[d][i]
    BY <1>3, <2>1
  <2>3. \A d \in {"next", "prev"} : link'[d][Ghost] = link[d][Ghost]
    BY <1>2, <1>3 DEF Nodes
  <2>4. LinkFacts(u)
    BY DEF LinksInv
  <2>5. LinkFacts(u)' /\ Hands(u)' = Hands(u) /\ (Locked(u)' <=> Locked(u))
    BY <1>5, <1>7, <2>2, <2>3, <2>4, OthersLinks
  <2> QED BY <2>1, <2>5
<1>8. LinkFacts(t)'
  <2>1. Outer(t)' = IF e = "front" THEN a ELSE b
    BY <1>5 DEF Outer
  <2>2. link'[Back(e)][Outer(t)'] = Ghost
    BY <1>3, <2>1, Directions
  <2> QED BY <1>2, <1>3, <1>5, <2>2 DEF LinkFacts
<1>9. LinksInv'
  BY <1>7, <1>8, AllLinks
<1>10. LockInv'
  BY <1>0, <1>5, <1>7 DEF LockInv, Locked
<1>11. HandsInv'
  <2>1. ASSUME NEW u \in Threads PROVE Hands(u)' \cap outside' = {}
    BY <1>1, <1>6, <1>7 DEF HandsInv
  <2>2. ASSUME NEW u \in Threads, NEW v \in Threads, u # v PROVE Hands(u)' \cap Hands(v)' = {}
    <3>1. CASE u # t /\ v # t
      BY <1>7, <2>2, <3>1 DEF HandsInv
    <3>2. CASE u = t \/ v = t
      BY <1>6, <1>7, <2>2, <3>2
    <3> QED BY <3>1, <3>2
  <2> QED BY <2>1, <2>2 DEF HandsInv
<1>12. IsDeque(s)'
  <2>1. \A i \in 1..Len(s) : s[i] \in Nodes /\ s[i] # a /\ s[i] # b /\ s[i] \notin outside
    <3>1. \A i \in 1..Len(s) : s[i] \notin outside /\ s[i] \in Items
      BY RingAt DEF IsDeque
    <3> QED BY <3>1 DEF Nodes
  <2>2. Ghost \in Nodes /\ "next" \in {"next", "prev"} /\ "prev" \in {"next", "prev"}
    BY DEF Nodes
  <2>3. Ring(Items, Ghost, link'["next"], link'["prev"], s)
    BY <1>2, <1>3, <2>1, <2>2, RingKept DEF IsDeque
  <2>4. ASSUME NEW i \in 1..Len(s) PROVE s[i] \notin outside' /\ \A u \in Threads : s[i] \notin Hands(u)'
    BY <1>1, <1>6, <1>7, <2>1 DEF IsDeque
  <2> QED BY <2>3, <2>4 DEF IsDeque, Ring, At
<1>13. OutDeque' = OutDeque
  <2>1. InHands' = InHands \cup {a, b}
    BY <1>6, <1>7 DEF InHands
  <2> QED BY <1>1, <2>1 DEF OutDeque
<1> QED BY <1>4, <1>9, <1>10, <1>11, <1>12, <1>13 DEF DequeStep

\* The lock is set when nobody has it.
LEMMA DqLocks ==
    ASSUME DequeType, LockInv, HandsInv, LinksInv, Ghost \notin Items, Nobody \notin Threads,
           NEW s, IsDeque(s), NEW t \in Threads, SpinLock(t) \/ TryLock(t)
    PROVE  DequeType' /\ LockInv' /\ HandsInv' /\ LinksInv' /\ IsDeque(s)' /\ DequeStep(s, s)
<1>1. CASE UNCHANGED <<link, lock, outside, pc, end, first, last>>
  <2> USE <1>1
  <2>1. DequeType' /\ LockInv' /\ LinksInv'
    BY DEF DequeType, LockInv, Locked, LinksInv, LinkFacts, Filling, Outer, Inner
  <2>2. \A u \in Threads : Hands(u)' = Hands(u)
    BY DEF Hands, Filling
  <2>3. HandsInv' /\ IsDeque(s)' /\ DequeStep(s, s)
    BY <2>2, QuietStep
  <2> QED BY <2>1, <2>3
<1>2. CASE /\ lock = Nobody /\ lock' = t
           /\ link' = link /\ outside' = outside /\ first' = first /\ last' = last
           /\ \/ pc[t] = "lock" /\ pc' = [pc EXCEPT ![t] = "push_inner"] /\ end' = end
              \/ /\ pc[t] = "idle" /\ pc' = [pc EXCEPT ![t] = "pop_read"]
                 /\ \E e \in {"front", "back"} : end' = [end EXCEPT ![t] = e]
  <2>1. DequeType'
    BY <1>2 DEF DequeType
  <2>2. \A u \in Threads : u # t => pc'[u] = pc[u] /\ end'[u] = end[u]
    BY <1>2 DEF DequeType
  <2>3. LockInv'
    <3>1. \A u \in Threads : ~ Locked(u)
      BY <1>2 DEF LockInv
    <3> QED BY <1>2, <2>2, <3>1 DEF LockInv, Locked
  <2>4. Hands(t)' = Hands(t) /\ LinkFacts(t)'
    <3>1. CASE pc[t] = "lock" /\ pc' = [pc EXCEPT ![t] = "push_inner"] /\ end' = end
      <4>1. pc'[t] = "push_inner"
        BY <3>1 DEF DequeType
      <4>2. Filling(t) /\ Filling(t)' /\ LinkFacts(t)
        BY <3>1, <4>1 DEF Filling, LinksInv
      <4>3. Hands(t)' = Hands(t)
        BY <1>2, <4>2 DEF Hands
      <4>4. Outer(t)' = Outer(t)
        BY <1>2, <3>1 DEF Outer
      <4> QED BY <1>2, <3>1, <4>1, <4>2, <4>3, <4>4 DEF LinkFacts
    <3>2. CASE pc[t] = "idle" /\ pc' = [pc EXCEPT ![t] = "pop_read"]
      <4>1. pc'[t] = "pop_read"
        BY <3>2 DEF DequeType
      <4>2. LinkFacts(t)
        BY DEF LinksInv
      <4> QED BY <1>2, <3>2, <4>1, <4>2 DEF LinkFacts, Filling, Hands
    <3> QED BY <1>2, <3>1, <3>2
  <2>5. ASSUME NEW u \in Threads, u # t PROVE LinkFacts(u)' /\ Hands(u)' = Hands(u)
    <3>1. LinkFacts(u)
      BY DEF LinksInv
    <3> QED BY <1>2, <2>2, <2>5, <3>1, OthersLinks
  <2>6. LinksInv'
    BY <2>4, <2>5, AllLinks
  <2>7. \A u \in Threads : Hands(u)' = Hands(u)
    BY <2>4, <2>5
  <2>8. HandsInv' /\ IsDeque(s)' /\ DequeStep(s, s)
    BY <1>2, <2>7, QuietStep
  <2> QED BY <2>1, <2>3, <2>6, <2>8
<1>3. CASE SpinLock(t)
  BY <1>1, <1>2, <1>3 DEF SpinLock, Free, Goto, dequeueVars
<1>4. CASE TryLock(t)
  BY <1>1, <1>2, <1>4 DEF TryLock, Free, Goto, dequeueVars, Ends
<1> QED BY <1>3, <1>4

LEMMA DqPushInner ==
    ASSUME DequeType, LockInv, HandsInv, LinksInv, Ghost \notin Items,
           NEW s, IsDeque(s), NEW t \in Threads, PushInner(t)
    PROVE  DequeType' /\ LockInv' /\ HandsInv' /\ LinksInv' /\ IsDeque(s)' /\ DequeStep(s, s)
<1>1. PICK e \in {"front", "back"} : e = end[t]
  BY DEF DequeType
<1>2. PICK i, o, n : i = In(e) /\ o = Outer(t) /\ n = Inner(t)
  OBVIOUS
<1>3. /\ pc[t] = "push_inner" /\ pc' = [pc EXCEPT ![t] = "push_outer"]
      /\ link' = [link EXCEPT ![i][n] = link[i][Ghost]]
      /\ lock' = lock /\ outside' = outside /\ end' = end /\ first' = first /\ last' = last
  BY <1>1, <1>2 DEF PushInner, Goto
<1>4. LinkFacts(t) /\ Filling(t) /\ first[t] \in Items /\ last[t] \in Items
  BY <1>3 DEF LinksInv, LinkFacts, Filling
<1>5. /\ i \in {"next", "prev"} /\ Back(e) \in {"next", "prev"} /\ i # Back(e)
      /\ o \in Items /\ n \in Items /\ o \in Hands(t) /\ n \in Hands(t) /\ n # Ghost
      /\ first[t] \in Hands(t) /\ last[t] \in Hands(t)
  BY <1>1, <1>2, <1>4, Directions DEF Outer, Inner, Hands
<1>6. DequeType'
  BY <1>3, <1>5 DEF DequeType, Nodes
<1>7. /\ pc'[t] = "push_outer" /\ \A u \in Threads : u # t => pc'[u] = pc[u]
  BY <1>3 DEF DequeType
<1>8. /\ link'[i][n] = link[i][Ghost]
      /\ \A d \in {"next", "prev"}, j \in Nodes : j # n \/ d # i => link'[d][j] = link[d][j]
  BY <1>3, <1>5 DEF DequeType, Nodes
<1>9. LockInv'
  BY <1>3, <1>7 DEF LockInv, Locked
<1>10. Hands(t)' = Hands(t)
  BY <1>3, <1>7 DEF Hands, Filling
<1>11. ASSUME NEW u \in Threads, u # t PROVE LinkFacts(u)' /\ Hands(u)' = Hands(u)
  <2>1. n \notin Hands(u) /\ Hands(u) \subseteq Nodes
    BY <1>5, <1>11 DEF HandsInv, Hands, DequeType
  <2>2. \A d \in {"next", "prev"}, j \in Hands(u) : link'[d][j] = link[d][j]
    BY <1>8, <2>1
  <2>3. \A d \in {"next", "prev"} : link'[d][Ghost] = link[d][Ghost]
    BY <1>5, <1>8 DEF Nodes
  <2>4. LinkFacts(u)
    BY DEF LinksInv
  <2> QED BY <1>3, <1>7, <1>11, <2>2, <2>3, <2>4, OthersLinks
<1>12. LinkFacts(t)'
  <2>1. Outer(t)' = o /\ Inner(t)' = n
    BY <1>2, <1>3 DEF Outer, Inner
  <2>2. link'[i][n] = link'[i][Ghost]
    BY <1>5, <1>8 DEF Nodes
  <2>3. link'[Back(e)][o] = Ghost
    <3>1. link[Back(e)][o] = Ghost
      BY <1>1, <1>2, <1>4 DEF LinkFacts
    <3> QED BY <1>5, <1>8, <3>1 DEF Nodes
  <2>4. first[t] # last[t] => link'["next"][first[t]] = last[t] /\ link'["prev"][last[t]] = first[t]
    <3> SUFFICES ASSUME first[t] # last[t]
                 PROVE  link'["next"][first[t]] = last[t] /\ link'["prev"][last[t]] = first[t]
      OBVIOUS
    <3>1. link["next"][first[t]] = last[t] /\ link["prev"][last[t]] = first[t]
      BY <1>4 DEF LinkFacts
    <3>2. CASE e = "front"
      BY <1>1, <1>2, <1>4, <1>8, <3>1, <3>2, Directions DEF Inner, Nodes
    <3>3. CASE e = "back"
      BY <1>1, <1>2, <1>4, <1>8, <3>1, <3>3, Directions DEF Inner, Nodes
    <3> QED BY <3>2, <3>3
  <2> QED BY <1>1, <1>2, <1>3, <1>4, <1>7, <2>1, <2>2, <2>3, <2>4 DEF LinkFacts
<1>13. LinksInv'
  BY <1>11, <1>12, AllLinks
<1>14. HandsInv' /\ IsDeque(s)' /\ DequeStep(s, s)
  <2>1. \A j \in 1..Len(s) : s[j] \in Nodes /\ s[j] # n
    <3>1. \A j \in 1..Len(s) : s[j] \in Items /\ s[j] \notin Hands(t)
      BY RingAt DEF IsDeque
    <3> QED BY <1>5, <3>1 DEF Nodes
  <2>2. \A d \in {"next", "prev"} : link'[d][Ghost] = link[d][Ghost]
    BY <1>5, <1>8 DEF Nodes
  <2>3. \A d \in {"next", "prev"}, j \in 1..Len(s) : link'[d][s[j]] = link[d][s[j]]
    BY <1>8, <2>1
  <2>4. \A u \in Threads : Hands(u)' = Hands(u)
    BY <1>10, <1>11
  <2> QED BY <1>3, <2>2, <2>3, <2>4, QuietStep
<1> QED BY <1>6, <1>9, <1>13, <1>14

LEMMA DqPopRead ==
    ASSUME DequeType, LockInv, HandsInv, LinksInv, Ghost \notin Items,
           NEW s, IsDeque(s), NEW t \in Threads, PopRead(t)
    PROVE  DequeType' /\ LockInv' /\ HandsInv' /\ LinksInv' /\ IsDeque(s)' /\ DequeStep(s, s)
<1>1. PICK e \in {"front", "back"} : e = end[t]
  BY DEF DequeType
<1>2. /\ pc[t] = "pop_read" /\ pc' = [pc EXCEPT ![t] = "pop_unlink"]
      /\ first' = [first EXCEPT ![t] = link[In(e)][Ghost]]
      /\ link' = link /\ lock' = lock /\ outside' = outside /\ end' = end /\ last' = last
  BY <1>1 DEF PopRead, Goto
<1>3. DequeType'
  BY <1>1, <1>2, Directions DEF DequeType, Nodes
<1>4. /\ pc'[t] = "pop_unlink" /\ first'[t] = link[In(e)][Ghost]
      /\ \A u \in Threads : u # t => pc'[u] = pc[u] /\ first'[u] = first[u]
  BY <1>2 DEF DequeType
<1>5. LockInv'
  BY <1>2, <1>4 DEF LockInv, Locked
<1>6. Hands(t)' = Hands(t)
  BY <1>2, <1>4 DEF Hands, Filling
<1>7. ASSUME NEW u \in Threads, u # t PROVE LinkFacts(u)' /\ Hands(u)' = Hands(u)
  <2>1. LinkFacts(u)
    BY DEF LinksInv
  <2> QED BY <1>2, <1>4, <1>7, <2>1, OthersLinks
<1>8. LinkFacts(t)'
  <2>1. last[t] = Ghost
    BY <1>2 DEF LinksInv, LinkFacts
  <2> QED BY <1>1, <1>2, <1>4, <2>1 DEF LinkFacts, Filling
<1>9. LinksInv'
  BY <1>7, <1>8, AllLinks
<1>10. \A u \in Threads : Hands(u)' = Hands(u)
  BY <1>6, <1>7
<1>11. HandsInv' /\ IsDeque(s)' /\ DequeStep(s, s)
  BY <1>2, <1>10, QuietStep
<1> QED BY <1>3, <1>5, <1>9, <1>11

LEMMA DqUnlock ==
    ASSUME DequeType, LockInv, HandsInv, LinksInv, Ghost \notin Items, Nobody \notin Threads,
           NEW s, IsDeque(s), NEW t \in Threads, Unlock(t)
    PROVE  DequeType' /\ LockInv' /\ HandsInv' /\ LinksInv' /\ IsDeque(s)' /\ DequeStep(s, s)
<1>1. /\ pc[t] \in {"push_unlock", "pop_unlock"} /\ pc' = [pc EXCEPT ![t] = "idle"]
      /\ lock' = Nobody
      /\ outside' = IF pc[t] = "pop_unlock" /\ first[t] # Ghost THEN outside \cup {first[t]} ELSE outside
      /\ first' = [first EXCEPT ![t] = Ghost] /\ last' = [last EXCEPT ![t] = Ghost]
      /\ link' = link /\ end' = end
  BY DEF Unlock, Goto, GivenBack, Found
<1>2. DequeType'
  BY <1>1 DEF DequeType, Nodes
<1>3. /\ pc'[t] = "idle" /\ first'[t] = Ghost /\ last'[t] = Ghost
      /\ \A u \in Threads : u # t => pc'[u] = pc[u] /\ first'[u] = first[u] /\ last'[u] = last[u]
  BY <1>1 DEF DequeType
<1>4. \A u \in Threads : u # t => ~ Locked(u)
  <2>1. Locked(t)
    BY <1>1 DEF Locked
  <2> QED BY <2>1 DEF LockInv
<1>5. LockInv'
  BY <1>3, <1>4 DEF LockInv, Locked
<1>6. ASSUME NEW u \in Threads, u # t PROVE LinkFacts(u)' /\ Hands(u)' = Hands(u)
  <2>1. LinkFacts(u)
    BY DEF LinksInv
  <2> QED BY <1>1, <1>3, <1>6, <2>1, OthersLinks
<1>7. LinkFacts(t)'
  BY <1>3 DEF LinkFacts, Filling
<1>8. LinksInv'
  BY <1>6, <1>7, AllLinks
<1>9. Hands(t)' = {} /\ outside' = outside \cup Hands(t)
  <2>1. Hands(t)' = {}
    BY <1>3 DEF Hands, Filling
  <2>2. CASE pc[t] = "push_unlock"
    BY <1>1, <2>1, <2>2 DEF Hands, Filling
  <2>3. CASE pc[t] = "pop_unlock"
    <3>1. last[t] = Ghost
      BY <2>3 DEF LinksInv, LinkFacts
    <3> QED BY <1>1, <2>1, <2>3, <3>1 DEF Hands, Filling
  <2> QED BY <1>1, <2>2, <2>3
<1>10. HandsInv'
  <2>1. ASSUME NEW u \in Threads PROVE Hands(u)' \cap outside' = {}
    BY <1>6, <1>9 DEF HandsInv
  <2>2. ASSUME NEW u \in Threads, NEW v \in Threads, u # v PROVE Hands(u)' \cap Hands(v)' = {}
    BY <1>6, <1>9, <2>2 DEF HandsInv
  <2> QED BY <2>1, <2>2 DEF HandsInv
<1>11. IsDeque(s)'
  <2>1. Ring(Items, Ghost, link["next"], link["prev"], s)'
    BY <1>1 DEF IsDeque, Ring, At
  <2> QED BY <1>6, <1>9, <2>1 DEF IsDeque
<1>12. OutDeque' = OutDeque
  <2>1. InHands = InHands' \cup Hands(t)
    BY <1>6, <1>9 DEF InHands
  <2> QED BY <1>9, <2>1 DEF OutDeque
<1> QED BY <1>2, <1>5, <1>8, <1>10, <1>11, <1>12 DEF DequeStep

\* The ring of a list as it is read from an end, and back.
LEMMA RingViewed ==
    ASSUME NEW lk, NEW e \in {"front", "back"}, NEW s, NEW q, View(Items, e, s, q)
    PROVE  /\ Ring(Items, Ghost, lk["next"], lk["prev"], s)
                => Ring(Items, Ghost, lk[In(e)], lk[Back(e)], q)
           /\ Ring(Items, Ghost, lk[In(e)], lk[Back(e)], q)
                => Ring(Items, Ghost, lk["next"], lk["prev"], s)
<1>1. CASE e = "front"
  BY <1>1, Directions DEF View
<1>2. CASE e = "back"
  <2>1. Reversed(Items, s, q) /\ s \in Seq(Items) /\ Reversed(Items, q, s)
    BY <1>2, ReversedBack DEF View
  <2>2. PICK fw, bw : fw = lk["next"] /\ bw = lk["prev"]
    OBVIOUS
  <2>3. lk[In(e)] = bw /\ lk[Back(e)] = fw
    BY <1>2, <2>2, Directions
  <2>4. Ring(Items, Ghost, fw, bw, s) => Ring(Items, Ghost, bw, fw, q)
    BY <2>1, RingReversed
  <2>5. Ring(Items, Ghost, bw, fw, q) => Ring(Items, Ghost, fw, bw, s)
    BY <2>1, RingReversed
  <2> QED BY <2>2, <2>3, <2>4, <2>5
<1> QED BY <1>1, <1>2

\* The write that makes the items of a push visible.
LEMMA DqPushOuter ==
    ASSUME DequeType, LockInv, HandsInv, LinksInv, Ghost \notin Items,
           NEW s, IsDeque(s), NEW t \in Threads, PushOuter(t)
    PROVE  /\ DequeType' /\ LockInv' /\ HandsInv' /\ LinksInv'
           /\ \E r : IsDeque(r)' /\ DequeStep(s, r)
<1>1. PICK e \in {"front", "back"} : e = end[t]
  BY DEF DequeType
<1>2. PICK i, k, o, n : i = In(e) /\ k = Back(e) /\ o = Outer(t) /\ n = Inner(t)
  OBVIOUS
<1>3. /\ pc[t] = "push_outer" /\ pc' = [pc EXCEPT ![t] = "push_unlock"]
      /\ link' = [link EXCEPT ![k][link[i][n]] = n, ![i][Ghost] = o]
      /\ lock' = lock /\ outside' = outside /\ end' = end /\ first' = first /\ last' = last
  BY <1>1, <1>2 DEF PushOuter, Goto
<1>4. /\ LinkFacts(t) /\ Filling(t) /\ first[t] \in Items /\ last[t] \in Items
      /\ Hands(t) = {first[t], last[t]}
  BY <1>3 DEF LinksInv, LinkFacts, Filling, Hands
<1>5. /\ i \in {"next", "prev"} /\ k \in {"next", "prev"} /\ i # k
      /\ o \in Items /\ n \in Items /\ Hands(t) = {o, n} /\ n # Ghost /\ o # Ghost
      /\ (e = "front" /\ o = first[t] /\ n = last[t]) \/ (e = "back" /\ o = last[t] /\ n = first[t])
  BY <1>1, <1>2, <1>4, Directions DEF Outer, Inner
<1>6. /\ link[k][o] = Ghost /\ link[i][n] = link[i][Ghost]
      /\ o # n => link[i][o] = n /\ link[k][n] = o
  <2>1. link[k][o] = Ghost /\ link[i][n] = link[i][Ghost]
    BY <1>1, <1>2, <1>3, <1>4 DEF LinkFacts
  <2>2. first[t] # last[t] => link["next"][first[t]] = last[t] /\ link["prev"][last[t]] = first[t]
    BY <1>4 DEF LinkFacts
  <2>3. (e = "front" /\ i = "next" /\ k = "prev") \/ (e = "back" /\ i = "prev" /\ k = "next")
    BY <1>2, Directions
  <2> QED BY <1>5, <2>1, <2>2, <2>3
<1>7. s \in Seq(Items)
  BY DEF IsDeque, Ring
<1>8. PICK q : View(Items, e, s, q)
  BY <1>7, ViewExists
<1>9. PICK p, r : /\ Behind(Items, o, n, q, p) /\ View(Items, e, r, p)
                  /\ \/ o = n /\ Grown(s, r, <<o>>)
                     \/ o # n /\ Grown(s, r, IF e = "front" THEN <<o, n>> ELSE <<n, o>>)
  BY <1>5, <1>7, <1>8, GrownExists
<1>10. Ring(Items, Ghost, link[i], link[k], q)
  BY <1>2, <1>8, RingViewed DEF IsDeque
<1>11. PICK x : x = link[i][Ghost]
  OBVIOUS
<1>12. /\ x = At(Ghost, q, 1) /\ x \in Nodes
       /\ x = Ghost \/ \E j \in 1..Len(q) : x = q[j]
  <2>1. x = At(Ghost, q, 1) /\ Len(q) \in Nat
    BY <1>10, <1>11, RingAt
  <2>2. x \in Nodes
    BY <1>5, <1>11 DEF DequeType, Nodes
  <2> QED BY <2>1, <2>2 DEF At
<1>13. /\ link' \in [{"next", "prev"} -> [Nodes -> Nodes]]
       /\ link'[i][Ghost] = o /\ link'[k][x] = n
       /\ \A j \in Nodes : j # Ghost => link'[i][j] = link[i][j]
       /\ \A j \in Nodes : j # x => link'[k][j] = link[k][j]
  <2>1. link' = [link EXCEPT ![k][x] = n, ![i][Ghost] = o]
    BY <1>3, <1>6, <1>11
  <2> QED BY <1>5, <1>12, <2>1 DEF DequeType, Nodes
<1>14. DequeType'
  BY <1>3, <1>13 DEF DequeType
<1>15. pc'[t] = "push_unlock" /\ \A u \in Threads : u # t => pc'[u] = pc[u]
  BY <1>3 DEF DequeType
<1>16. LockInv'
  BY <1>3, <1>15 DEF LockInv, Locked
<1>17. \A u \in Threads : u # t => ~ Locked(u)
  <2>1. Locked(t)
    BY <1>3 DEF Locked
  <2> QED BY <2>1 DEF LockInv
<1>18. \A j \in 1..Len(q) : q[j] \in Items /\ q[j] # o /\ q[j] # n /\ q[j] \notin outside /\ \A u \in Threads : q[j] \notin Hands(u)
  <2> TAKE j \in 1..Len(q)
  <2>0. Among(q, s)
    BY <1>8, ViewAmong
  <2>1. PICK m \in 1..Len(s) : q[j] = s[m]
    BY <2>0 DEF Among
  <2>2. s[m] \in Items
    BY RingAt DEF IsDeque
  <2>3. s[m] \notin outside /\ \A u \in Threads : s[m] \notin Hands(u)
    BY DEF IsDeque
  <2> QED BY <1>5, <2>1, <2>2, <2>3
<1>19. ASSUME NEW u \in Threads, u # t
       PROVE  LinkFacts(u)' /\ Hands(u)' = Hands(u) /\ Hands(u) \cap {o, n} = {}
  <2>1. Hands(u) \cap {o, n} = {} /\ Hands(u) \subseteq Nodes /\ Ghost \notin Hands(u)
    BY <1>5, <1>19 DEF HandsInv, Hands, DequeType
  <2>2. x \notin Hands(u)
    BY <1>12, <1>18, <2>1
  <2>3. ASSUME NEW d \in {"next", "prev"}, NEW j \in Hands(u) PROVE link'[d][j] = link[d][j]
    <3>1. d = i \/ d = k
      BY <1>5
    <3>2. j \in Nodes /\ j # Ghost /\ j # x
      BY <2>1, <2>2
    <3> QED BY <1>13, <3>1, <3>2
  <2>4. LinkFacts(u)
    BY DEF LinksInv
  <2>5. ~ Locked(u)
    BY <1>17, <1>19
  <2>6. LinkFacts(u)' /\ Hands(u)' = Hands(u)
    BY <1>3, <1>15, <1>19, <2>3, <2>4, <2>5, OthersLinks
  <2> QED BY <2>1, <2>6
<1>20. LinkFacts(t)' /\ Hands(t)' = {}
  BY <1>15 DEF LinkFacts, Filling, Hands
<1>21. LinksInv'
  BY <1>19, <1>20, AllLinks
<1>22. HandsInv'
  <2>1. ASSUME NEW u \in Threads PROVE Hands(u)' \cap outside' = {}
    BY <1>3, <1>19, <1>20 DEF HandsInv
  <2>2. ASSUME NEW u \in Threads, NEW v \in Threads, u # v PROVE Hands(u)' \cap Hands(v)' = {}
    BY <1>19, <1>20, <2>2 DEF HandsInv
  <2> QED BY <2>1, <2>2 DEF HandsInv
<1>23. Ring(Items, Ghost, link'[i], link'[k], p)
  <2>1. /\ link'[i][Ghost] = o /\ link'[k][o] = Ghost
        /\ o # n => link'[i][o] = n /\ link'[k][n] = o
        /\ link'[i][n] = x /\ link'[k][x] = n
    <3>1. o \in Nodes /\ n \in Nodes /\ o # x /\ n # x
      BY <1>5, <1>12, <1>18 DEF Nodes
    <3> QED BY <1>5, <1>6, <1>11, <1>13, <3>1
  <2>2. ASSUME NEW j \in 1..Len(q) PROVE link'[i][q[j]] = link[i][q[j]]
    <3>1. q[j] \in Nodes /\ q[j] # Ghost
      BY <1>18 DEF Nodes
    <3> QED BY <1>13, <3>1
  <2>3. ASSUME NEW j \in 1..Len(q)
        PROVE  link'[k][At(Ghost, q, j + 1)] = link[k][At(Ghost, q, j + 1)]
    <3>1. PICK L \in Nat : L = Len(q)
      BY <1>10, RingAt
    <3>2. At(Ghost, q, j + 1) \in Nodes
      BY <1>18, <3>1 DEF At, Nodes
    <3>3. At(Ghost, q, j + 1) # x
      <4>1. x = q[1] /\ 1 \in 1..L
        BY <1>12, <3>1 DEF At
      <4>2. CASE j + 1 \in 1..L
        <5>1. q[j + 1] # q[1]
          BY <1>10, <3>1, <4>1, <4>2 DEF Ring
        <5> QED BY <3>1, <4>1, <4>2, <5>1 DEF At
      <4>3. CASE j + 1 \notin 1..L
        BY <1>18, <3>1, <4>1, <4>3 DEF At
      <4> QED BY <4>2, <4>3
    <3> QED BY <1>13, <3>2, <3>3
  <2>4. PICK fx, bx : fx = link'[i] /\ bx = link'[k]
    OBVIOUS
  <2>5. PICK fw, bw : fw = link[i] /\ bw = link[k]
    OBVIOUS
  <2>6. /\ fx[Ghost] = o /\ bx[o] = Ghost /\ (o # n => fx[o] = n /\ bx[n] = o)
        /\ fx[n] = At(Ghost, q, 1) /\ bx[At(Ghost, q, 1)] = n
    BY <1>12, <2>1, <2>4
  <2>7. /\ \A j \in 1..Len(q) : fx[q[j]] = fw[q[j]]
        /\ \A j \in 1..Len(q) : bx[At(Ghost, q, j + 1)] = bw[At(Ghost, q, j + 1)]
    BY <2>2, <2>3, <2>4, <2>5
  <2>8. Ring(Items, Ghost, fw, bw, q)
    BY <1>10, <2>5
  <2>9. \A j \in 1..Len(q) : q[j] # o /\ q[j] # n
    BY <1>18
  <2>10. Ring(Items, Ghost, fx, bx, p)
    BY <1>5, <1>9, <2>6, <2>7, <2>8, <2>9, RingPush
  <2> QED BY <2>4, <2>10
<1>24. IsDeque(r)'
  <2>1. Ring(Items, Ghost, link'["next"], link'["prev"], r)
    BY <1>2, <1>9, <1>23, RingViewed
  <2>2. ASSUME NEW j \in 1..Len(r) PROVE r[j] \notin outside' /\ \A u \in Threads : r[j] \notin Hands(u)'
    <3>0. Among(r, p)
      BY <1>9, ViewAmong
    <3>1. PICK m \in 1..Len(p) : p[m] = r[j]
      BY <3>0 DEF Among
    <3>2. p[m] = o \/ p[m] = n \/ \E l \in 1..Len(q) : p[m] = q[l]
      <4>1. q \in Seq(Items)
        BY <1>8, ViewSizes
      <4>2. \A h \in 1..Len(p) : p[h] = o \/ p[h] = n \/ \E l \in 1..Len(q) : p[h] = q[l]
        BY <1>9, <4>1, BehindElements
      <4> QED BY <3>1, <4>2
    <3>3. o \notin outside /\ n \notin outside
      BY <1>5 DEF HandsInv
    <3> QED BY <1>3, <1>18, <1>19, <1>20, <3>1, <3>2, <3>3
  <2> QED BY <2>1, <2>2 DEF IsDeque, Ring, At
<1>25. {o, n} \subseteq OutDeque /\ OutDeque' = OutDeque \ {o, n}
  <2>1. InHands = InHands' \cup {o, n} /\ InHands' \cap {o, n} = {}
    BY <1>5, <1>19, <1>20 DEF InHands
  <2>2. outside \cap {o, n} = {}
    BY <1>5 DEF HandsInv
  <2> QED BY <1>3, <2>1, <2>2 DEF OutDeque
<1>26. DequeStep(s, r)
  <2>1. CASE o = n
    BY <1>5, <1>9, <1>25, <2>1 DEF DequeStep
  <2>2. CASE o # n /\ e = "front"
    BY <1>5, <1>9, <1>25, <2>2 DEF DequeStep
  <2>3. CASE o # n /\ e # "front"
    <3>1. {n, o} = {o, n} /\ Grown(s, r, <<n, o>>)
      BY <1>9, <2>3
    <3> QED BY <1>5, <1>25, <2>3, <3>1 DEF DequeStep
  <2> QED BY <2>1, <2>2, <2>3
<1> QED BY <1>14, <1>16, <1>21, <1>22, <1>24, <1>26

\* The write that takes an item out.
LEMMA DqPopUnlink ==
    ASSUME DequeType, LockInv, HandsInv, LinksInv, Ghost \notin Items,
           NEW s, IsDeque(s), NEW t \in Threads, PopUnlink(t)
    PROVE  /\ DequeType' /\ LockInv' /\ HandsInv' /\ LinksInv'
           /\ \E r : IsDeque(r)' /\ DequeStep(s, r)
<1>1. PICK e \in {"front", "back"} : e = end[t]
  BY DEF DequeType
<1>2. PICK i, k, x : i = In(e) /\ k = Back(e) /\ x = link[i][first[t]]
  OBVIOUS
<1>3. /\ pc[t] = "pop_unlink" /\ pc' = [pc EXCEPT ![t] = "pop_unlock"]
      /\ link' = [link EXCEPT ![i][Ghost] = x, ![k][x] = Ghost]
      /\ lock' = lock /\ outside' = outside /\ end' = end /\ first' = first /\ last' = last
  BY <1>1, <1>2 DEF PopUnlink, Goto
<1>4. i \in {"next", "prev"} /\ k \in {"next", "prev"} /\ i # k
  BY <1>2, Directions
<1>5. first[t] = link[i][Ghost] /\ last[t] = Ghost /\ first[t] \in Nodes /\ x \in Nodes
  BY <1>1, <1>2, <1>3, <1>4 DEF LinksInv, LinkFacts, DequeType
<1>6. s \in Seq(Items)
  BY DEF IsDeque, Ring
<1>7. PICK q : View(Items, e, s, q)
  BY <1>6, ViewExists
<1>8. Ring(Items, Ghost, link[i], link[k], q)
  BY <1>2, <1>7, RingViewed DEF IsDeque
<1>9. PICK L \in Nat : L = Len(q) /\ L = Len(s) /\ q \in Seq(Items)
  BY <1>7, ViewSizes
<1>10. /\ link' \in [{"next", "prev"} -> [Nodes -> Nodes]]
       /\ link'[i][Ghost] = x /\ link'[k][x] = Ghost
       /\ \A j \in Nodes : j # Ghost => link'[i][j] = link[i][j]
       /\ \A j \in Nodes : j # x => link'[k][j] = link[k][j]
  BY <1>3, <1>4, <1>5 DEF DequeType, Nodes
<1>11. DequeType'
  BY <1>3, <1>10 DEF DequeType
<1>12. pc'[t] = "pop_unlock" /\ \A u \in Threads : u # t => pc'[u] = pc[u]
  BY <1>3 DEF DequeType
<1>13. LockInv'
  BY <1>3, <1>12 DEF LockInv, Locked
<1>14. \A u \in Threads : u # t => ~ Locked(u)
  <2>1. Locked(t)
    BY <1>3 DEF Locked
  <2> QED BY <2>1 DEF LockInv
<1>15. \A j \in 1..L : q[j] \in Items /\ q[j] \notin outside /\ \A u \in Threads : q[j] \notin Hands(u)
  <2> TAKE j \in 1..L
  <2>0. Among(q, s)
    BY <1>7, ViewAmong
  <2>1. PICK m \in 1..Len(s) : q[j] = s[m]
    BY <1>9, <2>0 DEF Among
  <2>2. s[m] \in Items
    BY RingAt DEF IsDeque
  <2>3. s[m] \notin outside /\ \A u \in Threads : s[m] \notin Hands(u)
    BY DEF IsDeque
  <2> QED BY <2>1, <2>2, <2>3
<1>16. /\ first[t] = At(Ghost, q, 1) /\ x = link[i][At(Ghost, q, 1)]
       /\ \A j \in 0..L : link[i][At(Ghost, q, j)] = At(Ghost, q, j + 1)
  <2>1. link[i][Ghost] = At(Ghost, q, 1)
    BY <1>8, RingAt
  <2> QED BY <1>2, <1>5, <1>8, <1>9, <2>1 DEF Ring
<1>17. x = Ghost \/ \E j \in 1..L : x = q[j]
  <2>1. CASE L = 0
    BY <1>5, <1>9, <1>16, <2>1 DEF At
  <2>2. CASE L # 0
    <3>1. 1 \in 0..L /\ 1 + 1 = 2
      BY <2>2
    <3>2. x = At(Ghost, q, 2)
      BY <1>16, <3>1
    <3> QED BY <1>9, <3>2 DEF At
  <2> QED BY <2>1, <2>2
<1>18. ASSUME NEW u \in Threads, u # t PROVE LinkFacts(u)' /\ Hands(u)' = Hands(u)
  <2>1. Hands(u) \subseteq Nodes /\ Ghost \notin Hands(u)
    BY DEF Hands, DequeType
  <2>2. x \notin Hands(u)
    BY <1>15, <1>17, <2>1
  <2>3. ASSUME NEW d \in {"next", "prev"}, NEW j \in Hands(u) PROVE link'[d][j] = link[d][j]
    <3>1. d = i \/ d = k
      BY <1>4
    <3>2. j \in Nodes /\ j # Ghost /\ j # x
      BY <2>1, <2>2
    <3> QED BY <1>10, <3>1, <3>2
  <2>4. LinkFacts(u)
    BY DEF LinksInv
  <2>5. ~ Locked(u)
    BY <1>14, <1>18
  <2> QED BY <1>3, <1>12, <1>18, <2>3, <2>4, <2>5, OthersLinks
<1>19. LinkFacts(t)' /\ Hands(t)' = {first[t]} \ {Ghost} /\ Hands(t) = {}
  BY <1>3, <1>5, <1>12 DEF LinkFacts, Filling, Hands
<1>20. LinksInv'
  BY <1>18, <1>19, AllLinks
<1>21. CASE L = 0
  <2>1. first[t] = Ghost /\ x = Ghost
    BY <1>5, <1>9, <1>16, <1>21 DEF At
  <2>2. /\ \A d \in {"next", "prev"} : link'[d][Ghost] = link[d][Ghost]
        /\ \A d \in {"next", "prev"}, j \in 1..Len(s) : link'[d][s[j]] = link[d][s[j]]
    <3>1. link[i][Ghost] = Ghost /\ link[k][Ghost] = Ghost
      <4>1. link[k][At(Ghost, q, 1)] = Ghost /\ link[i][Ghost] = At(Ghost, q, 1)
        BY <1>8, RingAt
      <4> QED BY <1>16, <2>1, <4>1
    <3>2. 1..Len(s) = {}
      BY <1>9, <1>21
    <3> QED BY <1>4, <1>10, <2>1, <3>1, <3>2
  <2>3. \A u \in Threads : Hands(u)' = Hands(u)
    BY <1>18, <1>19, <2>1
  <2>4. HandsInv' /\ IsDeque(s)' /\ DequeStep(s, s)
    BY <1>3, <2>2, <2>3, QuietStep
  <2> QED BY <1>11, <1>13, <1>20, <2>4
<1>22. CASE L # 0
  <2>0. 1 \in 1..L /\ q[1] \in Items /\ q[1] # Ghost
    BY <1>15, <1>22
  <2>1. first[t] = q[1] /\ 1 \in 1..L /\ q[1] \in Items /\ q[1] # Ghost
    BY <1>9, <1>16, <2>0 DEF At
  <2>2. s # <<>>
    <3>1. Len(<<>>) = 0
      OBVIOUS
    <3> QED BY <1>9, <1>22, <3>1
  <2>3. PICK p, r : Without(Items, q, p) /\ View(Items, e, r, p) /\ Shrunk(s, r, q[1])
    BY <1>6, <1>7, <2>2, ShrunkExists
  <2>4. Len(p) \in Nat /\ L = Len(p) + 1 /\ \A j \in 1..Len(p) : p[j] = q[j + 1] /\ j + 1 \in 1..L /\ j + 1 # 1
    <3>1. p \in Seq(Items) /\ L = Len(p) + 1 /\ \A j \in 1..Len(p) : p[j] = q[j + 1]
      BY <1>9, <2>3 DEF Without
    <3>2. PICK M \in Nat : M = Len(p)
      BY <3>1
    <3>3. \A j \in 1..M : j + 1 \in 1..L /\ j + 1 # 1
      BY <3>1, <3>2
    <3> QED BY <3>1, <3>2, <3>3
  <2>5. \A j \in 1..L, m \in 1..L : q[j] = q[m] => j = m
    BY <1>8, <1>9 DEF Ring
  <2>6. Hands(t)' = {q[1]}
    BY <1>19, <2>1
  <2>7. Ring(Items, Ghost, link'[i], link'[k], p)
    <3>1. PICK fx, bx : fx = link'[i] /\ bx = link'[k]
      OBVIOUS
    <3>2. PICK fw, bw : fw = link[i] /\ bw = link[k]
      OBVIOUS
    <3>3. fx[Ghost] = fw[At(Ghost, q, 1)] /\ bx[fw[At(Ghost, q, 1)]] = Ghost
      BY <1>10, <1>16, <3>1, <3>2
    <3>4. ASSUME NEW j \in 2..Len(q) PROVE fx[q[j]] = fw[q[j]]
      <4>1. q[j] \in Nodes /\ q[j] # Ghost
        BY <1>9, <1>15 DEF Nodes
      <4> QED BY <1>10, <3>1, <3>2, <4>1
    <3>5. ASSUME NEW j \in 2..Len(q) PROVE bx[At(Ghost, q, j + 1)] = bw[At(Ghost, q, j + 1)]
      <4>1. At(Ghost, q, j + 1) \in Nodes
        BY <1>9, <1>15 DEF At, Nodes
      <4>2. At(Ghost, q, j + 1) # x
        <5>1. 1 \in 0..L /\ 1 + 1 = 2 /\ 2 \in 1..L /\ j \in 1..L
          BY <1>9
        <5>2. x = q[2] /\ q[2] # Ghost
          BY <1>9, <1>15, <1>16, <5>1 DEF At
        <5>3. CASE j + 1 \in 1..L
          <6>1. q[j + 1] # q[2]
            BY <2>5, <5>1, <5>3
          <6> QED BY <1>9, <5>2, <5>3, <6>1 DEF At
        <5>4. CASE j + 1 \notin 1..L
          BY <1>9, <5>2, <5>4 DEF At
        <5> QED BY <5>3, <5>4
      <4> QED BY <1>10, <3>1, <3>2, <4>1, <4>2
    <3>6. Ring(Items, Ghost, fw, bw, q)
      BY <1>8, <3>2
    <3>7. Ring(Items, Ghost, fx, bx, p)
      BY <2>3, <3>3, <3>4, <3>5, <3>6, RingPop
    <3> QED BY <3>1, <3>7
  <2>8. IsDeque(r)'
    <3>1. Ring(Items, Ghost, link'["next"], link'["prev"], r)
      BY <1>2, <2>3, <2>7, RingViewed
    <3>2. ASSUME NEW j \in 1..Len(r) PROVE r[j] \notin outside' /\ \A u \in Threads : r[j] \notin Hands(u)'
      <4>0. Among(r, p)
        BY <2>3, ViewAmong
      <4>1. PICK m \in 1..Len(p) : p[m] = r[j]
        BY <4>0 DEF Among
      <4>2. m + 1 \in 1..L /\ m + 1 # 1 /\ p[m] = q[m + 1]
        BY <2>4
      <4>3. q[m + 1] # q[1]
        BY <2>1, <2>5, <4>2
      <4>4. q[m + 1] \notin outside /\ \A u \in Threads : q[m + 1] \notin Hands(u)
        BY <1>15, <4>2
      <4> QED BY <1>3, <1>18, <2>6, <4>1, <4>2, <4>3, <4>4
    <3> QED BY <3>1, <3>2 DEF IsDeque, Ring, At
  <2>9. HandsInv'
    <3>1. ASSUME NEW u \in Threads PROVE Hands(u)' \cap outside' = {}
      BY <1>3, <1>15, <1>18, <2>1, <2>6 DEF HandsInv
    <3>2. ASSUME NEW u \in Threads, NEW v \in Threads, u # v PROVE Hands(u)' \cap Hands(v)' = {}
      BY <1>15, <1>18, <2>1, <2>6, <3>2 DEF HandsInv
    <3> QED BY <3>1, <3>2 DEF HandsInv
  <2>10. OutDeque' = OutDeque \cup {q[1]}
    <3>1. InHands' = InHands \cup {q[1]}
      BY <1>18, <1>19, <2>6 DEF InHands
    <3> QED BY <1>3, <3>1 DEF OutDeque
  <2>11. DequeStep(s, r)
    BY <2>3, <2>10 DEF DequeStep
  <2> QED BY <1>11, <1>13, <1>20, <2>8, <2>9, <2>11
<1> QED BY <1>21, <1>22

LEMMA DqNext ==
    ASSUME DequeType, LockInv, HandsInv, LinksInv, Ghost \notin Items, Nobody \notin Threads,
           NEW s, IsDeque(s), [DequeueNext]_dequeueVars
    PROVE  /\ DequeType' /\ LockInv' /\ HandsInv' /\ LinksInv'
           /\ \E r : IsDeque(r)' /\ DequeStep(s, r)
<1>1. ASSUME NEW t \in Threads, PushRing(t) \/ SpinLock(t) \/ TryLock(t)
      PROVE  DequeType' /\ LockInv' /\ HandsInv' /\ LinksInv' /\ IsDeque(s)' /\ DequeStep(s, s)
  BY <1>1, DqPushBegin, DqLocks
<1>2. ASSUME NEW t \in Threads, PushInner(t) \/ PopRead(t) \/ Unlock(t)
      PROVE  DequeType' /\ LockInv' /\ HandsInv' /\ LinksInv' /\ IsDeque(s)' /\ DequeStep(s, s)
  BY <1>2, DqPushInner, DqPopRead, DqUnlock
<1>3. ASSUME NEW t \in Threads, PushOuter(t) \/ PopUnlink(t)
      PROVE  /\ DequeType' /\ LockInv' /\ HandsInv' /\ LinksInv'
             /\ \E r : IsDeque(r)' /\ DequeStep(s, r)
  BY <1>3, DqPushOuter, DqPopUnlink
<1>4. CASE UNCHANGED dequeueVars
  <2>1. UNCHANGED <<link, lock, outside, pc, end, first, last>>
    BY <1>4 DEF dequeueVars
  <2> USE <2>1
  <2>2. DequeType' /\ LockInv' /\ LinksInv'
    BY DEF DequeType, LockInv, Locked, LinksInv, LinkFacts, Filling, Outer, Inner
  <2>3. \A u \in Threads : Hands(u)' = Hands(u)
    BY DEF Hands, Filling
  <2>4. HandsInv' /\ IsDeque(s)' /\ DequeStep(s, s)
    BY <2>3, QuietStep
  <2> QED BY <2>2, <2>4
<1> QED BY <1>1, <1>2, <1>3, <1>4 DEF DequeueNext, Step

LEMMA DequeInvariance == DequeueSpec => []DequeInv
<1>1. Ghost \notin Items /\ Nobody \notin Threads
  BY ItemsAssumption, NobodyAssumption
<1>2. DequeueInit => DequeInv
  BY <1>1, InitDeque
<1>3. DequeInv /\ [DequeueNext]_dequeueVars => DequeInv'
  BY <1>1, DqNext DEF DequeInv
<1> QED BY <1>2, <1>3, PTL DEF DequeueSpec

LEMMA DequeCardinality == \A S : AD!Cardinality(S) = Cardinality(S)
  BY DEF AD!Cardinality, Cardinality

\* Walking along list_next from the ghost lists the items of the dequeue.
LEMMA WalkIs ==
    ASSUME NEW s, IsDeque(s)
    PROVE  Walk("next") = s
<1>1. PICK lk : lk = link
  OBVIOUS
<1> DEFINE Both(f) == f = [n \in Nat |-> [d \in {"next", "prev"} |-> Layer(Nodes, Ghost, lk[d], n, f[n - 1][d])]]
<1>2. Along = CHOOSE f : Both(f)
  BY <1>1 DEF Along, Layer, Nodes, Nodes
<1>3. \E f : Both(f)
  <2>1. PICK v : Walks(Nodes, Ghost, lk["next"], v)
    BY WalkExists
  <2>2. PICK w : Walks(Nodes, Ghost, lk["prev"], w)
    BY WalkExists
  <2>3. PICK f : f = [n \in Nat |-> [d \in {"next", "prev"} |-> IF d = "next" THEN v[n] ELSE w[n]]]
    OBVIOUS
  <2>4. ASSUME NEW n \in Nat, NEW d \in {"next", "prev"}
        PROVE  f[n][d] = Layer(Nodes, Ghost, lk[d], n, f[n - 1][d])
    <3>1. n # 0 => n - 1 \in Nat
      OBVIOUS
    <3>2. CASE d = "next"
      <4>1. f[n][d] = Layer(Nodes, Ghost, lk[d], n, v[n - 1])
        BY <2>1, <2>3, <3>2 DEF Walks
      <4>2. n # 0 => f[n - 1][d] = v[n - 1]
        BY <2>3, <3>1, <3>2
      <4> QED BY <4>1, <4>2, LayerZero
    <3>3. CASE d = "prev"
      <4>1. f[n][d] = Layer(Nodes, Ghost, lk[d], n, w[n - 1])
        BY <2>2, <2>3, <3>3 DEF Walks
      <4>2. n # 0 => f[n - 1][d] = w[n - 1]
        BY <2>3, <3>1, <3>3
      <4> QED BY <4>1, <4>2, LayerZero
    <3> QED BY <3>2, <3>3
  <2>5. f = [n \in Nat |-> [d \in {"next", "prev"} |-> f[n][d]]]
    BY <2>3
  <2>6. Both(f)
    BY <2>4, <2>5
  <2> QED BY <2>6
<1>4. PICK a : a = Along
  OBVIOUS
<1>5. Both(a)
  BY <1>2, <1>3, <1>4
<1>6. PICK w : w = [n \in Nat |-> a[n]["next"]]
  OBVIOUS
<1>7. Walks(Items \cup {Ghost}, Ghost, lk["next"], w)
  <2>1. ASSUME NEW n \in Nat PROVE w[n] = Layer(Nodes, Ghost, lk["next"], n, w[n - 1])
    <3>1. a[n]["next"] = Layer(Nodes, Ghost, lk["next"], n, a[n - 1]["next"])
      BY <1>5
    <3>2. n # 0 => w[n - 1] = a[n - 1]["next"]
      <4> SUFFICES ASSUME n # 0 PROVE w[n - 1] = a[n - 1]["next"]
        OBVIOUS
      <4>1. n - 1 \in Nat
        OBVIOUS
      <4> QED BY <1>6, <4>1
    <3>3. w[n] = a[n]["next"]
      BY <1>6
    <3> QED BY <3>1, <3>2, <3>3, LayerZero
  <2>2. w = [n \in Nat |-> w[n]]
    BY <1>6
  <2> QED BY <2>1, <2>2 DEF Walks, Nodes
<1>8. Linked(Items, Ghost, lk["next"], s) /\ lk["next"][Ghost] = Node(Ghost, s, 1)
  BY <1>1, RingLinked DEF IsDeque
<1>9. IsFiniteSet(Items) /\ Ghost \notin Items
  BY ItemsAssumption
<1>10. w[Cardinality(Items) + 1][Node(Ghost, s, 1)] = s
  BY <1>7, <1>8, <1>9, WalkLists
<1>11. Cardinality(Items) + 1 \in Nat
  BY <1>9, FS_CardinalityType
<1> HIDE DEF Both
<1> QED BY <1>1, <1>4, <1>6, <1>8, <1>10, <1>11 DEF Walk

LEMMA WalkIsDeque == \A s : IsDeque(s) => Walk("next") = s
  BY WalkIs

LEMMA WalkIsDequeNext == (\A s : IsDeque(s) => Walk("next") = s)'
  BY WalkIsDeque, PTL

LEMMA InHandIs == ASSUME DequeType, LinksInv PROVE InHand = InHands
<1>1. ASSUME NEW t \in Threads
      PROVE  /\ Hands(t) = {} \/ (/\ pc[t] \in {"lock", "push_inner", "push_outer", "pop_unlock"}
                                  /\ Hands(t) = {first[t], last[t]} \ {Ghost})
             /\ pc[t] \in {"lock", "push_inner", "push_outer", "pop_unlock"}
                  => Hands(t) = {first[t], last[t]} \ {Ghost}
  BY DEF Hands, Filling
<1> QED BY <1>1 DEF InHand, InHands

LEMMA InHandIsNext == DequeType' /\ LinksInv' => (InHand = InHands)'
<1>1. DequeType /\ LinksInv => InHand = InHands
  BY InHandIs
<1>2. (DequeType /\ LinksInv => InHand = InHands)'
  BY <1>1, PTL
<1> QED BY <1>2

LEMMA DequeStepImplements ==
    ASSUME DequeInv, [DequeueNext]_dequeueVars
    PROVE  [AD!Next]_(AD!vars)
<1>1. PICK s : DequeType /\ LockInv /\ HandsInv /\ LinksInv /\ IsDeque(s)
  BY DEF DequeInv
<1>2. Ghost \notin Items /\ Nobody \notin Threads
  BY ItemsAssumption, NobodyAssumption
<1>3. DequeType' /\ LinksInv' /\ \E r : IsDeque(r)' /\ DequeStep(s, r)
  BY <1>1, <1>2, DqNext
<1>4. PICK r : IsDeque(r)' /\ DequeStep(s, r)
  BY <1>3
<1>5. Walk("next") = s /\ Walk("next")' = r
  BY <1>1, <1>4, WalkIsDeque, WalkIsDequeNext
<1>6. outside \cup InHand = OutDeque /\ (outside \cup InHand)' = OutDeque'
  <2>1. InHand = InHands
    BY <1>1, InHandIs
  <2>2. (InHand = InHands)'
    BY <1>3, InHandIsNext
  <2> QED BY <2>1, <2>2 DEF OutDeque
<1>7. CASE r = s /\ OutDeque' = OutDeque
  BY <1>5, <1>6, <1>7 DEF AD!vars
<1>8. ASSUME NEW a \in Items, a \in OutDeque, Grown(s, r, <<a>>), OutDeque' = OutDeque \ {a}
      PROVE  AD!Push(<<a>>)
  <2>1. AD!Elements(<<a>>) = {a} /\ Len(<<a>>) = 1
    BY DEF AD!Elements
  <2>2. AD!Cardinality({a}) = 1
    BY FS_Singleton, DequeCardinality
  <2>3. Walk("next")' = <<a>> \o Walk("next") \/ Walk("next")' = Walk("next") \o <<a>>
    BY <1>5, <1>8 DEF Grown
  <2>4. {a} \subseteq outside \cup InHand /\ (outside \cup InHand)' = (outside \cup InHand) \ {a}
    BY <1>6, <1>8
  <2> QED BY <2>1, <2>2, <2>3, <2>4 DEF AD!Push
<1>9. ASSUME NEW a \in Items, NEW b \in Items, a # b, {a, b} \subseteq OutDeque,
             Grown(s, r, <<a, b>>), OutDeque' = OutDeque \ {a, b}
      PROVE  AD!Push(<<a, b>>)
  <2>1. AD!Elements(<<a, b>>) = {a, b} /\ Len(<<a, b>>) = 2
    BY DEF AD!Elements
  <2>2. AD!Cardinality({a, b}) = 2
    <3>1. IsFiniteSet({a}) /\ Cardinality({a}) = 1 /\ b \notin {a} /\ {a} \cup {b} = {a, b}
      BY <1>9, FS_Singleton
    <3>2. Cardinality({a, b}) = 2
      BY <3>1, FS_AddElement
    <3> QED BY <3>2, DequeCardinality
  <2>3. \/ Walk("next")' = <<a, b>> \o Walk("next")
        \/ Walk("next")' = Walk("next") \o <<a, b>>
    BY <1>5, <1>9 DEF Grown
  <2>4. {a, b} \subseteq outside \cup InHand /\ (outside \cup InHand)' = (outside \cup InHand) \ {a, b}
    BY <1>6, <1>9
  <2> QED BY <2>1, <2>2, <2>3, <2>4 DEF AD!Push
<1>10. ASSUME NEW x, Shrunk(s, r, x), OutDeque' = OutDeque \cup {x}
       PROVE  AD!Pop
  BY <1>5, <1>6, <1>10 DEF Shrunk, AD!Pop
<1>11. CASE \E a, b \in Items :
              \/ a = b /\ a \in OutDeque /\ Grown(s, r, <<a>>) /\ OutDeque' = OutDeque \ {a}
              \/ a # b /\ {a, b} \subseteq OutDeque /\ Grown(s, r, <<a, b>>) /\ OutDeque' = OutDeque \ {a, b}
  BY <1>8, <1>9, <1>11 DEF AD!Next
<1>12. CASE \E x : Shrunk(s, r, x) /\ OutDeque' = OutDeque \cup {x}
  BY <1>10, <1>12 DEF AD!Next
<1> QED BY <1>4, <1>7, <1>11, <1>12 DEF DequeStep

\* The pushes and pops of dague_dequeue_t are atomic operations at the ends of
\* a sequence, taken at the write that makes an item visible or takes it out:
\* the outer link a push sets before it has the lock, and the try-lock of a
\* pop, disturb nobody.
THEOREM DequeueImplements == DequeueSpec => ImplementsAbstractDequeue
<1>1. DequeueInit => AD!Init
  <2> SUFFICES ASSUME DequeueInit PROVE AD!Init
    OBVIOUS
  <2>1. DequeInv /\ IsDeque(<<>>)
    BY InitDeque, ItemsAssumption
  <2>2. Walk("next") = <<>>
    BY <2>1, WalkIsDeque
  <2>3. outside \cup InHand = Items
    <3>1. InHands = {}
      BY DEF InHands, Hands, Filling, DequeueInit
    <3>2. InHand = InHands
      BY <2>1, InHandIs DEF DequeInv
    <3> QED BY <3>1, <3>2 DEF DequeueInit
  <2> QED BY <2>2, <2>3 DEF AD!Init
<1>2. DequeInv /\ [DequeueNext]_dequeueVars => [AD!Next]_(AD!vars)
  BY DequeStepImplements
<1> QED BY <1>1, <1>2, DequeInvariance, PTL DEF DequeueSpec, ImplementsAbstractDequeue, AD!Spec
=============================================================================
