--------------------------- MODULE DataRepoProof ---------------------------
(***************************************************************************)
(* The data repository keeps an entry for as long as a task has a use for  *)
(* it and no longer, and counts the references on the chunks exactly, for  *)
(* every finite graph of tasks and receptions. Where every output of a     *)
(* reception has one user its chunk is given back once, after the last use.*)
(***************************************************************************)
EXTENDS DataRepo, FiniteSetTheorems, TLAPS

Entries == [usagecnt : Nat, usagelmt : Nat, retained : Nat, data : [Params -> Data]]
Phases  == {"waiting", "lookup", "create", "edges", "unuse", "unref", "done"}

TypeInv ==
    /\ entry \in [Keys -> Entries \cup {NoEntry}]
    /\ births \in [Keys -> Nat]
    /\ refcount \in [Chunks -> Int]
    /\ returned \in [Chunks -> Nat]
    /\ released \in [LocalTasks -> SUBSET Nat]
    /\ \A t \in LocalTasks : released[t] \subseteq DOMAIN In[t]
    /\ pc \in [Activities -> Phases]
    /\ \A r \in Receipts : pc[r] \in {"create", "edges", "done"}
    /\ index \in [Activities -> Nat \ {0}]
    /\ DOMAIN found = LocalTasks
    /\ \A t \in LocalTasks : found[t] \in [DOMAIN In[t] -> Nat]
    /\ DOMAIN got = LocalTasks
    /\ \A t \in LocalTasks : got[t] \in [DOMAIN In[t] -> Data]
    /\ mine \in [Activities -> Nat]
    /\ usage \in [Activities -> Nat]
    /\ ready \in [Activities -> SUBSET LocalTasks]

\* The activity has released that edge.
Sent(a, i) == pc[a] \in {"unuse", "unref", "done"} \/ (pc[a] = "edges" /\ i < index[a])

\* A task runs once, after all its inputs were released, each by its edge; an
\* activity counts the edges it has sent and keeps the tasks it made ready.
EdgeFlow ==
    \A a \in Activities : \A i \in DOMAIN Out[a] :
        Out[a][i][3] \in released[Out[a][i][2]] <=> Sent(a, i)
TaskFlow ==
    \A t \in LocalTasks :
        /\ pc[t] # "waiting" => released[t] = DOMAIN In[t]
        /\ pc[t] = "waiting" => index[t] = 1
        /\ pc[t] = "unref" => index[t] \in DOMAIN In[t]
UsageFlow ==
    \A a \in Activities :
        /\ pc[a] = "edges" => usage[a] = index[a] - 1 /\ index[a] <= Len(Out[a]) + 1
        /\ pc[a] \in {"waiting", "lookup", "create"} => usage[a] = 0
ReadyFlow ==
    \A a \in Activities :
        /\ \A t \in ready[a] : pc[t] = "waiting" /\ released[t] = DOMAIN In[t]
        /\ \A b \in Activities : a # b => ready[a] \cap ready[b] = {}
FlowInv == EdgeFlow /\ TaskFlow /\ UsageFlow /\ ReadyFlow

\* What an edge has released is what its activity deposits, in the entry until
\* its use and with the task that has looked it up.
DataInv ==
    /\ \A a \in Activities : \A i \in DOMAIN Out[a] :
          LET p == Out[a][i][1]  c == Out[a][i][2]  j == Out[a][i][3]
          IN  Sent(a, i) =>
                 /\ j \in ToUse(c) => entry[KeyOf[a]].data[p] = DataOf(a, p)
                 /\ j \in LookedUp(c) => got[c][j] = DataOf(a, p)
                 /\ j \in ToUse(c) /\ j \in LookedUp(c) => found[c][j] = births[KeyOf[a]]
    /\ \A t \in LocalTasks : \A j \in LookedUp(t) : got[t][j] # Null

RepoInv == TypeInv /\ FlowInv /\ DataInv /\ RetainedWhileCounting /\ CountsExact

\* Every output of a remote task is an input of one local task.
OneUserEach ==
    \A r \in Receipts : \A i, k \in DOMAIN Out[r] : Out[r][i][1] = Out[r][k][1] => i = k

\* A chunk is held or given back from the moment it is given to its task.
GivenOut(d) == \E i \in DOMAIN Out[d[1]] : Out[d[1]][i][1] = d[2] /\ Sent(d[1], i)
ReturnInv ==
    \A d \in Chunks :
        /\ GivenOut(d) => (returned[d] = 0 /\ Holders(d) # {}) \/ (returned[d] = 1 /\ Holders(d) = {})
        /\ ~ GivenOut(d) => returned[d] = 0 /\ Holders(d) = {}

-----------------------------------------------------------------------------
(* The graph.                                                              *)

LEMMA EdgeFacts ==
    ASSUME NEW a \in Activities
    PROVE  /\ KeyOf[a] \in Keys
           /\ Len(Out[a]) \in Nat /\ DOMAIN Out[a] = 1..Len(Out[a])
           /\ \A i \in DOMAIN Out[a] :
                 /\ Out[a][i][1] \in Params /\ Out[a][i][2] \in LocalTasks
                 /\ Out[a][i][3] \in DOMAIN In[Out[a][i][2]]
                 /\ In[Out[a][i][2]][Out[a][i][3]][1] = KeyOf[a]
                 /\ In[Out[a][i][2]][Out[a][i][3]][2] = Out[a][i][1]
<1>1. Out[a] \in Seq(Params \X LocalTasks \X Nat) /\ KeyOf[a] \in Keys
  BY RepoAssumption
<1>2. ASSUME NEW i \in DOMAIN Out[a]
      PROVE  /\ Out[a][i][1] \in Params /\ Out[a][i][2] \in LocalTasks
             /\ Out[a][i][3] \in DOMAIN In[Out[a][i][2]]
             /\ In[Out[a][i][2]][Out[a][i][3]][1] = KeyOf[a]
             /\ In[Out[a][i][2]][Out[a][i][3]][2] = Out[a][i][1]
  <2>1. Out[a][i] \in Params \X LocalTasks \X Nat
    BY <1>1
  <2>2. /\ Out[a][i][3] \in DOMAIN In[Out[a][i][2]]
        /\ In[Out[a][i][2]][Out[a][i][3]] = <<KeyOf[a], Out[a][i][1]>>
    BY EdgesAssumption
  <2> QED
    BY <2>1, <2>2
<1> QED
  BY <1>1, <1>2

LEMMA InputFacts ==
    ASSUME NEW t \in LocalTasks
    PROVE  /\ Len(In[t]) \in Nat /\ DOMAIN In[t] = 1..Len(In[t])
           /\ \A j \in DOMAIN In[t] :
                 /\ In[t][j][1] \in Keys /\ In[t][j][2] \in Params
                 /\ \E a \in Activities : \E i \in DOMAIN Out[a] :
                       Out[a][i][2] = t /\ Out[a][i][3] = j
<1>1. In[t] \in Seq(Keys \X Params)
  BY RepoAssumption
<1>2. \A j \in DOMAIN In[t] : In[t][j] \in Keys \X Params
  BY <1>1
<1>3. \A j \in DOMAIN In[t] : \E a \in Activities : \E i \in DOMAIN Out[a] :
          Out[a][i][2] = t /\ Out[a][i][3] = j
  BY EdgesAssumption
<1> QED
  BY <1>1, <1>2, <1>3

LEMMA OneProducer ==
    ASSUME NEW a \in Activities, NEW b \in Activities, KeyOf[a] = KeyOf[b],
           NEW i \in DOMAIN Out[a], NEW k \in DOMAIN Out[b], Out[a][i][1] = Out[b][k][1]
    PROVE  a = b
BY EdgesAssumption

LEMMA OneEdge ==
    ASSUME NEW a \in Activities, NEW b \in Activities,
           NEW i \in DOMAIN Out[a], NEW k \in DOMAIN Out[b],
           Out[a][i][2] = Out[b][k][2], Out[a][i][3] = Out[b][k][3]
    PROVE  a = b /\ i = k
BY EdgesAssumption

Pairs(S, F) == UNION {{x} \X DOMAIN F[x] : x \in S}
AllInputs   == Pairs(LocalTasks, In)
AllEdges    == Pairs(Activities, Out)

LEMMA FinitePairs ==
    ASSUME NEW S, IsFiniteSet(S), NEW F,
           \A x \in S : DOMAIN F[x] = 1..Len(F[x]) /\ Len(F[x]) \in Nat
    PROVE  IsFiniteSet(Pairs(S, F))
<1> DEFINE f == [x \in S |-> {x} \X DOMAIN F[x]]
           T == {{x} \X DOMAIN F[x] : x \in S}
<1>1. f \in Surjection(S, T)
  BY DEF Surjection
<1>2. IsFiniteSet(T)
  <2> HIDE DEF f, T
  <2> QED BY <1>1, FS_Surjection
<1>3. ASSUME NEW U \in T PROVE IsFiniteSet(U)
  <2>1. PICK x \in S : U = {x} \X DOMAIN F[x]
    OBVIOUS
  <2>2. IsFiniteSet({x})
    BY FS_Singleton
  <2>3. IsFiniteSet(1..Len(F[x]))
    BY FS_Interval
  <2> QED
    BY <2>1, <2>2, <2>3, FS_Product
<1> QED
  BY <1>2, <1>3, FS_UNION DEF Pairs

LEMMA FiniteGraph ==
    IsFiniteSet(Activities) /\ IsFiniteSet(AllInputs) /\ IsFiniteSet(AllEdges)
<1>1. IsFiniteSet(Activities)
  BY RepoAssumption, FS_Union DEF Activities
<1>2. IsFiniteSet(AllInputs)
  <2>1. \A t \in LocalTasks : DOMAIN In[t] = 1..Len(In[t]) /\ Len(In[t]) \in Nat
    BY InputFacts
  <2> QED
    BY <2>1, RepoAssumption, FinitePairs DEF AllInputs
<1>3. IsFiniteSet(AllEdges)
  <2>1. \A a \in Activities : DOMAIN Out[a] = 1..Len(Out[a]) /\ Len(Out[a]) \in Nat
    BY EdgeFacts
  <2> QED
    BY <1>1, <2>1, FinitePairs DEF AllEdges
<1> QED
  BY <1>1, <1>2, <1>3

\* The sets of the invariant, element by element.
LEMMA UsesIs ==
    ASSUME TypeInv, NEW k \in Keys
    PROVE  /\ Uses(k) \subseteq AllInputs
           /\ IsFiniteSet(Uses(k))
           /\ \A t, j : <<t, j>> \in Uses(k) <=>
                  t \in LocalTasks /\ j \in ToUse(t) /\ In[t][j][1] = k
<1>1. \A t \in LocalTasks : ToUse(t) \subseteq DOMAIN In[t]
  BY DEF TypeInv, ToUse
<1>2. Uses(k) \subseteq AllInputs
  BY <1>1 DEF Uses, AllInputs, Pairs
<1>3. IsFiniteSet(Uses(k))
  BY <1>2, FiniteGraph, FS_Subset
<1>4. \A t, j : <<t, j>> \in Uses(k) <=>
          t \in LocalTasks /\ j \in ToUse(t) /\ In[t][j][1] = k
  BY DEF Uses
<1> QED
  BY <1>2, <1>3, <1>4

LEMMA HoldersIs ==
    ASSUME TypeInv, NEW d
    PROVE  /\ Holders(d) \subseteq AllInputs
           /\ IsFiniteSet(Holders(d))
           /\ \A t, j : <<t, j>> \in Holders(d) <=>
                  t \in LocalTasks /\ j \in ToDrop(t) /\ DatumOf(t, j) = d
<1>1. \A t \in LocalTasks : ToDrop(t) \subseteq DOMAIN In[t]
  BY DEF TypeInv, ToDrop
<1>2. Holders(d) \subseteq AllInputs
  BY <1>1 DEF Holders, AllInputs, Pairs
<1>3. IsFiniteSet(Holders(d))
  BY <1>2, FiniteGraph, FS_Subset
<1>4. \A t, j : <<t, j>> \in Holders(d) <=>
          t \in LocalTasks /\ j \in ToDrop(t) /\ DatumOf(t, j) = d
  BY DEF Holders
<1> QED
  BY <1>2, <1>3, <1>4

LEMMA CountingIs ==
    ASSUME TypeInv, FlowInv, NEW k \in Keys
    PROVE  /\ IsFiniteSet(Releasing(k)) /\ IsFiniteSet(Counting(k))
           /\ Counting(k) \subseteq AllEdges
           /\ \A a, i : <<a, i>> \in Counting(k) <=>
                  a \in Releasing(k) /\ i \in 1..(index[a] - 1)
<1>1. Releasing(k) \subseteq Activities
  BY DEF Releasing
<1>2. IsFiniteSet(Releasing(k))
  BY <1>1, FiniteGraph, FS_Subset
<1>3. \A a, i : <<a, i>> \in Counting(k) <=>
          a \in Releasing(k) /\ i \in 1..(index[a] - 1)
  BY DEF Counting
<1>4. ASSUME NEW a \in Releasing(k), NEW i \in 1..(index[a] - 1) PROVE i \in DOMAIN Out[a]
  <2>1. a \in Activities /\ pc[a] = "edges" /\ index[a] \in Nat
    BY DEF Releasing, TypeInv
  <2>2. index[a] <= Len(Out[a]) + 1
    BY <2>1 DEF FlowInv, EdgeFlow, TaskFlow, UsageFlow, ReadyFlow
  <2> QED
    BY <2>1, <2>2, EdgeFacts
<1>5. Counting(k) \subseteq AllEdges
  BY <1>1, <1>4 DEF Counting, AllEdges, Pairs
<1>6. IsFiniteSet(Counting(k))
  BY <1>5, FiniteGraph, FS_Subset
<1> QED
  BY <1>2, <1>3, <1>5, <1>6

-----------------------------------------------------------------------------
(* What each action does to the inputs to use, to drop and looked up, and  *)
(* to the edges sent.                                                      *)

Resting(t) == ToUse(t)' = ToUse(t) /\ ToDrop(t)' = ToDrop(t) /\ LookedUp(t)' = LookedUp(t)
SentKept == \A b \in Activities : \A k \in DOMAIN Out[b] : Sent(b, k)' <=> Sent(b, k)

LEMMA WaitingKnowsNothing ==
    ASSUME TypeInv, FlowInv, NEW t \in LocalTasks, pc[t] = "waiting"
    PROVE  ToUse(t) = released[t] /\ ToDrop(t) = released[t] /\ LookedUp(t) = {}
BY DEF ToUse, ToDrop, LookedUp, Past

LEMMA ReleaseEdgeSets ==
    ASSUME TypeInv, FlowInv, NEW a \in Activities, ReleaseEdge(a),
           NEW i, i = index[a], NEW c, c = Out[a][i][2], NEW j, j = Out[a][i][3]
    PROVE  /\ i \in DOMAIN Out[a] /\ c \in LocalTasks /\ j \in DOMAIN In[c]
           /\ pc[a] = "edges" /\ pc[c] = "waiting" /\ j \notin released[c]
           /\ ToUse(c)' = ToUse(c) \cup {j} /\ j \notin ToUse(c)
           /\ ToDrop(c)' = ToDrop(c) \cup {j} /\ j \notin ToDrop(c)
           /\ LookedUp(c)' = LookedUp(c) /\ LookedUp(c) = {}
           /\ \A t \in LocalTasks : t # c => Resting(t)
           /\ ~ Sent(a, i) /\ Sent(a, i)'
           /\ \A b \in Activities : \A k \in DOMAIN Out[b] :
                 <<b, k>> # <<a, i>> => (Sent(b, k)' <=> Sent(b, k))
<1>1. /\ i \in DOMAIN Out[a] /\ pc[a] = "edges" /\ pc' = pc /\ i \in Nat
      /\ released' = [released EXCEPT ![c] = @ \cup {j}]
      /\ index' = [index EXCEPT ![a] = i + 1]
  BY DEF ReleaseEdge, TypeInv
<1>2. c \in LocalTasks /\ j \in DOMAIN In[c] /\ DOMAIN Out[a] \subseteq Nat
  BY <1>1, EdgeFacts
<1>3. ~ Sent(a, i)
  BY <1>1 DEF Sent
<1>4. j \notin released[c]
  BY <1>1, <1>3 DEF FlowInv, EdgeFlow, TaskFlow, UsageFlow, ReadyFlow
<1>5. pc[c] = "waiting"
  BY <1>2, <1>4 DEF FlowInv, EdgeFlow, TaskFlow, UsageFlow, ReadyFlow
<1>6. c # a
  BY <1>1, <1>5
<1>7. /\ released'[c] = released[c] \cup {j} /\ index'[c] = index[c]
      /\ \A t \in LocalTasks : t # c => released'[t] = released[t]
  BY <1>1, <1>2, <1>6 DEF TypeInv, Activities
<1>8. /\ ToUse(c)' = ToUse(c) \cup {j} /\ j \notin ToUse(c)
      /\ ToDrop(c)' = ToDrop(c) \cup {j} /\ j \notin ToDrop(c)
      /\ LookedUp(c)' = LookedUp(c) /\ LookedUp(c) = {}
  BY <1>1, <1>2, <1>4, <1>5, <1>7 DEF ToUse, ToDrop, LookedUp, Past
<1>9. ASSUME NEW t \in LocalTasks, t # c PROVE Resting(t)
  <2>1. CASE t = a
    BY <1>1, <1>7, <1>9, <2>1 DEF Resting, ToUse, ToDrop, LookedUp, Past
  <2>2. CASE t # a
    <3>1. index'[t] = index[t]
      BY <1>1, <2>2
    <3> QED
      BY <1>1, <1>7, <1>9, <3>1 DEF Resting, ToUse, ToDrop, LookedUp, Past
  <2> QED
    BY <2>1, <2>2
<1>10. Sent(a, i)'
  BY <1>1 DEF Sent, TypeInv
<1>11. ASSUME NEW b \in Activities, NEW k \in DOMAIN Out[b], <<b, k>> # <<a, i>>
       PROVE  Sent(b, k)' <=> Sent(b, k)
  <2>1. CASE b = a
    <3>1. k # i /\ k \in Int /\ index'[a] = i + 1 /\ i \in Int
      BY <1>11, <2>1, <1>1, EdgeFacts DEF TypeInv
    <3>2. k < index'[a] <=> k < index[a]
      BY <3>1
    <3> QED
      BY <1>1, <2>1, <3>2 DEF Sent
  <2>2. CASE b # a
    BY <1>1, <2>2 DEF Sent
  <2> QED
    BY <2>1, <2>2
<1> QED
  BY <1>1, <1>2, <1>3, <1>4, <1>5, <1>8, <1>9, <1>10, <1>11

LEMMA UsedOnceSets ==
    ASSUME TypeInv, FlowInv, NEW t \in LocalTasks, UsedOnce(t), NEW j, j = index[t]
    PROVE  /\ j \in DOMAIN In[t] /\ j \in ToUse(t) /\ ToUse(t)' = ToUse(t) \ {j}
           /\ ToDrop(t)' = ToDrop(t) /\ LookedUp(t)' = LookedUp(t)
           /\ \A u \in LocalTasks : u # t => Resting(u)
           /\ SentKept
<1>1. /\ j \in DOMAIN In[t] /\ pc[t] = "unuse" /\ pc' = [pc EXCEPT ![t] = "unref"]
      /\ released' = released /\ index' = index /\ t \in Activities /\ j \in Nat
  BY DEF UsedOnce, Goto, TypeInv, Activities
<1>2. released[t] = DOMAIN In[t] /\ DOMAIN In[t] \subseteq Nat
  BY <1>1, InputFacts DEF FlowInv, EdgeFlow, TaskFlow, UsageFlow, ReadyFlow
<1>3. pc'[t] = "unref" /\ \A b \in Activities : b # t => pc'[b] = pc[b]
  BY <1>1 DEF TypeInv
<1>4. j \in ToUse(t)
  BY <1>1, <1>2 DEF ToUse
<1>5. ToUse(t)' = ToUse(t) \ {j}
  <2>1. \A x \in Nat : x <= j <=> x < j \/ x = j
    BY <1>1
  <2> QED
    BY <1>1, <1>2, <1>3, <2>1 DEF ToUse
<1>6. ToDrop(t)' = ToDrop(t) /\ LookedUp(t)' = LookedUp(t)
  BY <1>1, <1>3 DEF ToDrop, LookedUp, Past
<1>7. \A u \in LocalTasks : u # t => Resting(u)
  BY <1>1, <1>3 DEF Resting, ToUse, ToDrop, LookedUp, Past, Activities
<1>8. SentKept
  BY <1>1, <1>3 DEF SentKept, Sent
<1> QED
  BY <1>1, <1>4, <1>5, <1>6, <1>7, <1>8

LEMMA UnrefSets ==
    ASSUME TypeInv, FlowInv, NEW t \in LocalTasks, Unref(t), NEW j, j = index[t]
    PROVE  /\ j \in DOMAIN In[t] /\ j \in ToDrop(t) /\ ToDrop(t)' = ToDrop(t) \ {j}
           /\ j \in LookedUp(t)
           /\ ToUse(t)' = ToUse(t) /\ LookedUp(t)' = LookedUp(t)
           /\ \A u \in LocalTasks : u # t => Resting(u)
           /\ SentKept
<1>1. /\ pc[t] = "unref" /\ pc' = [pc EXCEPT ![t] = "unuse"]
      /\ released' = released /\ index' = [index EXCEPT ![t] = j + 1]
      /\ t \in Activities /\ j \in Nat
  BY DEF Unref, Goto, TypeInv, Activities
<1>2. released[t] = DOMAIN In[t] /\ DOMAIN In[t] \subseteq Nat /\ j \in DOMAIN In[t]
  BY <1>1, InputFacts DEF FlowInv, EdgeFlow, TaskFlow, UsageFlow, ReadyFlow
<1>3. /\ pc'[t] = "unuse" /\ index'[t] = j + 1
      /\ \A b \in Activities : b # t => pc'[b] = pc[b] /\ index'[b] = index[b]
  BY <1>1 DEF TypeInv
<1>4. \A x \in Nat : x < j + 1 <=> x <= j /\ (x <= j <=> x < j \/ x = j)
  BY <1>1
<1>5. /\ j \in ToDrop(t) /\ j \in LookedUp(t)
      /\ ToDrop(t)' = ToDrop(t) \ {j}
  BY <1>1, <1>2, <1>3, <1>4 DEF ToDrop, LookedUp, Past
<1>6. ToUse(t)' = ToUse(t) /\ LookedUp(t)' = LookedUp(t)
  BY <1>1, <1>2, <1>3, <1>4 DEF ToUse, LookedUp, Past
<1>7. \A u \in LocalTasks : u # t => Resting(u)
  BY <1>1, <1>3 DEF Resting, ToUse, ToDrop, LookedUp, Past, Activities
<1>8. SentKept
  BY <1>1, <1>3 DEF SentKept, Sent
<1> QED
  BY <1>2, <1>5, <1>6, <1>7, <1>8

LEMMA LookupSets ==
    ASSUME TypeInv, FlowInv, NEW t \in LocalTasks, Lookup(t), NEW j, j = index[t]
    PROVE  /\ j \in DOMAIN In[t] /\ j \in ToUse(t) /\ j \notin LookedUp(t)
           /\ LookedUp(t)' = LookedUp(t) \cup {j}
           /\ ToUse(t)' = ToUse(t) /\ ToDrop(t)' = ToDrop(t)
           /\ \A u \in LocalTasks : u # t => Resting(u)
           /\ SentKept
<1>1. /\ pc[t] = "lookup" /\ pc' = pc /\ released' = released
      /\ index' = [index EXCEPT ![t] = j + 1]
      /\ t \in Activities /\ j \in Nat /\ j \in DOMAIN In[t]
  BY DEF Lookup, TypeInv, Activities
<1>2. released[t] = DOMAIN In[t] /\ DOMAIN In[t] \subseteq Nat
  BY <1>1, InputFacts DEF FlowInv, EdgeFlow, TaskFlow, UsageFlow, ReadyFlow
<1>3. /\ index'[t] = j + 1
      /\ \A b \in Activities : b # t => index'[b] = index[b]
  BY <1>1 DEF TypeInv
<1>4. \A x \in Nat : x < j + 1 <=> x < j \/ x = j
  BY <1>1
<1>5. ~(j < j)
  BY <1>1
<1>6. /\ j \in ToUse(t) /\ ToUse(t)' = ToUse(t) /\ ToDrop(t)' = ToDrop(t)
  BY <1>1, <1>2 DEF ToUse, ToDrop
<1>7. j \notin LookedUp(t) /\ LookedUp(t)' = LookedUp(t) \cup {j}
  BY <1>1, <1>2, <1>3, <1>4, <1>5 DEF LookedUp, Past
<1>8. \A u \in LocalTasks : u # t => Resting(u)
  BY <1>1, <1>3 DEF Resting, ToUse, ToDrop, LookedUp, Past, Activities
<1>9. SentKept
  BY <1>1, <1>3 DEF SentKept, Sent
<1> QED
  BY <1>1, <1>6, <1>7, <1>8, <1>9

LEMMA BodySets ==
    ASSUME TypeInv, FlowInv, NEW t \in LocalTasks, Body(t)
    PROVE  SentKept /\ \A u \in LocalTasks : Resting(u)
<1>1. /\ pc[t] = "lookup" /\ pc' = [pc EXCEPT ![t] = "create"]
      /\ released' = released /\ index' = index
      /\ t \in Activities /\ index[t] \in Nat \ {0} /\ index[t] \notin DOMAIN In[t]
  BY DEF Body, Goto, TypeInv, Activities
<1>2. pc'[t] = "create" /\ \A b \in Activities : b # t => pc'[b] = pc[b]
  BY <1>1 DEF TypeInv
<1>3. \A j \in DOMAIN In[t] : j < index[t]
  BY <1>1, InputFacts
<1>4. Resting(t)
  BY <1>1, <1>2, <1>3 DEF Resting, ToUse, ToDrop, LookedUp, Past
<1>5. \A u \in LocalTasks : u # t => Resting(u)
  BY <1>1, <1>2 DEF Resting, ToUse, ToDrop, LookedUp, Past, Activities
<1>6. SentKept
  BY <1>1, <1>2 DEF SentKept, Sent
<1> QED
  BY <1>4, <1>5, <1>6

LEMMA FinishSets ==
    ASSUME TypeInv, FlowInv, NEW t \in LocalTasks, Finish(t)
    PROVE  SentKept /\ \A u \in LocalTasks : Resting(u)
<1>1. /\ pc[t] = "unuse" /\ pc' = [pc EXCEPT ![t] = "done"]
      /\ released' = released /\ index' = index
      /\ t \in Activities /\ index[t] \in Nat \ {0} /\ index[t] \notin DOMAIN In[t]
  BY DEF Finish, Goto, TypeInv, Activities
<1>2. pc'[t] = "done" /\ \A b \in Activities : b # t => pc'[b] = pc[b]
  BY <1>1 DEF TypeInv
<1>3. \A j \in DOMAIN In[t] : j < index[t]
  BY <1>1, InputFacts
<1>4. released[t] \subseteq DOMAIN In[t]
  BY DEF TypeInv
<1>5. Resting(t)
  BY <1>1, <1>2, <1>3, <1>4 DEF Resting, ToUse, ToDrop, LookedUp, Past
<1>6. \A u \in LocalTasks : u # t => Resting(u)
  BY <1>1, <1>2 DEF Resting, ToUse, ToDrop, LookedUp, Past, Activities
<1>7. SentKept
  BY <1>1, <1>2 DEF SentKept, Sent
<1> QED
  BY <1>5, <1>6, <1>7

LEMMA LookupAndCreateSets ==
    ASSUME TypeInv, FlowInv, NEW a \in Activities, LookupAndCreate(a)
    PROVE  SentKept /\ \A u \in LocalTasks : Resting(u)
<1>1. /\ pc[a] = "create" /\ pc' = [pc EXCEPT ![a] = "edges"]
      /\ released' = released /\ index' = [index EXCEPT ![a] = 1]
  BY DEF LookupAndCreate, Goto
<1>2. /\ pc'[a] = "edges" /\ index'[a] = 1
      /\ \A b \in Activities : b # a => pc'[b] = pc[b] /\ index'[b] = index[b]
  BY <1>1 DEF TypeInv
<1>3. ASSUME NEW u \in LocalTasks PROVE Resting(u)
  BY <1>1, <1>2 DEF Resting, ToUse, ToDrop, LookedUp, Past, Activities
<1>4. \A i \in DOMAIN Out[a] : ~(i < 1)
  BY EdgeFacts
<1>5. SentKept
  BY <1>1, <1>2, <1>4 DEF SentKept, Sent
<1> QED
  BY <1>3, <1>5

LEMMA AddToUsageLimitSets ==
    ASSUME TypeInv, FlowInv, NEW a \in Activities, AddToUsageLimit(a)
    PROVE  /\ SentKept /\ \A u \in LocalTasks : Resting(u)
           /\ pc[a] = "edges" /\ a \notin ready[a]
           /\ pc'[a] = IF a \in LocalTasks THEN "unuse" ELSE "done"
           /\ \A b \in ready[a] : /\ pc[b] = "waiting" /\ pc'[b] = "lookup"
                                  /\ released[b] = DOMAIN In[b]
                                  /\ index[b] = 1 /\ index'[b] = 1
           /\ \A b \in Activities \ ready[a] : b # a => pc'[b] = pc[b]
           /\ pc' \in [Activities -> Phases]
           /\ index' = [index EXCEPT ![a] = 1]
<1>1. /\ pc[a] = "edges" /\ index[a] \notin DOMAIN Out[a] /\ released' = released
      /\ index' = [index EXCEPT ![a] = 1]
      /\ ready[a] \subseteq LocalTasks
      /\ pc' = [b \in Activities |->
                IF b \in ready[a] THEN "lookup"
                ELSE IF b # a THEN pc[b]
                ELSE IF a \in LocalTasks THEN "unuse" ELSE "done"]
  BY DEF AddToUsageLimit, TypeInv
<1>2. \A b \in ready[a] : pc[b] = "waiting" /\ released[b] = DOMAIN In[b] /\ index[b] = 1
  BY <1>1 DEF FlowInv, EdgeFlow, TaskFlow, UsageFlow, ReadyFlow
<1>3. a \notin ready[a]
  BY <1>1, <1>2
<1>4. pc'[a] = IF a \in LocalTasks THEN "unuse" ELSE "done"
  BY <1>1, <1>3
<1>5. \A b \in ready[a] : pc'[b] = "lookup" /\ index'[b] = 1
  BY <1>1, <1>2, <1>3 DEF Activities, TypeInv
<1>6. \A b \in Activities \ ready[a] : b # a => pc'[b] = pc[b]
  BY <1>1
<1>7. index'[a] = 1 /\ \A b \in Activities : b # a => index'[b] = index[b]
  BY <1>1 DEF TypeInv
<1>8. ASSUME NEW u \in LocalTasks PROVE Resting(u)
  <2>1. \A j \in DOMAIN In[u] : ~(j < 1)
    BY InputFacts
  <2>2. released[u] \subseteq DOMAIN In[u] /\ u \in Activities
    BY DEF TypeInv, Activities
  <2>3. CASE u \in ready[a]
    <3>1. pc[u] = "waiting" /\ pc'[u] = "lookup" /\ index'[u] = 1
      BY <1>2, <1>5, <2>3
    <3> QED
      BY <1>1, <2>1, <2>2, <3>1 DEF Resting, ToUse, ToDrop, LookedUp, Past
  <2>4. CASE u = a
    <3>1. pc[u] = "edges" /\ pc'[u] = "unuse" /\ index'[u] = 1
      BY <1>1, <1>4, <1>7, <2>4
    <3> QED
      BY <1>1, <2>1, <2>2, <3>1 DEF Resting, ToUse, ToDrop, LookedUp, Past
  <2>5. CASE u \notin ready[a] /\ u # a
    <3>1. pc'[u] = pc[u] /\ index'[u] = index[u]
      BY <1>6, <1>7, <2>2, <2>5
    <3> QED
      BY <1>1, <3>1 DEF Resting, ToUse, ToDrop, LookedUp, Past
  <2> QED
    BY <2>3, <2>4, <2>5
<1>9. ASSUME NEW b \in Activities, NEW k \in DOMAIN Out[b]
      PROVE  Sent(b, k)' <=> Sent(b, k)
  <2>1. CASE b = a
    <3>1. k < index[a]
      BY <1>1, <2>1, EdgeFacts DEF TypeInv
    <3>2. Sent(b, k)
      BY <1>1, <2>1, <3>1 DEF Sent
    <3>3. Sent(b, k)'
      BY <1>4, <2>1 DEF Sent
    <3> QED
      BY <3>2, <3>3
  <2>2. CASE b \in ready[a]
    BY <1>2, <1>5, <2>2 DEF Sent
  <2>3. CASE b \notin ready[a] /\ b # a
    BY <1>6, <1>7, <2>3 DEF Sent
  <2> QED
    BY <2>1, <2>2, <2>3
<1>10. pc' \in [Activities -> Phases]
  <2>1. pc' = [b \in Activities |-> pc'[b]]
    BY <1>1
  <2>2. \A b \in Activities : pc'[b] \in Phases
    BY <1>4, <1>5, <1>6 DEF TypeInv, Phases
  <2> QED
    BY <2>1, <2>2
<1> QED
  BY <1>1, <1>2, <1>3, <1>4, <1>5, <1>6, <1>8, <1>9, <1>10 DEF SentKept

-----------------------------------------------------------------------------
(* The counters of an entry.                                               *)

LEMMA RetainedIs ==
    ASSUME NEW e \in Entries \cup {NoEntry}, NEW r, r = Retained(e)
    PROVE  /\ r \in Entries /\ r # NoEntry
           /\ e = NoEntry => r = NewEntry /\ r.usagecnt = 0 /\ r.usagelmt = 0 /\ r.retained = 1
           /\ e # NoEntry => /\ r.usagecnt = e.usagecnt /\ r.usagelmt = e.usagelmt
                             /\ r.retained = e.retained + 1 /\ r.data = e.data
<1>1. NewEntry \in Entries
  BY DEF NewEntry, Entries, Data
<1>2. NoEntry \notin Entries
  BY RepoAssumption DEF Entries
<1>3. CASE e = NoEntry
  BY <1>1, <1>2, <1>3 DEF Retained, NewEntry
<1>4. CASE e # NoEntry
  BY <1>2, <1>4 DEF Retained, Entries
<1> QED
  BY <1>3, <1>4

LEMMA LimitedIs ==
    ASSUME NEW e \in Entries, NEW n \in Nat, e.retained >= 1, NEW r, r = Limited(e, n)
    PROVE  /\ r \in Entries \cup {NoEntry}
           /\ e.usagelmt + n = e.usagecnt /\ e.retained = 1 => r = NoEntry
           /\ ~(e.usagelmt + n = e.usagecnt /\ e.retained = 1) =>
                 /\ r # NoEntry /\ r.usagecnt = e.usagecnt /\ r.usagelmt = e.usagelmt + n
                 /\ r.retained = e.retained - 1 /\ r.data = e.data
<1> DEFINE f == [e EXCEPT !.usagelmt = @ + n, !.retained = @ - 1]
<1>1. /\ f \in Entries /\ f.usagecnt = e.usagecnt /\ f.usagelmt = e.usagelmt + n
      /\ f.retained = e.retained - 1 /\ f.data = e.data
      /\ e.retained \in Nat /\ e.usagelmt \in Nat /\ e.usagecnt \in Nat
  <2>1. e.retained \in Nat /\ e.usagelmt \in Nat /\ e.usagecnt \in Nat
    BY DEF Entries
  <2>2. e.retained - 1 \in Nat /\ e.usagelmt + n \in Nat
    BY <2>1
  <2> QED
    BY <2>1, <2>2 DEF Entries
<1>2. f # NoEntry
  BY <1>1, RepoAssumption DEF Entries
<1>3. r = IF f.usagelmt = f.usagecnt /\ f.retained = 0 THEN NoEntry ELSE f
  BY DEF Limited, Collected
<1> HIDE DEF f
<1>4. f.retained = 0 <=> e.retained = 1
  BY <1>1
<1> QED
  BY <1>1, <1>2, <1>3, <1>4

LEMMA UsedIs ==
    ASSUME NEW e \in Entries, NEW r, r = Used(e)
    PROVE  /\ r \in Entries \cup {NoEntry}
           /\ e.usagelmt = e.usagecnt + 1 /\ e.retained = 0 => r = NoEntry
           /\ ~(e.usagelmt = e.usagecnt + 1 /\ e.retained = 0) =>
                 /\ r # NoEntry /\ r.usagecnt = e.usagecnt + 1 /\ r.usagelmt = e.usagelmt
                 /\ r.retained = e.retained /\ r.data = e.data
<1> DEFINE f == [e EXCEPT !.usagecnt = @ + 1]
<1>1. /\ f \in Entries /\ f.usagecnt = e.usagecnt + 1 /\ f.usagelmt = e.usagelmt
      /\ f.retained = e.retained /\ f.data = e.data
  BY DEF Entries
<1>2. f # NoEntry
  BY <1>1, RepoAssumption DEF Entries
<1>3. r = IF f.usagelmt = f.usagecnt /\ f.retained = 0 THEN NoEntry ELSE f
  BY DEF Used, Collected
<1> HIDE DEF f
<1> QED
  BY <1>1, <1>2, <1>3

LEMMA DataOfType ==
    ASSUME TypeInv, NEW a \in Activities, NEW p \in Params
    PROVE  DataOf(a, p) \in Data
<1>1. CASE a \in Receipts
  BY <1>1 DEF DataOf, Data, Chunks
<1>2. CASE a \notin Receipts
  <2>1. a \in LocalTasks /\ Carries[a][p] \in 0..Len(In[a])
    BY <1>2, RepoAssumption DEF Activities
  <2>2. CASE Carries[a][p] = 0
    BY <1>2, <2>2 DEF DataOf, Data
  <2>3. CASE Carries[a][p] # 0
    <3>1. Carries[a][p] \in DOMAIN In[a]
      BY <2>1, <2>3, InputFacts
    <3> QED
      BY <1>2, <2>1, <2>3, <3>1 DEF DataOf, TypeInv
  <2> QED
    BY <2>2, <2>3
<1> QED
  BY <1>1, <1>2

\* An activity that explores its successors retains its entry.
LEMMA ReleasingRetains ==
    ASSUME TypeInv, FlowInv, RetainedWhileCounting, NEW a \in Activities, pc[a] = "edges",
           NEW k, k = KeyOf[a]
    PROVE  /\ k \in Keys /\ entry[k] # NoEntry /\ entry[k] \in Entries /\ entry[k].retained >= 1
           /\ a \in Releasing(k)
<1>1. k \in Keys /\ a \in Releasing(k)
  BY EdgeFacts DEF Releasing
<1>2. entry[k] # NoEntry /\ entry[k] \in Entries
  BY <1>1 DEF RetainedWhileCounting, TypeInv
<1>3. entry[k].retained = Cardinality(Releasing(k)) /\ IsFiniteSet(Releasing(k))
  BY <1>1, <1>2, CountingIs DEF RetainedWhileCounting
<1>4. Cardinality(Releasing(k)) \in Nat /\ Cardinality(Releasing(k)) # 0
  BY <1>1, <1>3, FS_CardinalityType, FS_EmptySet
<1> QED
  BY <1>1, <1>2, <1>3, <1>4

\* An input to use finds an entry.
LEMMA ToUseFinds ==
    ASSUME TypeInv, CountsExact, NEW t \in LocalTasks, NEW j \in ToUse(t), NEW k, k = In[t][j][1]
    PROVE  /\ k \in Keys /\ entry[k] # NoEntry /\ entry[k] \in Entries
           /\ <<t, j>> \in Uses(k)
<1>1. j \in DOMAIN In[t]
  BY DEF ToUse, TypeInv
<1>2. k \in Keys /\ <<t, j>> \in Uses(k)
  BY <1>1, InputFacts, UsesIs
<1> QED
  BY <1>2 DEF CountsExact, TypeInv

\* What the actions do to the entries.
LEMMA ReleaseEdgeEntry ==
    ASSUME TypeInv, FlowInv, RetainedWhileCounting, NEW a \in Activities, ReleaseEdge(a),
           NEW k, k = KeyOf[a], NEW i, i = index[a], NEW p, p = Out[a][i][1],
           NEW d, d = DataOf(a, p)
    PROVE  /\ k \in Keys /\ p \in Params /\ d \in Data
           /\ entry[k] # NoEntry /\ entry[k] \in Entries /\ entry[k].retained >= 1
           /\ entry'[k] \in Entries /\ entry'[k] # NoEntry
           /\ entry'[k].usagecnt = entry[k].usagecnt /\ entry'[k].usagelmt = entry[k].usagelmt
           /\ entry'[k].retained = entry[k].retained
           /\ entry'[k].data = [entry[k].data EXCEPT ![p] = d]
           /\ \A x \in Keys : x # k => entry'[x] = entry[x]
           /\ entry' \in [Keys -> Entries \cup {NoEntry}]
<1>1. i \in DOMAIN Out[a] /\ pc[a] = "edges"
  BY DEF ReleaseEdge
<1>2. k \in Keys /\ p \in Params
  BY <1>1, EdgeFacts
<1>3. d \in Data
  BY <1>2, DataOfType
<1>4. entry[k] # NoEntry /\ entry[k] \in Entries /\ entry[k].retained >= 1
  BY <1>1, ReleasingRetains
<1>5. entry' = [entry EXCEPT ![k] = [entry[k] EXCEPT !.data = [entry[k].data EXCEPT ![p] = d]]]
  BY DEF ReleaseEdge
<1> DEFINE e == [entry[k] EXCEPT !.data = [entry[k].data EXCEPT ![p] = d]]
<1>6. /\ e \in Entries /\ e.usagecnt = entry[k].usagecnt /\ e.usagelmt = entry[k].usagelmt
      /\ e.retained = entry[k].retained /\ e.data = [entry[k].data EXCEPT ![p] = d]
  BY <1>2, <1>3, <1>4 DEF Entries
<1>7. e # NoEntry
  BY <1>6, RepoAssumption DEF Entries
<1> HIDE DEF e
<1>8. entry'[k] = e /\ \A x \in Keys : x # k => entry'[x] = entry[x]
  BY <1>2, <1>5 DEF TypeInv, e
<1>9. entry' \in [Keys -> Entries \cup {NoEntry}]
  BY <1>2, <1>5, <1>6 DEF TypeInv, e
<1> QED
  BY <1>2, <1>3, <1>4, <1>6, <1>7, <1>8, <1>9

LEMMA ReleaseEdgeCounters ==
    ASSUME TypeInv, FlowInv, RetainedWhileCounting, NEW a \in Activities, ReleaseEdge(a),
           NEW k, k = KeyOf[a]
    PROVE  /\ entry[k] # NoEntry /\ entry[k] \in Entries
           /\ entry'[k] # NoEntry /\ entry'[k].usagecnt = entry[k].usagecnt
           /\ entry'[k].usagelmt = entry[k].usagelmt
<1> PICK i, p, d : i = index[a] /\ p = Out[a][i][1] /\ d = DataOf(a, p)
  OBVIOUS
<1>1. /\ k \in Keys /\ p \in Params /\ d \in Data
      /\ entry[k] # NoEntry /\ entry[k] \in Entries
      /\ entry'[k] \in Entries /\ entry'[k] # NoEntry
      /\ entry'[k].usagecnt = entry[k].usagecnt /\ entry'[k].usagelmt = entry[k].usagelmt
      /\ entry'[k].data = [entry[k].data EXCEPT ![p] = d]
  BY ReleaseEdgeEntry
<1> QED
  BY <1>1

LEMMA LookupAndCreateEntry ==
    ASSUME TypeInv, NEW a \in Activities, LookupAndCreate(a), NEW k, k = KeyOf[a]
    PROVE  /\ k \in Keys /\ entry[k] \in Entries \cup {NoEntry}
           /\ entry'[k] = Retained(entry[k])
           /\ \A x \in Keys : x # k => entry'[x] = entry[x] /\ births'[x] = births[x]
           /\ births'[k] = IF entry[k] = NoEntry THEN births[k] + 1 ELSE births[k]
           /\ mine' = [mine EXCEPT ![a] = births'[k]] /\ births[k] \in Nat
           /\ entry' \in [Keys -> Entries \cup {NoEntry}] /\ births' \in [Keys -> Nat]
<1>1. k \in Keys
  BY EdgeFacts
<1>2. /\ entry' = [entry EXCEPT ![k] = Retained(entry[k])]
      /\ births' = [births EXCEPT ![k] = IF entry[k] = NoEntry THEN births[k] + 1 ELSE births[k]]
      /\ mine' = [mine EXCEPT ![a] = births'[k]]
  BY DEF LookupAndCreate
<1>3. entry[k] \in Entries \cup {NoEntry} /\ births[k] \in Nat
  BY <1>1 DEF TypeInv
<1>4. Retained(entry[k]) \in Entries
  BY <1>3, RetainedIs
<1>5. (IF entry[k] = NoEntry THEN births[k] + 1 ELSE births[k]) \in Nat
  BY <1>3
<1> QED
  BY <1>1, <1>2, <1>3, <1>4, <1>5 DEF TypeInv

LEMMA AddToUsageLimitEntry ==
    ASSUME TypeInv, FlowInv, RetainedWhileCounting, NEW a \in Activities, AddToUsageLimit(a),
           NEW k, k = KeyOf[a]
    PROVE  /\ k \in Keys /\ entry[k] # NoEntry /\ entry[k] \in Entries /\ entry[k].retained >= 1
           /\ entry'[k] = Limited(entry[k], usage[a]) /\ usage[a] \in Nat
           /\ \A x \in Keys : x # k => entry'[x] = entry[x]
           /\ entry' \in [Keys -> Entries \cup {NoEntry}]
<1>1. pc[a] = "edges" /\ entry' = [entry EXCEPT ![k] = Limited(entry[k], usage[a])]
  BY DEF AddToUsageLimit
<1>2. k \in Keys /\ entry[k] # NoEntry /\ entry[k] \in Entries /\ entry[k].retained >= 1
  BY <1>1, ReleasingRetains
<1>3. usage[a] \in Nat
  BY DEF TypeInv
<1>4. Limited(entry[k], usage[a]) \in Entries \cup {NoEntry}
  BY <1>2, <1>3, LimitedIs
<1> QED
  BY <1>1, <1>2, <1>3, <1>4 DEF TypeInv

LEMMA UsedOnceEntry ==
    ASSUME TypeInv, FlowInv, CountsExact, NEW t \in LocalTasks, UsedOnce(t),
           NEW k, k = In[t][index[t]][1]
    PROVE  /\ k \in Keys /\ entry[k] # NoEntry /\ entry[k] \in Entries
           /\ entry'[k] = Used(entry[k])
           /\ \A x \in Keys : x # k => entry'[x] = entry[x]
           /\ entry' \in [Keys -> Entries \cup {NoEntry}]
<1>1. entry' = [entry EXCEPT ![k] = Used(entry[k])]
  BY DEF UsedOnce
<1>2. k \in Keys /\ entry[k] # NoEntry /\ entry[k] \in Entries
  BY UsedOnceSets, ToUseFinds
<1>3. Used(entry[k]) \in Entries \cup {NoEntry}
  BY <1>2, UsedIs
<1> QED
  BY <1>1, <1>2, <1>3 DEF TypeInv

-----------------------------------------------------------------------------
(* Types.                                                                  *)

LEMMA ReferencedType ==
    ASSUME TypeInv, NEW d
    PROVE  Referenced(d) \in [Chunks -> Int]
BY DEF TypeInv, Referenced

LEMMA ReleaseEdgeType ==
    ASSUME TypeInv, FlowInv, RetainedWhileCounting, NEW a \in Activities, ReleaseEdge(a)
    PROVE  TypeInv'
<1> DEFINE i == index[a]  c == Out[a][i][2]  j == Out[a][i][3]
<1>1. /\ c \in LocalTasks /\ j \in DOMAIN In[c] /\ DOMAIN In[c] \subseteq Nat /\ i \in Nat \ {0}
      /\ usage[a] \in Nat /\ released[c] \subseteq DOMAIN In[c]
  <2>1. c \in LocalTasks /\ j \in DOMAIN In[c]
    BY ReleaseEdgeSets
  <2>2. DOMAIN In[c] \subseteq Nat
    BY <2>1, InputFacts
  <2> QED
    BY <2>1, <2>2 DEF TypeInv
<1>2. /\ released' = [released EXCEPT ![c] = @ \cup {j}]
      /\ usage' = [usage EXCEPT ![a] = @ + 1] /\ index' = [index EXCEPT ![a] = @ + 1]
      /\ refcount' = Referenced(DataOf(a, Out[a][i][1]))
      /\ ready' = [ready EXCEPT ![a] = IF released'[c] = DOMAIN In[c] THEN @ \cup {c} ELSE @]
      /\ UNCHANGED <<births, returned, pc, found, got, mine>>
  BY DEF ReleaseEdge
<1>3. entry' \in [Keys -> Entries \cup {NoEntry}] /\ refcount' \in [Chunks -> Int]
  BY <1>2, ReleaseEdgeEntry, ReferencedType
<1> HIDE DEF i, c, j
<1>4. /\ released' \in [LocalTasks -> SUBSET Nat]
      /\ \A t \in LocalTasks : released'[t] \subseteq DOMAIN In[t]
  BY <1>1, <1>2 DEF TypeInv
<1>5. usage' \in [Activities -> Nat] /\ index' \in [Activities -> Nat \ {0}]
  BY <1>1, <1>2 DEF TypeInv, i
<1>6. ready' \in [Activities -> SUBSET LocalTasks]
  BY <1>1, <1>2 DEF TypeInv
<1> QED
  BY <1>2, <1>3, <1>4, <1>5, <1>6 DEF TypeInv

LEMMA LookupAndCreateType ==
    ASSUME TypeInv, NEW a \in Activities, LookupAndCreate(a)
    PROVE  TypeInv'
<1>1. entry' \in [Keys -> Entries \cup {NoEntry}] /\ births' \in [Keys -> Nat] /\ KeyOf[a] \in Keys
  BY LookupAndCreateEntry
<1>2. /\ mine' = [mine EXCEPT ![a] = births'[KeyOf[a]]]
      /\ pc' = [pc EXCEPT ![a] = "edges"] /\ index' = [index EXCEPT ![a] = 1]
      /\ UNCHANGED <<refcount, returned, released, found, got, usage, ready>>
  BY DEF LookupAndCreate, Goto
<1>3. mine' \in [Activities -> Nat] /\ index' \in [Activities -> Nat \ {0}]
  BY <1>1, <1>2 DEF TypeInv
<1>4. /\ pc' \in [Activities -> Phases]
      /\ \A r \in Receipts : pc'[r] \in {"create", "edges", "done"}
  BY <1>2 DEF TypeInv, Phases, Activities
<1> QED
  BY <1>1, <1>2, <1>3, <1>4 DEF TypeInv

LEMMA AddToUsageLimitType ==
    ASSUME TypeInv, FlowInv, RetainedWhileCounting, NEW a \in Activities, AddToUsageLimit(a)
    PROVE  TypeInv'
<1>1. entry' \in [Keys -> Entries \cup {NoEntry}]
  BY AddToUsageLimitEntry
<1>2. pc' \in [Activities -> Phases] /\ index' = [index EXCEPT ![a] = 1]
  BY AddToUsageLimitSets
<1>3. ready' = [ready EXCEPT ![a] = {}]
      /\ UNCHANGED <<births, refcount, returned, released, found, got, mine, usage>>
  BY DEF AddToUsageLimit
<1>4. ASSUME NEW r \in Receipts PROVE pc'[r] \in {"create", "edges", "done"}
  <2>1. r \in Activities /\ r \notin LocalTasks /\ r \notin ready[a]
    BY RepoAssumption DEF Activities, TypeInv
  <2>2. CASE r = a
    BY <2>1, <2>2, AddToUsageLimitSets
  <2>3. CASE r # a
    <3>1. pc'[r] = pc[r]
      BY <2>1, <2>3, AddToUsageLimitSets
    <3> QED
      BY <3>1 DEF TypeInv
  <2> QED
    BY <2>2, <2>3
<1>5. index' \in [Activities -> Nat \ {0}] /\ ready' \in [Activities -> SUBSET LocalTasks]
  BY <1>2, <1>3 DEF TypeInv
<1> QED
  BY <1>1, <1>2, <1>3, <1>4, <1>5 DEF TypeInv

LEMMA UsedOnceType ==
    ASSUME TypeInv, FlowInv, CountsExact, NEW t \in LocalTasks, UsedOnce(t)
    PROVE  TypeInv'
<1>1. entry' \in [Keys -> Entries \cup {NoEntry}]
  BY UsedOnceEntry
<1>2. /\ pc' = [pc EXCEPT ![t] = "unref"] /\ t \notin Receipts /\ t \in Activities
      /\ UNCHANGED <<births, refcount, returned, released, index, found, got, mine, usage, ready>>
  BY RepoAssumption DEF UsedOnce, Goto, Activities
<1>3. /\ pc' \in [Activities -> Phases]
      /\ \A r \in Receipts : pc'[r] \in {"create", "edges", "done"}
  BY <1>2 DEF TypeInv, Phases, Activities
<1> QED
  BY <1>1, <1>2, <1>3 DEF TypeInv

LEMMA UnrefType ==
    ASSUME TypeInv, FlowInv, NEW t \in LocalTasks, Unref(t)
    PROVE  TypeInv'
<1> DEFINE d == got[t][index[t]]
<1>1. /\ pc' = [pc EXCEPT ![t] = "unuse"] /\ t \notin Receipts /\ t \in Activities
      /\ index' = [index EXCEPT ![t] = @ + 1]
      /\ UNCHANGED <<entry, births, released, found, got, mine, usage, ready>>
  BY RepoAssumption DEF Unref, Goto, Activities
<1>2. refcount' \in [Chunks -> Int] /\ returned' \in [Chunks -> Nat]
  <2>1. CASE d \in Chunks
    <3>1. /\ refcount' = [refcount EXCEPT ![d] = @ - 1]
          /\ returned' = [returned EXCEPT ![d] = IF refcount[d] = 1 THEN @ + 1 ELSE @]
      BY <2>1 DEF Unref
    <3> HIDE DEF d
    <3> QED BY <2>1, <3>1 DEF TypeInv
  <2>2. CASE d \notin Chunks
    <3>1. refcount' = refcount /\ returned' = returned
      BY <2>2 DEF Unref
    <3> QED BY <3>1 DEF TypeInv
  <2> QED
    BY <2>1, <2>2
<1>3. /\ pc' \in [Activities -> Phases]
      /\ \A r \in Receipts : pc'[r] \in {"create", "edges", "done"}
  BY <1>1 DEF TypeInv, Phases, Activities
<1>4. index' \in [Activities -> Nat \ {0}]
  BY <1>1 DEF TypeInv
<1> QED
  BY <1>1, <1>2, <1>3, <1>4 DEF TypeInv

LEMMA LookupType ==
    ASSUME TypeInv, FlowInv, CountsExact, NEW t \in LocalTasks, Lookup(t)
    PROVE  TypeInv'
<1> DEFINE j == index[t]  k == In[t][j][1]  p == In[t][j][2]
<1>1. /\ k \in Keys /\ entry[k] \in Entries /\ j \in DOMAIN In[t] /\ p \in Params
  BY LookupSets, ToUseFinds, InputFacts
<1>2. entry[k].data[p] \in Data /\ births[k] \in Nat
  BY <1>1 DEF Entries, TypeInv
<1>3. /\ found' = [found EXCEPT ![t] = [found[t] EXCEPT ![j] = births[k]]]
      /\ got' = [got EXCEPT ![t] = [got[t] EXCEPT ![j] = entry[k].data[p]]]
      /\ index' = [index EXCEPT ![t] = @ + 1]
      /\ UNCHANGED <<entry, births, refcount, returned, released, pc, mine, usage, ready>>
  BY DEF Lookup
<1> HIDE DEF j, k, p
<1>4. /\ DOMAIN found' = LocalTasks /\ DOMAIN got' = LocalTasks
      /\ \A u \in LocalTasks : found'[u] \in [DOMAIN In[u] -> Nat]
      /\ \A u \in LocalTasks : got'[u] \in [DOMAIN In[u] -> Data]
  BY <1>1, <1>2, <1>3 DEF TypeInv
<1>5. index' \in [Activities -> Nat \ {0}]
  BY <1>3 DEF TypeInv, Activities
<1> QED
  BY <1>3, <1>4, <1>5 DEF TypeInv

LEMMA MoveType ==
    ASSUME TypeInv, NEW t \in LocalTasks, Body(t) \/ Finish(t)
    PROVE  TypeInv'
<1>1. /\ pc' = [pc EXCEPT ![t] = pc'[t]] /\ pc'[t] \in Phases
      /\ t \notin Receipts /\ t \in Activities
      /\ UNCHANGED <<entry, births, refcount, returned, released, index, found, got, mine,
                     usage, ready>>
  BY RepoAssumption DEF Body, Finish, Goto, Activities, TypeInv, Phases
<1>2. /\ pc' \in [Activities -> Phases]
      /\ \A r \in Receipts : pc'[r] \in {"create", "edges", "done"}
  BY <1>1 DEF TypeInv, Activities
<1> QED
  BY <1>1, <1>2 DEF TypeInv

-----------------------------------------------------------------------------
(* The flow of the tasks.                                                  *)

LEMMA ReleaseEdgeFlow ==
    ASSUME TypeInv, FlowInv, NEW a \in Activities, ReleaseEdge(a)
    PROVE  FlowInv'
<1> PICK i, c, j : i = index[a] /\ c = Out[a][i][2] /\ j = Out[a][i][3]
  OBVIOUS
<1>1. /\ i \in DOMAIN Out[a] /\ c \in LocalTasks /\ j \in DOMAIN In[c]
      /\ pc[a] = "edges" /\ pc[c] = "waiting" /\ j \notin released[c]
      /\ ~ Sent(a, i) /\ Sent(a, i)'
      /\ \A b \in Activities : \A k \in DOMAIN Out[b] :
            <<b, k>> # <<a, i>> => (Sent(b, k)' <=> Sent(b, k))
  BY ReleaseEdgeSets
<1>2. /\ pc' = pc /\ released' = [released EXCEPT ![c] = @ \cup {j}]
      /\ index' = [index EXCEPT ![a] = @ + 1] /\ usage' = [usage EXCEPT ![a] = @ + 1]
      /\ ready' = [ready EXCEPT ![a] = IF released'[c] = DOMAIN In[c] THEN @ \cup {c} ELSE @]
  BY DEF ReleaseEdge
<1>3. /\ released'[c] = released[c] \cup {j}
      /\ \A t \in LocalTasks : t # c => released'[t] = released[t]
  BY <1>1, <1>2 DEF TypeInv
<1>4. EdgeFlow'
  <2> SUFFICES ASSUME NEW b \in Activities, NEW k \in DOMAIN Out[b]
               PROVE  Out[b][k][3] \in released'[Out[b][k][2]] <=> Sent(b, k)'
    BY DEF EdgeFlow
  <2>1. CASE b = a /\ k = i
    BY <1>1, <1>3, <2>1
  <2>2. CASE <<b, k>> # <<a, i>>
    <3>1. Out[b][k][2] = c => Out[b][k][3] # j
      <4>1. Out[b][k][2] = Out[a][i][2] /\ Out[b][k][3] = Out[a][i][3] => a = b /\ i = k
        BY <1>1, OneEdge
      <4> QED
        BY <2>2, <4>1
    <3>2. Out[b][k][2] \in LocalTasks
      BY EdgeFacts
    <3>3. Out[b][k][3] \in released'[Out[b][k][2]] <=> Out[b][k][3] \in released[Out[b][k][2]]
      BY <1>3, <3>1, <3>2
    <3> QED
      BY <1>1, <2>2, <3>3 DEF FlowInv, EdgeFlow
  <2> QED
    BY <2>1, <2>2
<1>5. TaskFlow'
  <2>1. \A t \in LocalTasks : pc[t] # "edges" => index'[t] = index[t]
    BY <1>1, <1>2 DEF TypeInv, Activities
  <2>2. \A t \in LocalTasks : t # c =>
            /\ pc'[t] # "waiting" => released'[t] = DOMAIN In[t]
            /\ pc'[t] = "waiting" => index'[t] = 1
            /\ pc'[t] = "unref" => index'[t] \in DOMAIN In[t]
    BY <1>2, <1>3, <2>1 DEF FlowInv, TaskFlow
  <2>3. pc'[c] = "waiting" /\ index'[c] = 1
    BY <1>1, <1>2, <2>1 DEF FlowInv, TaskFlow
  <2> QED
    BY <2>2, <2>3 DEF TaskFlow
<1>6. UsageFlow'
  <2>1. i \in Nat /\ i <= Len(Out[a]) /\ Len(Out[a]) \in Nat
    <3>1. DOMAIN Out[a] = 1..Len(Out[a]) /\ Len(Out[a]) \in Nat
      BY EdgeFacts
    <3> QED
      BY <1>1, <3>1
  <2>2. i + 1 <= Len(Out[a]) + 1 /\ usage[a] = i - 1
    BY <1>1, <2>1 DEF FlowInv, UsageFlow
  <2>3. usage'[a] = index'[a] - 1 /\ index'[a] <= Len(Out[a]) + 1
    BY <1>2, <2>1, <2>2 DEF TypeInv
  <2>4. \A b \in Activities : b # a => usage'[b] = usage[b] /\ index'[b] = index[b]
    BY <1>2 DEF TypeInv
  <2> QED
    BY <1>1, <1>2, <2>3, <2>4 DEF FlowInv, UsageFlow
<1>7. ReadyFlow'
  <2>1. /\ \A b \in Activities : b # a => ready'[b] = ready[b]
        /\ ready'[a] \subseteq ready[a] \cup {c}
        /\ c \in ready'[a] => released'[c] = DOMAIN In[c] \/ c \in ready[a]
    BY <1>2 DEF TypeInv
  <2>2. \A b \in Activities : c \notin ready[b]
    BY <1>1 DEF FlowInv, ReadyFlow
  <2>3. ASSUME NEW b \in Activities, NEW t \in ready'[b]
        PROVE  pc'[t] = "waiting" /\ released'[t] = DOMAIN In[t]
    <3>1. CASE t = c
      BY <1>1, <1>2, <2>1, <2>2, <2>3, <3>1
    <3>2. CASE t # c
      <4>1. t \in ready[b] /\ t \in LocalTasks
        BY <2>1, <2>3, <3>2 DEF TypeInv
      <4> QED
        BY <1>2, <1>3, <3>2, <4>1 DEF FlowInv, ReadyFlow
    <3> QED
      BY <3>1, <3>2
  <2>4. \A b, d \in Activities : b # d => ready[b] \cap ready[d] = {}
    BY DEF FlowInv, ReadyFlow
  <2>5. \A b, d \in Activities : b # d => ready'[b] \cap ready'[d] = {}
    BY <2>1, <2>2, <2>4
  <2> QED
    BY <2>3, <2>5 DEF ReadyFlow
<1> QED
  BY <1>4, <1>5, <1>6, <1>7 DEF FlowInv

\* A step that releases nothing leaves the edges as they are.
LEMMA EdgeFlowKept ==
    ASSUME EdgeFlow, SentKept, released' = released
    PROVE  EdgeFlow'
BY DEF EdgeFlow, SentKept

LEMMA LookupAndCreateFlow ==
    ASSUME TypeInv, FlowInv, NEW a \in Activities, LookupAndCreate(a)
    PROVE  FlowInv'
<1>1. /\ pc[a] = "create" /\ pc' = [pc EXCEPT ![a] = "edges"]
      /\ index' = [index EXCEPT ![a] = 1]
      /\ UNCHANGED <<released, usage, ready>>
  BY DEF LookupAndCreate, Goto
<1>2. /\ pc'[a] = "edges" /\ index'[a] = 1
      /\ \A b \in Activities : b # a => pc'[b] = pc[b] /\ index'[b] = index[b]
  BY <1>1 DEF TypeInv
<1>3. EdgeFlow'
  BY <1>1, EdgeFlowKept, LookupAndCreateSets DEF FlowInv
<1>4. TaskFlow'
  BY <1>1, <1>2 DEF FlowInv, TaskFlow, Activities
<1>5. UsageFlow'
  <2>1. usage[a] = 0 /\ Len(Out[a]) \in Nat
    BY <1>1, EdgeFacts DEF FlowInv, UsageFlow
  <2> QED
    BY <1>1, <1>2, <2>1 DEF FlowInv, UsageFlow
<1>6. ReadyFlow'
  <2>1. \A b \in Activities : \A t \in ready[b] : t # a /\ t \in Activities
    BY <1>1 DEF FlowInv, ReadyFlow, TypeInv, Activities
  <2> QED
    BY <1>1, <1>2, <2>1 DEF FlowInv, ReadyFlow
<1> QED
  BY <1>3, <1>4, <1>5, <1>6 DEF FlowInv

LEMMA AddToUsageLimitFlow ==
    ASSUME TypeInv, FlowInv, NEW a \in Activities, AddToUsageLimit(a)
    PROVE  FlowInv'
<1>1. /\ pc[a] = "edges" /\ a \notin ready[a]
      /\ pc'[a] \in {"unuse", "done"}
      /\ \A b \in ready[a] : pc[b] = "waiting" /\ pc'[b] = "lookup" /\ released[b] = DOMAIN In[b]
      /\ \A b \in Activities \ ready[a] : b # a => pc'[b] = pc[b]
      /\ index' = [index EXCEPT ![a] = 1] /\ SentKept
  BY AddToUsageLimitSets
<1>2. ready' = [ready EXCEPT ![a] = {}] /\ UNCHANGED <<released, usage>>
  BY DEF AddToUsageLimit
<1>3. \A b \in Activities : b # a => index'[b] = index[b]
  BY <1>1 DEF TypeInv
<1>4. EdgeFlow'
  BY <1>1, <1>2, EdgeFlowKept DEF FlowInv
<1>5. TaskFlow'
  <2> SUFFICES ASSUME NEW t \in LocalTasks
               PROVE  /\ pc'[t] # "waiting" => released'[t] = DOMAIN In[t]
                      /\ pc'[t] = "waiting" => index'[t] = 1
                      /\ pc'[t] = "unref" => index'[t] \in DOMAIN In[t]
    BY DEF TaskFlow
  <2>1. CASE t = a
    BY <1>1, <1>2, <2>1 DEF FlowInv, TaskFlow
  <2>2. CASE t \in ready[a]
    BY <1>1, <1>2, <2>2 DEF FlowInv, TaskFlow
  <2>3. CASE t # a /\ t \notin ready[a]
    <3>1. pc'[t] = pc[t] /\ index'[t] = index[t]
      BY <1>1, <1>3, <2>3 DEF Activities
    <3> QED
      BY <1>2, <3>1 DEF FlowInv, TaskFlow
  <2> QED
    BY <2>1, <2>2, <2>3
<1>6. UsageFlow'
  <2>1. \A b \in ready[a] : usage[b] = 0 /\ b \in Activities
    BY <1>1 DEF FlowInv, UsageFlow, TypeInv, Activities
  <2> QED
    BY <1>1, <1>2, <1>3, <2>1 DEF FlowInv, UsageFlow
<1>7. ReadyFlow'
  <2>1. ready'[a] = {} /\ \A b \in Activities : b # a => ready'[b] = ready[b]
    BY <1>2 DEF TypeInv
  <2>2. ASSUME NEW b \in Activities, b # a, NEW t \in ready[b]
        PROVE  pc'[t] = "waiting" /\ released'[t] = DOMAIN In[t]
    <3>1. pc[t] = "waiting" /\ released[t] = DOMAIN In[t] /\ t \notin ready[a]
      BY <2>2 DEF FlowInv, ReadyFlow
    <3>2. t # a /\ t \in Activities
      BY <1>1, <3>1 DEF TypeInv, Activities
    <3> QED
      BY <1>1, <1>2, <3>1, <3>2
  <2> QED
    BY <2>1, <2>2 DEF FlowInv, ReadyFlow
<1> QED
  BY <1>4, <1>5, <1>6, <1>7 DEF FlowInv

\* The steps of a local task from its hook to its end keep its flow.
LEMMA TaskStepFlow ==
    ASSUME TypeInv, FlowInv, NEW t \in LocalTasks,
           Lookup(t) \/ Body(t) \/ UsedOnce(t) \/ Unref(t) \/ Finish(t)
    PROVE  FlowInv'
<1>1. /\ pc[t] \in {"lookup", "unuse", "unref"} /\ t \in Activities
      /\ pc' = [pc EXCEPT ![t] = pc'[t]] /\ pc'[t] \in {"lookup", "create", "unuse", "unref", "done"}
      /\ pc[t] # "lookup" => pc'[t] \notin {"lookup", "create"}
      /\ pc'[t] = "unref" => index'[t] \in DOMAIN In[t]
      /\ UNCHANGED <<released, usage, ready>>
      /\ index' = [index EXCEPT ![t] = index'[t]]
  BY DEF Lookup, Body, UsedOnce, Unref, Finish, Goto, TypeInv, Activities
<1>2. \A b \in Activities : b # t => pc'[b] = pc[b] /\ index'[b] = index[b]
  BY <1>1 DEF TypeInv
<1>3. SentKept
  BY LookupSets, BodySets, UsedOnceSets, UnrefSets, FinishSets
<1>4. EdgeFlow'
  BY <1>1, <1>3, EdgeFlowKept DEF FlowInv
<1>5. TaskFlow'
  BY <1>1, <1>2 DEF FlowInv, TaskFlow, Activities
<1>6. UsageFlow'
  BY <1>1, <1>2 DEF FlowInv, UsageFlow
<1>7. ReadyFlow'
  <2>1. \A b \in Activities : \A u \in ready[b] : u # t /\ u \in Activities
    BY <1>1 DEF FlowInv, ReadyFlow, TypeInv, Activities
  <2> QED
    BY <1>1, <1>2, <2>1 DEF FlowInv, ReadyFlow
<1> QED
  BY <1>4, <1>5, <1>6, <1>7 DEF FlowInv

-----------------------------------------------------------------------------
(* The sets the counters count, after each action.                         *)

LEMMA UsesKept ==
    ASSUME \A t \in LocalTasks : ToUse(t)' = ToUse(t), NEW k
    PROVE  Uses(k)' = Uses(k)
BY DEF Uses

LEMMA UsesGain ==
    ASSUME NEW c \in LocalTasks, NEW j, ToUse(c)' = ToUse(c) \cup {j},
           \A t \in LocalTasks : t # c => ToUse(t)' = ToUse(t), NEW k
    PROVE  Uses(k)' = IF In[c][j][1] = k THEN Uses(k) \cup {<<c, j>>} ELSE Uses(k)
<1>1. \A x : x \in Uses(k)' <=>
          \E t \in LocalTasks : \E i \in ToUse(t)' : In[t][i][1] = k /\ x = <<t, i>>
  BY DEF Uses
<1>2. \A x : x \in Uses(k) <=>
          \E t \in LocalTasks : \E i \in ToUse(t) : In[t][i][1] = k /\ x = <<t, i>>
  BY DEF Uses
<1>3. CASE In[c][j][1] = k
  <2>1. \A x : x \in Uses(k)' <=> x \in Uses(k) \/ x = <<c, j>>
    BY <1>1, <1>2, <1>3
  <2> QED
    BY <1>3, <2>1
<1>4. CASE In[c][j][1] # k
  <2>1. \A x : x \in Uses(k)' <=> x \in Uses(k)
    BY <1>1, <1>2, <1>4
  <2> QED
    BY <1>4, <2>1
<1> QED
  BY <1>3, <1>4

LEMMA UsesLoss ==
    ASSUME NEW c \in LocalTasks, NEW j, ToUse(c)' = ToUse(c) \ {j},
           \A t \in LocalTasks : t # c => ToUse(t)' = ToUse(t), NEW k
    PROVE  Uses(k)' = IF In[c][j][1] = k THEN Uses(k) \ {<<c, j>>} ELSE Uses(k)
<1>1. \A x : x \in Uses(k)' <=>
          \E t \in LocalTasks : \E i \in ToUse(t)' : In[t][i][1] = k /\ x = <<t, i>>
  BY DEF Uses
<1>2. \A x : x \in Uses(k) <=>
          \E t \in LocalTasks : \E i \in ToUse(t) : In[t][i][1] = k /\ x = <<t, i>>
  BY DEF Uses
<1>3. CASE In[c][j][1] = k
  <2>1. \A x : x \in Uses(k)' <=> x \in Uses(k) /\ x # <<c, j>>
    BY <1>1, <1>2, <1>3
  <2> QED
    BY <1>3, <2>1
<1>4. CASE In[c][j][1] # k
  <2>1. \A x : x \in Uses(k)' <=> x \in Uses(k)
    BY <1>1, <1>2, <1>4
  <2> QED
    BY <1>4, <2>1
<1> QED
  BY <1>3, <1>4

\* A step of a local task out of its exploration changes neither.
LEMMA CountingKept ==
    ASSUME TypeInv, NEW t \in LocalTasks,
           Lookup(t) \/ Body(t) \/ UsedOnce(t) \/ Unref(t) \/ Finish(t), NEW k
    PROVE  Releasing(k)' = Releasing(k) /\ Counting(k)' = Counting(k)
<1>1. /\ pc[t] # "edges" /\ pc'[t] # "edges" /\ t \in Activities
      /\ \A b \in Activities : b # t => pc'[b] = pc[b] /\ index'[b] = index[b]
  BY DEF Lookup, Body, UsedOnce, Unref, Finish, Goto, TypeInv, Activities
<1>2. Releasing(k)' = Releasing(k)
  BY <1>1 DEF Releasing
<1>3. \A b \in Releasing(k) : index'[b] = index[b]
  BY <1>1 DEF Releasing
<1> QED
  BY <1>2, <1>3 DEF Counting

LEMMA ReleaseEdgeCounting ==
    ASSUME TypeInv, FlowInv, NEW a \in Activities, ReleaseEdge(a),
           NEW i, i = index[a], NEW k
    PROVE  /\ Releasing(k)' = Releasing(k)
           /\ k = KeyOf[a] => Counting(k)' = Counting(k) \cup {<<a, i>>}
                              /\ <<a, i>> \notin Counting(k)
           /\ k # KeyOf[a] => Counting(k)' = Counting(k)
<1>1. /\ pc[a] = "edges" /\ pc' = pc /\ i \in Nat \ {0} /\ index'[a] = i + 1
      /\ \A b \in Activities : b # a => index'[b] = index[b]
  BY DEF ReleaseEdge, TypeInv
<1>2. Releasing(k)' = Releasing(k)
  BY <1>1 DEF Releasing
<1>3. \A x : x \in Counting(k)' <=>
          \E b \in Releasing(k)' : \E m \in 1..(index'[b] - 1) : x = <<b, m>>
  BY DEF Counting
<1>4. \A x : x \in Counting(k) <=>
          \E b \in Releasing(k) : \E m \in 1..(index[b] - 1) : x = <<b, m>>
  BY DEF Counting
<1>5. CASE k = KeyOf[a]
  <2>1. a \in Releasing(k) /\ \A b \in Releasing(k) : b \in Activities
    BY <1>1, <1>5 DEF Releasing
  <2>2. 1..(index'[a] - 1) = 1..(index[a] - 1) \cup {i} /\ i \notin 1..(index[a] - 1)
    BY <1>1
  <2>3. \A x : x \in Counting(k)' <=> x \in Counting(k) \/ x = <<a, i>>
    BY <1>1, <1>2, <1>3, <1>4, <2>1, <2>2
  <2>4. <<a, i>> \notin Counting(k)
    BY <1>4, <2>2
  <2> QED
    BY <1>2, <1>5, <2>3, <2>4
<1>6. CASE k # KeyOf[a]
  <2>1. a \notin Releasing(k) /\ \A b \in Releasing(k) : b \in Activities
    BY <1>6 DEF Releasing
  <2>2. \A x : x \in Counting(k)' <=> x \in Counting(k)
    BY <1>1, <1>2, <1>3, <1>4, <2>1
  <2> QED
    BY <1>2, <1>6, <2>2
<1> QED
  BY <1>5, <1>6

LEMMA LookupAndCreateCounting ==
    ASSUME TypeInv, NEW a \in Activities, LookupAndCreate(a), NEW k
    PROVE  /\ Counting(k)' = Counting(k)
           /\ k = KeyOf[a] => Releasing(k)' = Releasing(k) \cup {a} /\ a \notin Releasing(k)
           /\ k # KeyOf[a] => Releasing(k)' = Releasing(k)
<1>1. /\ pc[a] = "create" /\ pc'[a] = "edges" /\ index'[a] = 1
      /\ \A b \in Activities : b # a => pc'[b] = pc[b] /\ index'[b] = index[b]
  BY DEF LookupAndCreate, Goto, TypeInv
<1>2. a \notin Releasing(k)
  BY <1>1 DEF Releasing
<1>3. /\ k = KeyOf[a] => Releasing(k)' = Releasing(k) \cup {a}
      /\ k # KeyOf[a] => Releasing(k)' = Releasing(k)
  BY <1>1 DEF Releasing
<1>4. \A x : x \in Counting(k)' <=>
          \E b \in Releasing(k)' : \E m \in 1..(index'[b] - 1) : x = <<b, m>>
  BY DEF Counting
<1>5. \A x : x \in Counting(k) <=>
          \E b \in Releasing(k) : \E m \in 1..(index[b] - 1) : x = <<b, m>>
  BY DEF Counting
<1>6. 1..(index'[a] - 1) = {}
  BY <1>1
<1>7. \A b \in Releasing(k) : b \in Activities /\ b # a
  BY <1>2 DEF Releasing
<1>8. \A x : x \in Counting(k)' <=> x \in Counting(k)
  BY <1>1, <1>3, <1>4, <1>5, <1>6, <1>7
<1> QED
  BY <1>2, <1>3, <1>8

LEMMA AddToUsageLimitCounting ==
    ASSUME TypeInv, FlowInv, NEW a \in Activities, AddToUsageLimit(a),
           NEW n, n = usage[a], NEW k
    PROVE  /\ n \in Nat
           /\ k = KeyOf[a] => /\ Releasing(k)' = Releasing(k) \ {a} /\ a \in Releasing(k)
                              /\ Counting(k)' = Counting(k) \ ({a} \X (1..n))
                              /\ {a} \X (1..n) \subseteq Counting(k)
           /\ k # KeyOf[a] => Releasing(k)' = Releasing(k) /\ Counting(k)' = Counting(k)
<1>1. /\ pc[a] = "edges" /\ pc'[a] # "edges"
      /\ \A b \in ready[a] : pc[b] # "edges" /\ pc'[b] # "edges"
      /\ \A b \in Activities \ ready[a] : b # a => pc'[b] = pc[b]
      /\ index' = [index EXCEPT ![a] = 1]
  BY AddToUsageLimitSets
<1>2. \A b \in Activities : b # a => (pc'[b] = "edges" <=> pc[b] = "edges") /\ index'[b] = index[b]
  BY <1>1 DEF TypeInv
<1>3. n \in Nat /\ n = index[a] - 1
  BY <1>1 DEF TypeInv, FlowInv, UsageFlow
<1>4. /\ k = KeyOf[a] => Releasing(k)' = Releasing(k) \ {a} /\ a \in Releasing(k)
      /\ k # KeyOf[a] => Releasing(k)' = Releasing(k) /\ a \notin Releasing(k)
  BY <1>1, <1>2 DEF Releasing
<1>5. \A x : x \in Counting(k)' <=>
          \E b \in Releasing(k)' : \E m \in 1..(index'[b] - 1) : x = <<b, m>>
  BY DEF Counting
<1>6. \A x : x \in Counting(k) <=>
          \E b \in Releasing(k) : \E m \in 1..(index[b] - 1) : x = <<b, m>>
  BY DEF Counting
<1>7. \A b \in Releasing(k) : b \in Activities
  BY DEF Releasing
<1>8. CASE k = KeyOf[a]
  <2>1. \A x : x \in {a} \X (1..n) <=> \E m \in 1..(index[a] - 1) : x = <<a, m>>
    BY <1>3
  <2>2. \A x : x \in Counting(k)' <=> x \in Counting(k) /\ x \notin {a} \X (1..n)
    BY <1>2, <1>4, <1>5, <1>6, <1>7, <1>8, <2>1
  <2>3. {a} \X (1..n) \subseteq Counting(k)
    BY <1>4, <1>6, <1>8, <2>1
  <2> QED
    BY <1>3, <1>4, <1>8, <2>2, <2>3
<1>9. CASE k # KeyOf[a]
  <2>1. \A x : x \in Counting(k)' <=> x \in Counting(k)
    BY <1>2, <1>4, <1>5, <1>6, <1>7, <1>9
  <2> QED
    BY <1>3, <1>4, <1>9, <2>1
<1> QED
  BY <1>8, <1>9

-----------------------------------------------------------------------------
(* The retained counter.                                                   *)

LEMMA RetainedKept ==
    ASSUME RetainedWhileCounting, UNCHANGED <<births, mine>>,
           \A k \in Keys : Releasing(k)' = Releasing(k),
           \A k \in Keys : \/ entry'[k] = entry[k]
                           \/ /\ entry[k] # NoEntry /\ entry'[k] # NoEntry
                              /\ entry'[k].retained = entry[k].retained
                           \/ /\ entry[k] # NoEntry /\ entry'[k] = NoEntry
                              /\ Releasing(k) = {}
    PROVE  RetainedWhileCounting'
BY DEF RetainedWhileCounting

LEMMA LookupAndCreateRetained ==
    ASSUME TypeInv, FlowInv, RetainedWhileCounting, NEW a \in Activities, LookupAndCreate(a)
    PROVE  RetainedWhileCounting'
<1> SUFFICES ASSUME NEW k \in Keys
             PROVE  /\ entry'[k] = NoEntry => Releasing(k)' = {}
                    /\ entry'[k] # NoEntry => entry'[k].retained = Cardinality(Releasing(k)')
                    /\ \A b \in Releasing(k)' : mine'[b] = births'[k]
  BY DEF RetainedWhileCounting
<1>1. /\ entry[k] = NoEntry => Releasing(k) = {}
      /\ entry[k] # NoEntry => entry[k].retained = Cardinality(Releasing(k))
      /\ \A b \in Releasing(k) : mine[b] = births[k]
  BY DEF RetainedWhileCounting
<1>2. mine' = [mine EXCEPT ![a] = births'[KeyOf[a]]]
  BY LookupAndCreateEntry
<1>3. \A b \in Activities : b # a => mine'[b] = mine[b]
  BY <1>2 DEF TypeInv
<1>4. mine'[a] = births'[KeyOf[a]]
  BY <1>2 DEF TypeInv
<1>5. \A b \in Releasing(k) : b \in Activities
  BY DEF Releasing
<1>6. CASE k # KeyOf[a]
  <2>1. entry'[k] = entry[k] /\ births'[k] = births[k]
    BY <1>6, LookupAndCreateEntry
  <2>2. Releasing(k)' = Releasing(k) /\ a \notin Releasing(k)
    BY <1>6, LookupAndCreateCounting DEF Releasing
  <2> QED
    BY <1>1, <1>3, <1>5, <2>1, <2>2
<1>7. CASE k = KeyOf[a]
  <2>1. /\ entry[k] \in Entries \cup {NoEntry} /\ entry'[k] = Retained(entry[k])
        /\ births'[k] = IF entry[k] = NoEntry THEN births[k] + 1 ELSE births[k]
    BY <1>7, LookupAndCreateEntry
  <2>2. Releasing(k)' = Releasing(k) \cup {a} /\ a \notin Releasing(k)
    BY <1>7, LookupAndCreateCounting
  <2>3. IsFiniteSet(Releasing(k))
    BY CountingIs
  <2>4. Cardinality(Releasing(k)') = Cardinality(Releasing(k)) + 1
    BY <2>2, <2>3, FS_AddElement
  <2>5. CASE entry[k] = NoEntry
    <3>1. entry'[k] # NoEntry /\ entry'[k].retained = 1
      BY <2>1, <2>5, RetainedIs
    <3>2. Cardinality(Releasing(k)) = 0
      BY <1>1, <2>5, FS_EmptySet
    <3> QED
      BY <1>1, <1>4, <1>7, <2>2, <2>4, <2>5, <3>1, <3>2
  <2>6. CASE entry[k] # NoEntry
    <3>1. entry'[k] # NoEntry /\ entry'[k].retained = entry[k].retained + 1
      BY <2>1, <2>6, RetainedIs
    <3> QED
      BY <1>1, <1>3, <1>4, <1>5, <1>7, <2>1, <2>2, <2>4, <2>6, <3>1
  <2> QED
    BY <2>5, <2>6
<1> QED
  BY <1>6, <1>7

LEMMA AddToUsageLimitRetained ==
    ASSUME TypeInv, FlowInv, RetainedWhileCounting, NEW a \in Activities, AddToUsageLimit(a)
    PROVE  RetainedWhileCounting'
<1> SUFFICES ASSUME NEW k \in Keys
             PROVE  /\ entry'[k] = NoEntry => Releasing(k)' = {}
                    /\ entry'[k] # NoEntry => entry'[k].retained = Cardinality(Releasing(k)')
                    /\ \A b \in Releasing(k)' : mine'[b] = births'[k]
  BY DEF RetainedWhileCounting
<1>1. /\ entry[k] = NoEntry => Releasing(k) = {}
      /\ entry[k] # NoEntry => entry[k].retained = Cardinality(Releasing(k))
      /\ \A b \in Releasing(k) : mine[b] = births[k]
  BY DEF RetainedWhileCounting
<1>2. mine' = mine /\ births' = births
  BY DEF AddToUsageLimit
<1>3. CASE k # KeyOf[a]
  <2>1. entry'[k] = entry[k]
    BY <1>3, AddToUsageLimitEntry
  <2>2. Releasing(k)' = Releasing(k)
    BY <1>3, AddToUsageLimitCounting
  <2> QED
    BY <1>1, <1>2, <2>1, <2>2
<1>4. CASE k = KeyOf[a]
  <2>1. /\ entry[k] # NoEntry /\ entry[k] \in Entries /\ entry[k].retained >= 1
        /\ entry'[k] = Limited(entry[k], usage[a]) /\ usage[a] \in Nat
    BY <1>4, AddToUsageLimitEntry
  <2>2. Releasing(k)' = Releasing(k) \ {a} /\ a \in Releasing(k)
    BY <1>4, AddToUsageLimitCounting
  <2>3. IsFiniteSet(Releasing(k))
    BY CountingIs
  <2>4. /\ Cardinality(Releasing(k)') = Cardinality(Releasing(k)) - 1
        /\ IsFiniteSet(Releasing(k)')
    BY <2>2, <2>3, FS_RemoveElement
  <2>5. \/ entry'[k] = NoEntry /\ entry[k].retained = 1
        \/ entry'[k] # NoEntry /\ entry'[k].retained = entry[k].retained - 1
    BY <2>1, LimitedIs
  <2>6. CASE entry'[k] = NoEntry /\ entry[k].retained = 1
    <3>1. Cardinality(Releasing(k)') = 0
      BY <1>1, <2>1, <2>4, <2>6
    <3>2. Releasing(k)' = {}
      BY <2>4, <3>1, FS_EmptySet
    <3> QED
      BY <2>6, <3>2
  <2>7. CASE entry'[k] # NoEntry /\ entry'[k].retained = entry[k].retained - 1
    BY <1>1, <1>2, <2>1, <2>2, <2>4, <2>7
  <2> QED
    BY <2>5, <2>6, <2>7
<1> QED
  BY <1>3, <1>4

LEMMA ReleaseEdgeRetained ==
    ASSUME TypeInv, FlowInv, RetainedWhileCounting, NEW a \in Activities, ReleaseEdge(a)
    PROVE  RetainedWhileCounting'
<1>1. UNCHANGED <<births, mine>>
  BY DEF ReleaseEdge
<1>2. \A k \in Keys : Releasing(k)' = Releasing(k)
  BY ReleaseEdgeCounting
<1>3. ASSUME NEW k \in Keys
      PROVE  \/ entry'[k] = entry[k]
             \/ /\ entry[k] # NoEntry /\ entry'[k] # NoEntry
                /\ entry'[k].retained = entry[k].retained
  BY ReleaseEdgeEntry
<1> QED
  BY <1>1, <1>2, <1>3, RetainedKept

LEMMA UsedOnceRetained ==
    ASSUME TypeInv, FlowInv, CountsExact, RetainedWhileCounting,
           NEW t \in LocalTasks, UsedOnce(t)
    PROVE  RetainedWhileCounting'
<1>1. UNCHANGED <<births, mine>>
  BY DEF UsedOnce
<1>2. \A k \in Keys : Releasing(k)' = Releasing(k)
  BY CountingKept
<1>3. ASSUME NEW k \in Keys
      PROVE  \/ entry'[k] = entry[k]
             \/ /\ entry[k] # NoEntry /\ entry'[k] # NoEntry
                /\ entry'[k].retained = entry[k].retained
             \/ /\ entry[k] # NoEntry /\ entry'[k] = NoEntry
                /\ Releasing(k) = {}
  <2>1. CASE k # In[t][index[t]][1]
    BY <2>1, UsedOnceEntry
  <2>2. CASE k = In[t][index[t]][1]
    <3>1. entry[k] # NoEntry /\ entry[k] \in Entries /\ entry'[k] = Used(entry[k])
      BY <2>2, UsedOnceEntry
    <3>2. \/ entry'[k] = NoEntry /\ entry[k].retained = 0
          \/ entry'[k] # NoEntry /\ entry'[k].retained = entry[k].retained
      BY <3>1, UsedIs
    <3>3. entry[k].retained = 0 => Releasing(k) = {}
      BY <3>1, CountingIs, FS_EmptySet DEF RetainedWhileCounting
    <3> QED
      BY <3>1, <3>2, <3>3
  <2> QED
    BY <2>1, <2>2
<1> QED
  BY <1>1, <1>2, <1>3, RetainedKept

LEMMA OtherRetained ==
    ASSUME TypeInv, RetainedWhileCounting, NEW t \in LocalTasks,
           Lookup(t) \/ Body(t) \/ Unref(t) \/ Finish(t)
    PROVE  RetainedWhileCounting'
<1>1. UNCHANGED <<entry, births, mine>>
  BY DEF Lookup, Body, Unref, Finish
<1>2. \A k \in Keys : Releasing(k)' = Releasing(k)
  BY CountingKept
<1> QED
  BY <1>1, <1>2, RetainedKept

-----------------------------------------------------------------------------
(* The usage count and the usage limit.                                    *)

UsesCounted ==
    \A k \in Keys :
        /\ entry[k] = NoEntry => Uses(k) = {}
        /\ entry[k] # NoEntry =>
              /\ entry[k].usagelmt + Cardinality(Counting(k)) - entry[k].usagecnt =
                    Cardinality(Uses(k))
              /\ entry[k].retained > 0 \/ Uses(k) # {}
RefsCounted == \A d \in Chunks : refcount[d] = Cardinality(Holders(d))

LEMMA CountsSplit == FlowInv => (CountsExact <=> UsesCounted /\ RefsCounted)
<1> SUFFICES ASSUME FlowInv PROVE CountsExact <=> UsesCounted /\ RefsCounted
  OBVIOUS
<1>1. \A k \in Keys : \A a \in Releasing(k) : usage[a] = index[a] - 1
  BY DEF FlowInv, UsageFlow, Releasing
<1> QED
  BY <1>1 DEF CountsExact, UsesCounted, RefsCounted

LEMMA UsesCountedKept ==
    ASSUME UsesCounted, NEW k \in Keys, entry'[k] = entry[k],
           Uses(k)' = Uses(k), Counting(k)' = Counting(k)
    PROVE  /\ entry'[k] = NoEntry => Uses(k)' = {}
           /\ entry'[k] # NoEntry =>
                 /\ entry'[k].usagelmt + Cardinality(Counting(k)') - entry'[k].usagecnt =
                       Cardinality(Uses(k)')
                 /\ entry'[k].retained > 0 \/ Uses(k)' # {}
BY DEF UsesCounted

LEMMA LookupAndCreateUses ==
    ASSUME TypeInv, FlowInv, RetainedWhileCounting, UsesCounted,
           NEW a \in Activities, LookupAndCreate(a)
    PROVE  UsesCounted'
<1> SUFFICES ASSUME NEW k \in Keys
             PROVE  /\ entry'[k] = NoEntry => Uses(k)' = {}
                    /\ entry'[k] # NoEntry =>
                          /\ entry'[k].usagelmt + Cardinality(Counting(k)') - entry'[k].usagecnt =
                                Cardinality(Uses(k)')
                          /\ entry'[k].retained > 0 \/ Uses(k)' # {}
  BY DEF UsesCounted
<1>1. Uses(k)' = Uses(k)
  BY LookupAndCreateSets, UsesKept DEF Resting
<1>2. Counting(k)' = Counting(k)
  BY LookupAndCreateCounting
<1>3. CASE k # KeyOf[a]
  <2>1. entry'[k] = entry[k]
    BY <1>3, LookupAndCreateEntry
  <2> QED
    BY <1>1, <1>2, <2>1, UsesCountedKept
<1>4. CASE k = KeyOf[a]
  <2>1. entry[k] \in Entries \cup {NoEntry} /\ entry'[k] = Retained(entry[k])
    BY <1>4, LookupAndCreateEntry
  <2>2. CASE entry[k] = NoEntry
    <3>1. /\ entry'[k] # NoEntry /\ entry'[k].usagelmt = 0 /\ entry'[k].usagecnt = 0
          /\ entry'[k].retained = 1
      BY <2>1, <2>2, RetainedIs
    <3>2. Releasing(k) = {} /\ Uses(k) = {}
      BY <2>2 DEF RetainedWhileCounting, UsesCounted
    <3>3. Counting(k) = {}
      BY <3>2 DEF Counting
    <3> QED
      BY <1>1, <1>2, <3>1, <3>2, <3>3, FS_EmptySet
  <2>3. CASE entry[k] # NoEntry
    <3>1. /\ entry'[k] # NoEntry /\ entry'[k].usagelmt = entry[k].usagelmt
          /\ entry'[k].usagecnt = entry[k].usagecnt
          /\ entry'[k].retained = entry[k].retained + 1 /\ entry[k].retained \in Nat
      BY <2>1, <2>3, RetainedIs DEF Entries
    <3> QED
      BY <1>1, <1>2, <2>3, <3>1 DEF UsesCounted
  <2> QED
    BY <2>2, <2>3
<1> QED
  BY <1>3, <1>4

LEMMA AddToUsageLimitUses ==
    ASSUME TypeInv, FlowInv, RetainedWhileCounting, UsesCounted,
           NEW a \in Activities, AddToUsageLimit(a)
    PROVE  UsesCounted'
<1> SUFFICES ASSUME NEW k \in Keys
             PROVE  /\ entry'[k] = NoEntry => Uses(k)' = {}
                    /\ entry'[k] # NoEntry =>
                          /\ entry'[k].usagelmt + Cardinality(Counting(k)') - entry'[k].usagecnt =
                                Cardinality(Uses(k)')
                          /\ entry'[k].retained > 0 \/ Uses(k)' # {}
  BY DEF UsesCounted
<1>1. Uses(k)' = Uses(k)
  BY AddToUsageLimitSets, UsesKept DEF Resting
<1>2. CASE k # KeyOf[a]
  <2>1. entry'[k] = entry[k]
    BY <1>2, AddToUsageLimitEntry
  <2>2. Counting(k)' = Counting(k)
    BY <1>2, AddToUsageLimitCounting
  <2> QED
    BY <1>1, <2>1, <2>2, UsesCountedKept
<1>3. CASE k = KeyOf[a]
  <2> PICK n : n = usage[a]
    OBVIOUS
  <2>1. /\ entry[k] # NoEntry /\ entry[k] \in Entries /\ entry[k].retained >= 1
        /\ entry'[k] = Limited(entry[k], n) /\ n \in Nat
    BY <1>3, AddToUsageLimitEntry
  <2>2. /\ Counting(k)' = Counting(k) \ ({a} \X (1..n))
        /\ {a} \X (1..n) \subseteq Counting(k)
        /\ Releasing(k)' = Releasing(k) \ {a} /\ a \in Releasing(k)
    BY <1>3, AddToUsageLimitCounting
  <2>3. /\ IsFiniteSet(Counting(k)) /\ IsFiniteSet(Releasing(k)) /\ IsFiniteSet(Uses(k))
        /\ Cardinality(Counting(k)) \in Nat /\ Cardinality(Uses(k)) \in Nat
    BY CountingIs, UsesIs, FS_CardinalityType
  <2>4. Cardinality({a} \X (1..n)) = n
    <3>1. IsFiniteSet({a}) /\ Cardinality({a}) = 1
      BY FS_Singleton
    <3>2. IsFiniteSet(1..n) /\ Cardinality(1..n) = n
      BY <2>1, FS_Interval
    <3> QED
      BY <2>1, <3>1, <3>2, FS_Product
  <2>5. Cardinality(Counting(k)') = Cardinality(Counting(k)) - n
    <3>1. Counting(k) \cap ({a} \X (1..n)) = {a} \X (1..n)
      BY <2>2
    <3>2. Cardinality(Counting(k) \ ({a} \X (1..n))) =
             Cardinality(Counting(k)) - Cardinality(Counting(k) \cap ({a} \X (1..n)))
      BY <2>3, FS_Difference
    <3> QED
      BY <2>2, <2>4, <3>1, <3>2
  <2>6. entry[k].usagelmt + Cardinality(Counting(k)) - entry[k].usagecnt = Cardinality(Uses(k))
    BY <2>1 DEF UsesCounted
  <2>7. entry[k].usagelmt \in Nat /\ entry[k].usagecnt \in Nat /\ entry[k].retained \in Nat
    BY <2>1 DEF Entries
  <2>8. entry[k].retained = 1 => Cardinality(Counting(k)) = n
    <3>1. ASSUME entry[k].retained = 1 PROVE Releasing(k) = {a}
      <4>1. Cardinality(Releasing(k)) = 1
        BY <2>1, <3>1 DEF RetainedWhileCounting
      <4> QED
        BY <2>2, <2>3, <4>1, FS_Singleton
    <3>2. ASSUME entry[k].retained = 1 PROVE Counting(k)' = {}
      BY <2>2, <3>1, <3>2 DEF Counting
    <3>3. ASSUME entry[k].retained = 1 PROVE Cardinality(Counting(k)') = 0
      BY <3>2, <3>3, FS_EmptySet
    <3> QED
      BY <2>1, <2>3, <2>5, <3>3
  <2>9. CASE entry[k].usagelmt + n = entry[k].usagecnt /\ entry[k].retained = 1
    <3>1. entry'[k] = NoEntry
      BY <2>1, <2>9, LimitedIs
    <3>2. Cardinality(Uses(k)) = 0
      BY <2>1, <2>3, <2>6, <2>7, <2>8, <2>9
    <3>3. Uses(k) = {}
      BY <2>3, <3>2, FS_EmptySet
    <3> QED
      BY <1>1, <3>1, <3>3
  <2>10. CASE ~(entry[k].usagelmt + n = entry[k].usagecnt /\ entry[k].retained = 1)
    <3>1. /\ entry'[k] # NoEntry /\ entry'[k].usagecnt = entry[k].usagecnt
          /\ entry'[k].usagelmt = entry[k].usagelmt + n
          /\ entry'[k].retained = entry[k].retained - 1
      BY <2>1, <2>10, LimitedIs
    <3>2. entry'[k].usagelmt + Cardinality(Counting(k)') - entry'[k].usagecnt = Cardinality(Uses(k)')
      BY <1>1, <2>1, <2>3, <2>5, <2>6, <2>7, <3>1
    <3>3. ASSUME entry[k].retained = 1 PROVE Uses(k) # {}
      <4>1. Cardinality(Uses(k)) # 0
        BY <2>1, <2>3, <2>6, <2>7, <2>8, <2>10, <3>3
      <4> QED
        BY <4>1, FS_EmptySet
    <3> QED
      BY <1>1, <2>1, <2>7, <3>1, <3>2, <3>3
  <2> QED
    BY <2>9, <2>10
<1> QED
  BY <1>2, <1>3

LEMMA ReleaseEdgeUses ==
    ASSUME TypeInv, FlowInv, RetainedWhileCounting, UsesCounted,
           NEW a \in Activities, ReleaseEdge(a)
    PROVE  UsesCounted'
<1> SUFFICES ASSUME NEW k \in Keys
             PROVE  /\ entry'[k] = NoEntry => Uses(k)' = {}
                    /\ entry'[k] # NoEntry =>
                          /\ entry'[k].usagelmt + Cardinality(Counting(k)') - entry'[k].usagecnt =
                                Cardinality(Uses(k)')
                          /\ entry'[k].retained > 0 \/ Uses(k)' # {}
  BY DEF UsesCounted
<1>0. \A x \in Keys : x # KeyOf[a] => entry'[x] = entry[x]
  <2>1. entry' = [entry EXCEPT ![KeyOf[a]] = entry'[KeyOf[a]]]
    BY DEF ReleaseEdge, TypeInv
  <2> QED
    BY <2>1 DEF TypeInv
<1> PICK i, c, j : i = index[a] /\ c = Out[a][i][2] /\ j = Out[a][i][3]
  OBVIOUS
<1>1. /\ i \in DOMAIN Out[a] /\ c \in LocalTasks
      /\ ToUse(c)' = ToUse(c) \cup {j} /\ j \notin ToUse(c)
      /\ \A t \in LocalTasks : t # c => ToUse(t)' = ToUse(t)
  BY ReleaseEdgeSets DEF Resting
<1>2. In[c][j][1] = KeyOf[a]
  BY <1>1, EdgeFacts
<1>3. CASE k # KeyOf[a]
  <2>1. Uses(k)' = Uses(k)
    BY <1>1, <1>2, <1>3, UsesGain
  <2>2. entry'[k] = entry[k]
    BY <1>0, <1>3
  <2>3. Counting(k)' = Counting(k)
    BY <1>3, ReleaseEdgeCounting
  <2> QED
    BY <2>1, <2>2, <2>3, UsesCountedKept
<1>4. CASE k = KeyOf[a]
  <2>1. Uses(k)' = Uses(k) \cup {<<c, j>>}
    <3>1. Uses(k)' = IF In[c][j][1] = k THEN Uses(k) \cup {<<c, j>>} ELSE Uses(k)
      BY <1>1, UsesGain
    <3> QED
      BY <1>2, <1>4, <3>1
  <2>2. <<c, j>> \notin Uses(k)
    BY <1>1, UsesIs
  <2>3. /\ entry[k] # NoEntry /\ entry[k] \in Entries
        /\ entry'[k] # NoEntry /\ entry'[k].usagecnt = entry[k].usagecnt
        /\ entry'[k].usagelmt = entry[k].usagelmt
    BY <1>4, ReleaseEdgeCounters
  <2>4. Counting(k)' = Counting(k) \cup {<<a, i>>} /\ <<a, i>> \notin Counting(k)
    BY <1>4, ReleaseEdgeCounting
  <2>5. IsFiniteSet(Counting(k)) /\ IsFiniteSet(Uses(k))
    BY CountingIs, UsesIs
  <2>6. /\ Cardinality(Counting(k)') = Cardinality(Counting(k)) + 1
        /\ Cardinality(Uses(k)') = Cardinality(Uses(k)) + 1
        /\ Cardinality(Counting(k)) \in Nat /\ Cardinality(Uses(k)) \in Nat
    <3>1. Cardinality(Counting(k)') = Cardinality(Counting(k)) + 1
      BY <2>4, <2>5, FS_AddElement
    <3>2. Cardinality(Uses(k)') = Cardinality(Uses(k)) + 1
      BY <2>1, <2>2, <2>5, FS_AddElement
    <3> QED
      BY <2>5, <3>1, <3>2, FS_CardinalityType
  <2>7. /\ entry[k].usagelmt \in Nat /\ entry[k].usagecnt \in Nat
        /\ entry[k].usagelmt + Cardinality(Counting(k)) - entry[k].usagecnt = Cardinality(Uses(k))
    BY <2>3 DEF UsesCounted, Entries
  <2>8. Uses(k)' # {}
    BY <2>1
  <2>9. entry'[k].usagelmt + Cardinality(Counting(k)') - entry'[k].usagecnt =
           Cardinality(Uses(k)')
    BY <2>3, <2>6, <2>7
  <2> QED
    BY <2>3, <2>8, <2>9
<1> QED
  BY <1>3, <1>4

LEMMA UsedOnceUses ==
    ASSUME TypeInv, FlowInv, RetainedWhileCounting, CountsExact, UsesCounted,
           NEW t \in LocalTasks, UsedOnce(t)
    PROVE  UsesCounted'
<1> SUFFICES ASSUME NEW k \in Keys
             PROVE  /\ entry'[k] = NoEntry => Uses(k)' = {}
                    /\ entry'[k] # NoEntry =>
                          /\ entry'[k].usagelmt + Cardinality(Counting(k)') - entry'[k].usagecnt =
                                Cardinality(Uses(k)')
                          /\ entry'[k].retained > 0 \/ Uses(k)' # {}
  BY DEF UsesCounted
<1> PICK j : j = index[t]
  OBVIOUS
<1>1. /\ j \in ToUse(t) /\ ToUse(t)' = ToUse(t) \ {j}
      /\ \A u \in LocalTasks : u # t => ToUse(u)' = ToUse(u)
  BY UsedOnceSets DEF Resting
<1>2. Counting(k)' = Counting(k)
  BY CountingKept
<1>3. CASE k # In[t][j][1]
  <2>1. Uses(k)' = Uses(k)
    BY <1>1, <1>3, UsesLoss
  <2>2. entry'[k] = entry[k]
    BY <1>3, UsedOnceEntry
  <2> QED
    BY <1>2, <2>1, <2>2, UsesCountedKept
<1>4. CASE k = In[t][j][1]
  <2>1. Uses(k)' = Uses(k) \ {<<t, j>>}
    BY <1>1, <1>4, UsesLoss
  <2>2. <<t, j>> \in Uses(k)
    BY <1>1, <1>4, UsesIs
  <2>3. entry[k] # NoEntry /\ entry[k] \in Entries /\ entry'[k] = Used(entry[k])
    BY <1>4, UsedOnceEntry
  <2>4. IsFiniteSet(Counting(k)) /\ IsFiniteSet(Uses(k)) /\ IsFiniteSet(Releasing(k))
    BY CountingIs, UsesIs
  <2>5. /\ Cardinality(Uses(k)') = Cardinality(Uses(k)) - 1 /\ IsFiniteSet(Uses(k)')
        /\ Cardinality(Counting(k)) \in Nat /\ Cardinality(Uses(k)) \in Nat
    BY <2>1, <2>2, <2>4, FS_RemoveElement, FS_CardinalityType
  <2>6. /\ entry[k].usagelmt \in Nat /\ entry[k].usagecnt \in Nat /\ entry[k].retained \in Nat
        /\ entry[k].usagelmt + Cardinality(Counting(k)) - entry[k].usagecnt = Cardinality(Uses(k))
    BY <2>3 DEF UsesCounted, Entries
  <2>7. ASSUME entry[k].retained = 0 PROVE Cardinality(Counting(k)) = 0
    <3>1. Releasing(k) = {}
      BY <2>3, <2>4, <2>7, FS_EmptySet DEF RetainedWhileCounting
    <3>2. Counting(k) = {}
      BY <3>1 DEF Counting
    <3> QED
      BY <3>2, FS_EmptySet
  <2>8. CASE entry[k].usagelmt = entry[k].usagecnt + 1 /\ entry[k].retained = 0
    <3>1. entry'[k] = NoEntry
      BY <2>3, <2>8, UsedIs
    <3>2. Cardinality(Uses(k)') = 0
      BY <2>5, <2>6, <2>7, <2>8
    <3> QED
      BY <2>5, <3>1, <3>2, FS_EmptySet
  <2>9. CASE ~(entry[k].usagelmt = entry[k].usagecnt + 1 /\ entry[k].retained = 0)
    <3>1. /\ entry'[k] # NoEntry /\ entry'[k].usagecnt = entry[k].usagecnt + 1
          /\ entry'[k].usagelmt = entry[k].usagelmt
          /\ entry'[k].retained = entry[k].retained
      BY <2>3, <2>9, UsedIs
    <3>2. ASSUME entry[k].retained = 0 PROVE Uses(k)' # {}
      <4>1. Cardinality(Uses(k)') # 0
        BY <2>5, <2>6, <2>7, <2>9, <3>2
      <4> QED
        BY <4>1, FS_EmptySet
    <3> QED
      BY <1>2, <2>5, <2>6, <3>1, <3>2
  <2> QED
    BY <2>8, <2>9
<1> QED
  BY <1>3, <1>4

LEMMA OtherUses ==
    ASSUME TypeInv, FlowInv, UsesCounted, NEW t \in LocalTasks,
           Lookup(t) \/ Body(t) \/ Unref(t) \/ Finish(t)
    PROVE  UsesCounted'
<1>1. entry' = entry
  BY DEF Lookup, Body, Unref, Finish
<1>2. \A u \in LocalTasks : ToUse(u)' = ToUse(u)
  BY LookupSets, BodySets, UnrefSets, FinishSets DEF Resting
<1>3. \A k \in Keys : Uses(k)' = Uses(k)
  BY <1>2, UsesKept
<1>4. \A k \in Keys : Counting(k)' = Counting(k)
  BY CountingKept
<1> QED
  BY <1>1, <1>3, <1>4 DEF UsesCounted

-----------------------------------------------------------------------------
(* The data in the entries.                                                *)

\* An activity that has sent an edge, or is about to, has its data.
LEMMA DataOfPast ==
    ASSUME TypeInv, DataInv, NEW a \in Activities, pc[a] \notin {"waiting", "lookup"},
           NEW p \in Params
    PROVE  DataOf(a, p) # Null
<1>1. CASE a \in Receipts
  BY <1>1, RepoAssumption DEF DataOf, Chunks
<1>2. CASE a \notin Receipts
  <2>1. a \in LocalTasks /\ Carries[a][p] \in 0..Len(In[a])
    BY <1>2, RepoAssumption DEF Activities
  <2>2. CASE Carries[a][p] = 0
    BY <1>2, <2>2, RepoAssumption DEF DataOf
  <2>3. CASE Carries[a][p] # 0
    <3>1. Carries[a][p] \in DOMAIN In[a]
      BY <2>1, <2>3, InputFacts
    <3>2. Carries[a][p] \in LookedUp(a)
      BY <3>1 DEF LookedUp, Past, TypeInv, Phases
    <3> QED
      BY <1>2, <2>1, <2>3, <3>2 DEF DataOf, DataInv
  <2> QED
    BY <2>2, <2>3
<1> QED
  BY <1>1, <1>2

\* Each input released comes from one edge.
LEMMA EdgeOf ==
    ASSUME TypeInv, FlowInv, NEW t \in LocalTasks, NEW j \in released[t]
    PROVE  \E a \in Activities : \E i \in DOMAIN Out[a] :
               /\ Sent(a, i) /\ Out[a][i][2] = t /\ Out[a][i][3] = j
               /\ In[t][j][1] = KeyOf[a] /\ In[t][j][2] = Out[a][i][1]
<1>1. j \in DOMAIN In[t]
  BY DEF TypeInv
<1>2. PICK a \in Activities : \E i \in DOMAIN Out[a] : Out[a][i][2] = t /\ Out[a][i][3] = j
  BY <1>1, InputFacts
<1> PICK i \in DOMAIN Out[a] : Out[a][i][2] = t /\ Out[a][i][3] = j
  BY <1>2
<1>3. Sent(a, i)
  BY DEF FlowInv, EdgeFlow
<1> QED
  BY <1>3, EdgeFacts

LEMMA InputsFound ==
    ASSUME TypeInv, FlowInv, DataInv, CountsExact
    PROVE  InputsDeposited
<1> SUFFICES ASSUME NEW t \in LocalTasks, NEW j \in ToUse(t)
             PROVE  LET e == entry[In[t][j][1]]
                    IN  /\ e # NoEntry
                        /\ e.data[In[t][j][2]] # Null
                        /\ j \in LookedUp(t) => /\ found[t][j] = births[In[t][j][1]]
                                                /\ got[t][j] = e.data[In[t][j][2]]
  BY DEF InputsDeposited
<1>1. j \in released[t]
  BY DEF ToUse
<1>0. PICK a \in Activities : \E i \in DOMAIN Out[a] :
          /\ Sent(a, i) /\ Out[a][i][2] = t /\ Out[a][i][3] = j
          /\ In[t][j][1] = KeyOf[a] /\ In[t][j][2] = Out[a][i][1]
  BY <1>1, EdgeOf
<1>2. PICK i \in DOMAIN Out[a] :
          /\ Sent(a, i) /\ Out[a][i][2] = t /\ Out[a][i][3] = j
          /\ In[t][j][1] = KeyOf[a] /\ In[t][j][2] = Out[a][i][1]
  BY <1>0
<1>3. entry[In[t][j][1]] # NoEntry
  BY ToUseFinds
<1>4. pc[a] \notin {"waiting", "lookup"} /\ Out[a][i][1] \in Params
  BY <1>2, EdgeFacts DEF Sent
<1>5. DataOf(a, Out[a][i][1]) # Null
  BY <1>4, DataOfPast
<1> QED
  BY <1>2, <1>3, <1>5 DEF DataInv

\* A step that touches no datum of an entry that is still to be used.
LEMMA DataKept ==
    ASSUME DataInv, SentKept, UNCHANGED <<got, found>>,
           \A t \in LocalTasks : ToUse(t)' \subseteq ToUse(t) /\ LookedUp(t)' = LookedUp(t),
           \A t \in LocalTasks : \A j \in ToUse(t)' :
               /\ entry'[In[t][j][1]].data = entry[In[t][j][1]].data
               /\ births'[In[t][j][1]] = births[In[t][j][1]]
    PROVE  DataInv'
<1>1. ASSUME NEW a \in Activities, NEW i \in DOMAIN Out[a], Sent(a, i)',
             NEW p, p = Out[a][i][1], NEW c, c = Out[a][i][2], NEW j, j = Out[a][i][3]
      PROVE  /\ j \in ToUse(c)' => entry'[KeyOf[a]].data[p] = DataOf(a, p)'
             /\ j \in LookedUp(c)' => got'[c][j] = DataOf(a, p)'
             /\ j \in ToUse(c)' /\ j \in LookedUp(c)' => found'[c][j] = births'[KeyOf[a]]
  <2>1. Sent(a, i)
    BY <1>1 DEF SentKept
  <2>2. DataOf(a, p)' = DataOf(a, p)
    BY DEF DataOf
  <2>3. c \in LocalTasks /\ In[c][j][1] = KeyOf[a]
    BY <1>1, EdgeFacts
  <2>4. j \in ToUse(c)' => /\ j \in ToUse(c)
                           /\ entry'[KeyOf[a]].data = entry[KeyOf[a]].data
                           /\ births'[KeyOf[a]] = births[KeyOf[a]]
    BY <2>3
  <2>5. LookedUp(c)' = LookedUp(c)
    BY <2>3
  <2>6. /\ j \in ToUse(c) => entry[KeyOf[a]].data[p] = DataOf(a, p)
        /\ j \in LookedUp(c) => got[c][j] = DataOf(a, p)
        /\ j \in ToUse(c) /\ j \in LookedUp(c) => found[c][j] = births[KeyOf[a]]
    BY <1>1, <2>1 DEF DataInv
  <2> QED
    BY <2>2, <2>4, <2>5, <2>6
<1>2. \A t \in LocalTasks : \A j \in LookedUp(t)' : got'[t][j] # Null
  BY DEF DataInv
<1> QED
  BY <1>1, <1>2 DEF DataInv

\* The entry of an input to use loses nothing in the counting.
LEMMA QuietData ==
    ASSUME TypeInv, TypeInv', FlowInv, RetainedWhileCounting, CountsExact, UsesCounted, UsesCounted',
           DataInv,
           \/ \E a \in Activities : LookupAndCreate(a) \/ AddToUsageLimit(a)
           \/ \E t \in LocalTasks : Body(t) \/ UsedOnce(t) \/ Unref(t) \/ Finish(t)
    PROVE  DataInv'
<1>1. UNCHANGED <<got, found>>
  BY DEF LookupAndCreate, AddToUsageLimit, Body, UsedOnce, Unref, Finish
<1>2. /\ SentKept
      /\ \A t \in LocalTasks : ToUse(t)' \subseteq ToUse(t) /\ LookedUp(t)' = LookedUp(t)
  <2>1. CASE \E a \in Activities : LookupAndCreate(a) \/ AddToUsageLimit(a)
    BY <2>1, LookupAndCreateSets, AddToUsageLimitSets DEF Resting
  <2>2. CASE \E t \in LocalTasks : Body(t) \/ Finish(t)
    BY <2>2, BodySets, FinishSets DEF Resting
  <2>3. ASSUME NEW t \in LocalTasks, UsedOnce(t) \/ Unref(t)
        PROVE  /\ SentKept
               /\ ToUse(t)' \subseteq ToUse(t) /\ LookedUp(t)' = LookedUp(t)
               /\ \A u \in LocalTasks : u # t => Resting(u)
    BY <2>3, UsedOnceSets, UnrefSets
  <2> QED
    BY <2>1, <2>2, <2>3 DEF Resting
<1>3. ASSUME NEW t \in LocalTasks, NEW j \in ToUse(t)', NEW k, k = In[t][j][1]
      PROVE  entry'[k].data = entry[k].data /\ births'[k] = births[k]
  <2>1. j \in ToUse(t)
    BY <1>2
  <2>2. k \in Keys /\ entry[k] # NoEntry /\ entry[k] \in Entries
    BY <1>3, <2>1, ToUseFinds
  <2>3. <<t, j>> \in Uses(k)'
    BY <1>3 DEF Uses
  <2>4. entry'[k] # NoEntry
    BY <2>2, <2>3 DEF UsesCounted
  <2>5. CASE \E a \in Activities : LookupAndCreate(a)
    <3>1. PICK a \in Activities : LookupAndCreate(a)
      BY <2>5
    <3>2. CASE k = KeyOf[a]
      BY <2>2, <3>1, <3>2, LookupAndCreateEntry, RetainedIs
    <3>3. CASE k # KeyOf[a]
      BY <2>2, <3>1, <3>3, LookupAndCreateEntry
    <3> QED
      BY <3>2, <3>3
  <2>6. CASE \E a \in Activities : AddToUsageLimit(a)
    <3>1. PICK a \in Activities : AddToUsageLimit(a)
      BY <2>6
    <3>2. births' = births
      BY <3>1 DEF AddToUsageLimit
    <3>3. CASE k = KeyOf[a]
      <4>1. /\ entry[k] \in Entries /\ entry[k].retained >= 1 /\ usage[a] \in Nat
            /\ entry'[k] = Limited(entry[k], usage[a])
        BY <3>1, <3>3, AddToUsageLimitEntry
      <4> QED
        BY <2>4, <3>2, <4>1, LimitedIs
    <3>4. CASE k # KeyOf[a]
      BY <2>2, <3>1, <3>2, <3>4, AddToUsageLimitEntry
    <3> QED
      BY <3>3, <3>4
  <2>7. CASE \E u \in LocalTasks : UsedOnce(u)
    <3>1. PICK u \in LocalTasks : UsedOnce(u)
      BY <2>7
    <3>2. births' = births
      BY <3>1 DEF UsedOnce
    <3>3. CASE k = In[u][index[u]][1]
      BY <2>2, <2>4, <3>1, <3>2, <3>3, UsedOnceEntry, UsedIs
    <3>4. CASE k # In[u][index[u]][1]
      BY <2>2, <3>1, <3>2, <3>4, UsedOnceEntry
    <3> QED
      BY <3>3, <3>4
  <2>8. CASE \E u \in LocalTasks : Body(u) \/ Unref(u) \/ Finish(u)
    BY <2>8 DEF Body, Unref, Finish
  <2> QED
    BY <2>5, <2>6, <2>7, <2>8
<1> QED
  BY <1>1, <1>2, <1>3, DataKept

LEMMA LookupData ==
    ASSUME TypeInv, FlowInv, CountsExact, DataInv, NEW t \in LocalTasks, Lookup(t)
    PROVE  DataInv'
<1> PICK j, k, q : j = index[t] /\ k = In[t][j][1] /\ q = In[t][j][2]
  OBVIOUS
<1>1. /\ j \in DOMAIN In[t] /\ j \in ToUse(t)
      /\ LookedUp(t)' = LookedUp(t) \cup {j} /\ ToUse(t)' = ToUse(t)
      /\ \A u \in LocalTasks : u # t => ToUse(u)' = ToUse(u) /\ LookedUp(u)' = LookedUp(u)
      /\ SentKept
  BY LookupSets DEF Resting
<1>2. /\ found' = [found EXCEPT ![t] = [found[t] EXCEPT ![j] = births[k]]]
      /\ got' = [got EXCEPT ![t] = [got[t] EXCEPT ![j] = entry[k].data[q]]]
      /\ UNCHANGED <<entry, births, pc>> /\ pc[t] = "lookup"
  BY DEF Lookup
<1>3. /\ found'[t][j] = births[k] /\ got'[t][j] = entry[k].data[q]
      /\ \A x \in DOMAIN In[t] : x # j => found'[t][x] = found[t][x] /\ got'[t][x] = got[t][x]
      /\ \A u \in LocalTasks : u # t => found'[u] = found[u] /\ got'[u] = got[u]
  BY <1>1, <1>2 DEF TypeInv
<1>4. InputsDeposited
  BY InputsFound
<1>5. entry[k].data[q] # Null
  BY <1>1, <1>4 DEF InputsDeposited
<1>6. \A u \in LocalTasks : LookedUp(u) \subseteq DOMAIN In[u]
  BY DEF LookedUp
<1>7. ASSUME NEW a \in Activities, NEW i \in DOMAIN Out[a], Sent(a, i)',
             NEW p, p = Out[a][i][1], NEW c, c = Out[a][i][2], NEW x, x = Out[a][i][3]
      PROVE  /\ x \in ToUse(c)' => entry'[KeyOf[a]].data[p] = DataOf(a, p)'
             /\ x \in LookedUp(c)' => got'[c][x] = DataOf(a, p)'
             /\ x \in ToUse(c)' /\ x \in LookedUp(c)' => found'[c][x] = births'[KeyOf[a]]
  <2>1. Sent(a, i)
    BY <1>1, <1>7 DEF SentKept
  <2>2. DataOf(a, p)' = DataOf(a, p)
    <3>1. a # t
      BY <1>2, <2>1 DEF Sent
    <3>2. a \in LocalTasks => got'[a] = got[a]
      BY <1>3, <3>1
    <3> QED
      BY <3>2 DEF DataOf, Activities
  <2>3. c \in LocalTasks /\ x \in DOMAIN In[c] /\ In[c][x][1] = KeyOf[a] /\ In[c][x][2] = p
    BY <1>7, EdgeFacts
  <2>4. /\ x \in ToUse(c) => entry[KeyOf[a]].data[p] = DataOf(a, p)
        /\ x \in LookedUp(c) => got[c][x] = DataOf(a, p)
        /\ x \in ToUse(c) /\ x \in LookedUp(c) => found[c][x] = births[KeyOf[a]]
    BY <1>7, <2>1 DEF DataInv
  <2>5. CASE c = t /\ x = j
    <3>1. k = KeyOf[a] /\ q = p
      BY <2>3, <2>5
    <3> QED
      BY <1>1, <1>2, <1>3, <2>2, <2>4, <2>5, <3>1
  <2>6. CASE ~(c = t /\ x = j)
    <3>1. /\ x \in ToUse(c)' <=> x \in ToUse(c)
          /\ x \in LookedUp(c)' <=> x \in LookedUp(c)
      BY <1>1, <2>3, <2>6
    <3>2. found'[c][x] = found[c][x] /\ got'[c][x] = got[c][x]
      BY <1>3, <2>3, <2>6
    <3> QED
      BY <1>2, <2>2, <2>4, <3>1, <3>2
  <2> QED
    BY <2>5, <2>6
<1>8. ASSUME NEW u \in LocalTasks, NEW x \in LookedUp(u)' PROVE got'[u][x] # Null
  <2>1. CASE u = t /\ x = j
    BY <1>3, <1>5, <2>1
  <2>2. CASE ~(u = t /\ x = j)
    <3>1. x \in LookedUp(u) /\ got'[u][x] = got[u][x]
      BY <1>1, <1>3, <1>6, <1>8, <2>2
    <3> QED
      BY <3>1 DEF DataInv
  <2> QED
    BY <2>1, <2>2
<1> QED
  BY <1>7, <1>8 DEF DataInv

LEMMA ReleaseEdgeData ==
    ASSUME TypeInv, FlowInv, RetainedWhileCounting, DataInv, NEW a \in Activities, ReleaseEdge(a)
    PROVE  DataInv'
<1> PICK k, i, p, c, j, d :
        /\ k = KeyOf[a] /\ i = index[a] /\ p = Out[a][i][1] /\ c = Out[a][i][2]
        /\ j = Out[a][i][3] /\ d = DataOf(a, p)
  OBVIOUS
<1>1. /\ i \in DOMAIN Out[a] /\ c \in LocalTasks /\ j \in DOMAIN In[c]
      /\ ToUse(c)' = ToUse(c) \cup {j}
      /\ LookedUp(c)' = LookedUp(c) /\ LookedUp(c) = {}
      /\ \A t \in LocalTasks : t # c => ToUse(t)' = ToUse(t) /\ LookedUp(t)' = LookedUp(t)
      /\ \A b \in Activities : \A m \in DOMAIN Out[b] :
            <<b, m>> # <<a, i>> => (Sent(b, m)' <=> Sent(b, m))
  BY ReleaseEdgeSets DEF Resting
<1>2. UNCHANGED <<births, found, got>>
  BY DEF ReleaseEdge
<1>3. \A b, x : DataOf(b, x)' = DataOf(b, x)
  BY <1>2 DEF DataOf
<1>4. /\ k \in Keys /\ p \in Params /\ entry[k] \in Entries
      /\ entry'[k].data = [entry[k].data EXCEPT ![p] = d]
      /\ \A x \in Keys : x # k => entry'[x] = entry[x]
  BY ReleaseEdgeEntry
<1>5. /\ entry'[k].data[p] = d
      /\ \A x \in Params : x # p => entry'[k].data[x] = entry[k].data[x]
  BY <1>4 DEF Entries
<1>6. ASSUME NEW b \in Activities, NEW m \in DOMAIN Out[b], Sent(b, m)',
             NEW q, q = Out[b][m][1], NEW t, t = Out[b][m][2], NEW x, x = Out[b][m][3]
      PROVE  /\ x \in ToUse(t)' => entry'[KeyOf[b]].data[q] = DataOf(b, q)'
             /\ x \in LookedUp(t)' => got'[t][x] = DataOf(b, q)'
             /\ x \in ToUse(t)' /\ x \in LookedUp(t)' => found'[t][x] = births'[KeyOf[b]]
  <2>1. t \in LocalTasks /\ q \in Params /\ KeyOf[b] \in Keys
    BY <1>6, EdgeFacts
  <2>2. CASE b = a /\ m = i
    <3>1. KeyOf[b] = k /\ q = p /\ t = c
      BY <1>6, <2>2
    <3>2. LookedUp(t)' = {}
      BY <1>1, <3>1
    <3>3. entry'[KeyOf[b]].data[q] = DataOf(b, q)'
      BY <1>3, <1>5, <2>2, <3>1
    <3> QED
      BY <3>2, <3>3
  <2>3. CASE <<b, m>> # <<a, i>>
    <3>1. Sent(b, m) /\ ~(t = c /\ x = j)
      <4>1. Out[b][m][2] = Out[a][i][2] /\ Out[b][m][3] = Out[a][i][3] => a = b /\ i = m
        BY <1>1, OneEdge
      <4> QED
        BY <1>1, <1>6, <2>3, <4>1
    <3>2. x \in ToUse(t)' <=> x \in ToUse(t)
      BY <1>1, <2>1, <3>1
    <3>3. LookedUp(t)' = LookedUp(t)
      BY <1>1, <2>1
    <3>4. /\ x \in ToUse(t) => entry[KeyOf[b]].data[q] = DataOf(b, q)
          /\ x \in LookedUp(t) => got[t][x] = DataOf(b, q)
          /\ x \in ToUse(t) /\ x \in LookedUp(t) => found[t][x] = births[KeyOf[b]]
      BY <1>6, <3>1 DEF DataInv
    <3>5. x \in ToUse(t) => entry'[KeyOf[b]].data[q] = DataOf(b, q)
      <4>1. CASE KeyOf[b] # k
        BY <1>4, <2>1, <3>4, <4>1
      <4>2. CASE KeyOf[b] = k /\ q # p
        BY <1>5, <2>1, <3>4, <4>2
      <4>3. CASE KeyOf[b] = k /\ q = p
        <5>0. KeyOf[a] = KeyOf[b] /\ Out[a][i][1] = Out[b][m][1] /\ i \in DOMAIN Out[a]
          BY <1>1, <1>6, <4>3
        <5>1. b = a
          BY <5>0, OneProducer
        <5> QED
          BY <1>5, <4>3, <5>1
      <4> QED
        BY <4>1, <4>2, <4>3
    <3> QED
      BY <1>2, <1>3, <3>2, <3>3, <3>4, <3>5
  <2> QED
    BY <2>2, <2>3
<1>7. \A t \in LocalTasks : \A x \in LookedUp(t)' : got'[t][x] # Null
  BY <1>1, <1>2 DEF DataInv
<1> QED
  BY <1>6, <1>7 DEF DataInv

-----------------------------------------------------------------------------
(* The references on the chunks.                                           *)

DatumIs ==
    \A a \in Activities : \A i \in DOMAIN Out[a] :
        LET p == Out[a][i][1]  c == Out[a][i][2]  j == Out[a][i][3]
        IN  j \in ToDrop(c) => Sent(a, i) /\ DatumOf(c, j) = DataOf(a, p)

LEMMA DatumIsData == TypeInv /\ FlowInv /\ DataInv => DatumIs
<1> SUFFICES ASSUME TypeInv, FlowInv, DataInv,
                    NEW a \in Activities, NEW i \in DOMAIN Out[a],
                    NEW p, p = Out[a][i][1], NEW c, c = Out[a][i][2], NEW j, j = Out[a][i][3],
                    j \in ToDrop(c)
             PROVE  Sent(a, i) /\ DatumOf(c, j) = DataOf(a, p)
  BY DEF DatumIs
<1>1. Sent(a, i)
  BY DEF ToDrop, FlowInv, EdgeFlow
<1>2. c \in LocalTasks /\ j \in DOMAIN In[c] /\ In[c][j][1] = KeyOf[a] /\ In[c][j][2] = p
  BY EdgeFacts
<1>3. /\ j \in ToUse(c) => entry[KeyOf[a]].data[p] = DataOf(a, p)
      /\ j \in LookedUp(c) => got[c][j] = DataOf(a, p)
  BY <1>1 DEF DataInv
<1>4. CASE j \in LookedUp(c)
  BY <1>1, <1>3, <1>4 DEF DatumOf
<1>5. CASE j \notin LookedUp(c)
  <2>1. j \in ToUse(c)
    BY <1>2, <1>5 DEF ToUse, ToDrop, LookedUp, Past
  <2> QED
    BY <1>1, <1>2, <1>3, <1>5, <2>1 DEF DatumOf
<1> QED
  BY <1>4, <1>5

\* What an activity has deposited does not change.
LEMMA DataOfStable ==
    ASSUME TypeInv, Next, NEW a \in Activities, NEW i, Sent(a, i), NEW p
    PROVE  DataOf(a, p)' = DataOf(a, p)
<1>1. CASE \E t \in LocalTasks : Lookup(t)
  <2>1. PICK t \in LocalTasks : Lookup(t)
    BY <1>1
  <2>2. a # t
    BY <2>1 DEF Lookup, Sent
  <2>3. a \in LocalTasks => got'[a] = got[a]
    BY <2>1, <2>2 DEF Lookup, TypeInv
  <2> QED
    BY <2>3 DEF DataOf, Activities
<1>2. CASE ~ \E t \in LocalTasks : Lookup(t)
  <2>1. got' = got
    BY <1>2 DEF Next, LookupAndCreate, ReleaseEdge, AddToUsageLimit, Body, UsedOnce, Unref,
                Finish, Ended, vars
  <2> QED
    BY <2>1 DEF DataOf
<1> QED
  BY <1>1, <1>2

LEMMA DatumStable ==
    ASSUME TypeInv, FlowInv, DataInv, TypeInv', FlowInv', DataInv', Next,
           NEW t \in LocalTasks, NEW j \in ToDrop(t), j \in ToDrop(t)'
    PROVE  DatumOf(t, j)' = DatumOf(t, j)
<1>1. DatumIs
  BY DatumIsData
<1>2. DatumIs'
  BY DatumIsData, PTL
<1>3. j \in released[t]
  BY DEF ToDrop
<1>4. PICK a \in Activities : \E i \in DOMAIN Out[a] :
          Sent(a, i) /\ Out[a][i][2] = t /\ Out[a][i][3] = j
  BY <1>3, EdgeOf
<1>5. PICK i \in DOMAIN Out[a] : Sent(a, i) /\ Out[a][i][2] = t /\ Out[a][i][3] = j
  BY <1>4
<1>6. DatumOf(t, j) = DataOf(a, Out[a][i][1])
  BY <1>1, <1>5 DEF DatumIs
<1>7. DatumOf(t, j)' = DataOf(a, Out[a][i][1])'
  BY <1>2, <1>5 DEF DatumIs
<1>8. DataOf(a, Out[a][i][1])' = DataOf(a, Out[a][i][1])
  BY <1>5, DataOfStable
<1> QED
  BY <1>6, <1>7, <1>8

LEMMA HoldersChange ==
    /\ \A d, x : x \in Holders(d) <=>
          \E t \in LocalTasks : \E j \in ToDrop(t) : DatumOf(t, j) = d /\ x = <<t, j>>
    /\ \A d, x : x \in Holders(d)' <=>
          \E t \in LocalTasks : \E j \in ToDrop(t)' : DatumOf(t, j)' = d /\ x = <<t, j>>
<1>1. \A d, x : x \in Holders(d) <=>
          \E t \in LocalTasks : \E j \in ToDrop(t) : DatumOf(t, j) = d /\ x = <<t, j>>
  BY DEF Holders
<1>2. \A d, x : x \in Holders(d)' <=>
          \E t \in LocalTasks : \E j \in ToDrop(t)' : DatumOf(t, j)' = d /\ x = <<t, j>>
  BY DEF Holders
<1> QED
  BY <1>1, <1>2

LEMMA QuietHolders ==
    ASSUME TypeInv, FlowInv, DataInv, TypeInv', FlowInv', DataInv', Next,
           \A t \in LocalTasks : ToDrop(t)' = ToDrop(t), NEW d
    PROVE  Holders(d)' = Holders(d)
<1>1. \A t \in LocalTasks : \A j \in ToDrop(t) : DatumOf(t, j)' = DatumOf(t, j)
  BY DatumStable
<1>2. \A x : x \in Holders(d)' <=> x \in Holders(d)
  BY <1>1, HoldersChange
<1> QED
  BY <1>2

LEMMA ReleaseEdgeHolders ==
    ASSUME TypeInv, FlowInv, DataInv, TypeInv', FlowInv', DataInv', Next,
           NEW a \in Activities, ReleaseEdge(a), NEW i, i = index[a],
           NEW c, c = Out[a][i][2], NEW j, j = Out[a][i][3],
           NEW d, d = DataOf(a, Out[a][i][1]), NEW x
    PROVE  /\ x = d => Holders(x)' = Holders(x) \cup {<<c, j>>}
           /\ x # d => Holders(x)' = Holders(x)
           /\ <<c, j>> \notin Holders(x)
<1>1. /\ i \in DOMAIN Out[a] /\ c \in LocalTasks
      /\ ToDrop(c)' = ToDrop(c) \cup {j} /\ j \notin ToDrop(c)
      /\ \A t \in LocalTasks : t # c => ToDrop(t)' = ToDrop(t)
  BY ReleaseEdgeSets DEF Resting
<1>2. \A t \in LocalTasks : \A y \in ToDrop(t) : DatumOf(t, y)' = DatumOf(t, y)
  BY <1>1, DatumStable
<1>3. DatumIs'
  BY DatumIsData, PTL
<1>4. DatumOf(c, j)' = DataOf(a, Out[a][i][1])'
  BY <1>1, <1>3 DEF DatumIs
<1>5. DataOf(a, Out[a][i][1])' = d
  BY DEF ReleaseEdge, DataOf
<1>6. <<c, j>> \notin Holders(x)
  BY <1>1, HoldersChange
<1>7. CASE x = d
  <2>1. \A y : y \in Holders(x)' <=> y \in Holders(x) \/ y = <<c, j>>
    BY <1>1, <1>2, <1>4, <1>5, <1>7, HoldersChange
  <2> QED
    BY <1>6, <1>7, <2>1
<1>8. CASE x # d
  <2>1. \A y : y \in Holders(x)' <=> y \in Holders(x)
    BY <1>1, <1>2, <1>4, <1>5, <1>8, HoldersChange
  <2> QED
    BY <1>6, <1>8, <2>1
<1> QED
  BY <1>7, <1>8

LEMMA UnrefHolders ==
    ASSUME TypeInv, FlowInv, DataInv, TypeInv', FlowInv', DataInv', Next,
           NEW t \in LocalTasks, Unref(t), NEW j, j = index[t], NEW d, d = got[t][j], NEW x
    PROVE  /\ x = d => Holders(x)' = Holders(x) \ {<<t, j>>} /\ <<t, j>> \in Holders(x)
           /\ x # d => Holders(x)' = Holders(x)
<1>1. /\ j \in ToDrop(t) /\ ToDrop(t)' = ToDrop(t) \ {j} /\ j \in LookedUp(t)
      /\ \A u \in LocalTasks : u # t => ToDrop(u)' = ToDrop(u)
  BY UnrefSets DEF Resting
<1>2. \A u \in LocalTasks : \A y \in ToDrop(u)' : DatumOf(u, y)' = DatumOf(u, y)
  BY <1>1, DatumStable
<1>3. DatumOf(t, j) = d
  BY <1>1 DEF DatumOf
<1>4. CASE x = d
  <2>1. \A y : y \in Holders(x)' <=> y \in Holders(x) /\ y # <<t, j>>
    BY <1>1, <1>2, <1>3, <1>4, HoldersChange
  <2>2. <<t, j>> \in Holders(x)
    BY <1>1, <1>3, <1>4, HoldersChange
  <2> QED
    BY <1>4, <2>1, <2>2
<1>5. CASE x # d
  <2>1. \A y : y \in Holders(x)' <=> y \in Holders(x)
    BY <1>1, <1>2, <1>3, <1>5, HoldersChange
  <2> QED
    BY <1>5, <2>1
<1> QED
  BY <1>4, <1>5

LEMMA ReleaseEdgeRefs ==
    ASSUME TypeInv, FlowInv, DataInv, TypeInv', FlowInv', DataInv', Next, RefsCounted,
           NEW a \in Activities, ReleaseEdge(a)
    PROVE  RefsCounted'
<1> PICK i, c, j, d : /\ i = index[a] /\ c = Out[a][i][2] /\ j = Out[a][i][3]
                      /\ d = DataOf(a, Out[a][i][1])
  OBVIOUS
<1> SUFFICES ASSUME NEW x \in Chunks PROVE refcount'[x] = Cardinality(Holders(x)')
  BY DEF RefsCounted
<1>1. refcount' = Referenced(d)
  BY DEF ReleaseEdge
<1>2. /\ x = d => Holders(x)' = Holders(x) \cup {<<c, j>>}
      /\ x # d => Holders(x)' = Holders(x)
      /\ <<c, j>> \notin Holders(x)
  BY ReleaseEdgeHolders
<1>3. refcount[x] = Cardinality(Holders(x)) /\ IsFiniteSet(Holders(x))
  BY HoldersIs DEF RefsCounted
<1>4. CASE x = d
  <2>1. refcount'[x] = refcount[x] + 1
    BY <1>1, <1>4 DEF Referenced, TypeInv
  <2>2. Cardinality(Holders(x)') = Cardinality(Holders(x)) + 1
    BY <1>2, <1>3, <1>4, FS_AddElement
  <2> QED
    BY <1>3, <2>1, <2>2
<1>5. CASE x # d
  <2>1. refcount'[x] = refcount[x]
    BY <1>1, <1>5 DEF Referenced, TypeInv
  <2> QED
    BY <1>2, <1>3, <1>5, <2>1
<1> QED
  BY <1>4, <1>5

LEMMA UnrefRefs ==
    ASSUME TypeInv, FlowInv, DataInv, TypeInv', FlowInv', DataInv', Next, RefsCounted,
           NEW t \in LocalTasks, Unref(t)
    PROVE  RefsCounted'
<1> PICK j, d : j = index[t] /\ d = got[t][j]
  OBVIOUS
<1> SUFFICES ASSUME NEW x \in Chunks PROVE refcount'[x] = Cardinality(Holders(x)')
  BY DEF RefsCounted
<1>1. /\ d \in Chunks => refcount' = [refcount EXCEPT ![d] = @ - 1]
      /\ d \notin Chunks => refcount' = refcount
  BY DEF Unref
<1>2. /\ x = d => Holders(x)' = Holders(x) \ {<<t, j>>} /\ <<t, j>> \in Holders(x)
      /\ x # d => Holders(x)' = Holders(x)
  BY UnrefHolders
<1>3. refcount[x] = Cardinality(Holders(x)) /\ IsFiniteSet(Holders(x))
  BY HoldersIs DEF RefsCounted
<1>4. CASE x = d
  <2>1. refcount'[x] = refcount[x] - 1
    BY <1>1, <1>4 DEF TypeInv
  <2>2. Cardinality(Holders(x)') = Cardinality(Holders(x)) - 1
    BY <1>2, <1>3, <1>4, FS_RemoveElement
  <2> QED
    BY <1>3, <2>1, <2>2
<1>5. CASE x # d
  <2>1. refcount'[x] = refcount[x]
    BY <1>1, <1>5 DEF TypeInv
  <2> QED
    BY <1>2, <1>3, <1>5, <2>1
<1> QED
  BY <1>4, <1>5

-----------------------------------------------------------------------------
(* The invariant.                                                          *)

LEMMA RepoInit == Init => RepoInv
<1> SUFFICES ASSUME Init PROVE RepoInv
  OBVIOUS
<1>1. /\ \A a \in Activities : /\ pc[a] \in {"waiting", "lookup", "create"} /\ index[a] = 1
                               /\ usage[a] = 0 /\ ready[a] = {}
      /\ \A t \in LocalTasks : /\ released[t] = {}
                               /\ pc[t] # "waiting" => In[t] = <<>>
                               /\ pc[t] \in {"waiting", "lookup"}
                               /\ found[t] = [j \in DOMAIN In[t] |-> 0]
                               /\ got[t] = [j \in DOMAIN In[t] |-> Null]
      /\ \A r \in Receipts : pc[r] = "create"
  BY RepoAssumption DEF Init, Activities
<1>2. TypeInv
  BY <1>1 DEF Init, TypeInv, Phases, Data, Activities
<1>3. EdgeFlow
  BY <1>1, EdgeFacts DEF EdgeFlow, Sent
<1>4. TaskFlow
  <2>0. Len(<<>>) = 0
    OBVIOUS
  <2>1. \A t \in LocalTasks : pc[t] # "waiting" => Len(In[t]) = 0
    BY <1>1, <2>0, Zenon
  <2>2. \A t \in LocalTasks : pc[t] # "waiting" => DOMAIN In[t] = {}
    BY <2>1, InputFacts
  <2> QED
    BY <1>1, <2>2 DEF TaskFlow, Activities
<1>5. UsageFlow /\ ReadyFlow
  BY <1>1 DEF UsageFlow, ReadyFlow
<1>6. \A t \in LocalTasks : ToUse(t) = {} /\ ToDrop(t) = {} /\ LookedUp(t) = {}
  <2> SUFFICES ASSUME NEW t \in LocalTasks PROVE ToUse(t) = {} /\ ToDrop(t) = {} /\ LookedUp(t) = {}
    OBVIOUS
  <2>1. \A j \in DOMAIN In[t] : ~(j < 1)
    BY InputFacts
  <2> QED
    BY <1>1, <2>1 DEF ToUse, ToDrop, LookedUp, Past, Activities
<1>7. DataInv
  <2>1. \A a \in Activities : \A i \in DOMAIN Out[a] : ~ Sent(a, i)
    BY <1>1 DEF Sent
  <2> QED
    BY <1>6, <2>1 DEF DataInv
<1>8. \A k : Uses(k) = {} /\ Releasing(k) = {} /\ Holders(k) = {}
  BY <1>1, <1>6 DEF Uses, Releasing, Holders
<1>9. RetainedWhileCounting
  BY <1>8 DEF Init, RetainedWhileCounting
<1>10. UsesCounted /\ RefsCounted
  BY <1>8, FS_EmptySet DEF Init, UsesCounted, RefsCounted
<1>11. FlowInv
  BY <1>3, <1>4, <1>5 DEF FlowInv
<1> QED
  BY <1>2, <1>7, <1>9, <1>10, <1>11, CountsSplit DEF RepoInv

\* An action leaves the invariant when it leaves its parts.
LEMMA RepoStep ==
    ASSUME TypeInv', FlowInv', RetainedWhileCounting', UsesCounted', DataInv', RefsCounted'
    PROVE  RepoInv'
<1>1. CountsExact'
  BY CountsSplit, PTL
<1> QED
  BY <1>1 DEF RepoInv

LEMMA RepoNext == RepoInv /\ [Next]_vars => RepoInv'
<1> SUFFICES ASSUME RepoInv, [Next]_vars PROVE RepoInv'
  OBVIOUS
<1> USE DEF RepoInv
<1>0. UsesCounted /\ RefsCounted
  BY CountsSplit
<1>1. ASSUME NEW a \in Activities, LookupAndCreate(a) PROVE RepoInv'
  <2>1. TypeInv' /\ FlowInv'
    BY <1>1, LookupAndCreateType, LookupAndCreateFlow
  <2>2. RetainedWhileCounting' /\ UsesCounted'
    BY <1>0, <1>1, LookupAndCreateRetained, LookupAndCreateUses
  <2>3. DataInv'
    BY <1>0, <1>1, <2>1, <2>2, QuietData
  <2>4. refcount' = refcount /\ \A t \in LocalTasks : ToDrop(t)' = ToDrop(t)
    BY <1>1, LookupAndCreateSets DEF LookupAndCreate, Resting
  <2>5. Next
    BY <1>1 DEF Next
  <2>6. RefsCounted'
    BY <1>0, <2>1, <2>3, <2>4, <2>5, QuietHolders DEF RefsCounted
  <2> QED
    BY <2>1, <2>2, <2>3, <2>6, RepoStep
<1>2. ASSUME NEW a \in Activities, ReleaseEdge(a) PROVE RepoInv'
  <2>1. TypeInv' /\ FlowInv'
    BY <1>2, ReleaseEdgeType, ReleaseEdgeFlow
  <2>2. RetainedWhileCounting' /\ UsesCounted'
    BY <1>0, <1>2, ReleaseEdgeRetained, ReleaseEdgeUses
  <2>3. DataInv'
    BY <1>2, ReleaseEdgeData
  <2>4. Next
    BY <1>2 DEF Next
  <2>5. RefsCounted'
    BY <1>0, <1>2, <2>1, <2>3, <2>4, ReleaseEdgeRefs
  <2> QED
    BY <2>1, <2>2, <2>3, <2>5, RepoStep
<1>3. ASSUME NEW a \in Activities, AddToUsageLimit(a) PROVE RepoInv'
  <2>1. TypeInv' /\ FlowInv'
    BY <1>3, AddToUsageLimitType, AddToUsageLimitFlow
  <2>2. RetainedWhileCounting' /\ UsesCounted'
    BY <1>0, <1>3, AddToUsageLimitRetained, AddToUsageLimitUses
  <2>3. DataInv'
    BY <1>0, <1>3, <2>1, <2>2, QuietData
  <2>4. refcount' = refcount /\ \A t \in LocalTasks : ToDrop(t)' = ToDrop(t)
    BY <1>3, AddToUsageLimitSets DEF AddToUsageLimit, Resting
  <2>5. Next
    BY <1>3 DEF Next
  <2>6. RefsCounted'
    BY <1>0, <2>1, <2>3, <2>4, <2>5, QuietHolders DEF RefsCounted
  <2> QED
    BY <2>1, <2>2, <2>3, <2>6, RepoStep
<1>4. ASSUME NEW t \in LocalTasks, UsedOnce(t) PROVE RepoInv'
  <2>1. TypeInv' /\ FlowInv'
    BY <1>4, UsedOnceType, TaskStepFlow
  <2>2. RetainedWhileCounting' /\ UsesCounted'
    BY <1>0, <1>4, UsedOnceRetained, UsedOnceUses
  <2>3. DataInv'
    BY <1>0, <1>4, <2>1, <2>2, QuietData
  <2>4. refcount' = refcount /\ \A u \in LocalTasks : ToDrop(u)' = ToDrop(u)
    BY <1>4, UsedOnceSets DEF UsedOnce, Resting
  <2>5. Next
    BY <1>4 DEF Next
  <2>6. RefsCounted'
    BY <1>0, <2>1, <2>3, <2>4, <2>5, QuietHolders DEF RefsCounted
  <2> QED
    BY <2>1, <2>2, <2>3, <2>6, RepoStep
<1>5. ASSUME NEW t \in LocalTasks, Lookup(t) \/ Body(t) \/ Unref(t) \/ Finish(t) PROVE RepoInv'
  <2>1. TypeInv' /\ FlowInv'
    BY <1>5, LookupType, MoveType, UnrefType, TaskStepFlow
  <2>2. RetainedWhileCounting' /\ UsesCounted'
    BY <1>0, <1>5, OtherRetained, OtherUses
  <2>3. DataInv'
    BY <1>0, <1>5, <2>1, <2>2, QuietData, LookupData
  <2>4. Next
    BY <1>5 DEF Next
  <2>5. RefsCounted'
    <3>1. CASE Unref(t)
      BY <1>0, <2>1, <2>3, <2>4, <3>1, UnrefRefs
    <3>2. CASE Lookup(t) \/ Body(t) \/ Finish(t)
      <4>1. refcount' = refcount /\ \A u \in LocalTasks : ToDrop(u)' = ToDrop(u)
        BY <3>2, LookupSets, BodySets, FinishSets DEF Lookup, Body, Finish, Resting
      <4> QED
        BY <1>0, <2>1, <2>3, <2>4, <4>1, QuietHolders DEF RefsCounted
    <3> QED
      BY <1>5, <3>1, <3>2
  <2> QED
    BY <2>1, <2>2, <2>3, <2>5, RepoStep
<1>6. CASE UNCHANGED vars
  <2>1. /\ \A t : Past(t)' = Past(t) /\ ToUse(t)' = ToUse(t) /\ ToDrop(t)' = ToDrop(t)
                  /\ LookedUp(t)' = LookedUp(t)
        /\ \A k : Releasing(k)' = Releasing(k)
        /\ \A a, i : Sent(a, i)' = Sent(a, i) /\ DataOf(a, i)' = DataOf(a, i)
                     /\ DatumOf(a, i)' = DatumOf(a, i)
    BY <1>6 DEF vars, Past, ToUse, ToDrop, LookedUp, Releasing, Sent, DataOf, DatumOf
  <2>2. \A k : Uses(k)' = Uses(k) /\ Counting(k)' = Counting(k) /\ Holders(k)' = Holders(k)
    BY <1>6, <2>1 DEF vars, Uses, Counting, Holders
  <2>3. TypeInv'
    BY <1>6 DEF vars, TypeInv
  <2>4. FlowInv'
    BY <1>6, <2>1 DEF vars, FlowInv, EdgeFlow, TaskFlow, UsageFlow, ReadyFlow
  <2>5. RetainedWhileCounting' /\ UsesCounted' /\ RefsCounted'
    BY <1>0, <1>6, <2>1, <2>2 DEF vars, RetainedWhileCounting, UsesCounted, RefsCounted
  <2>6. DataInv'
    BY <1>6, <2>1 DEF vars, DataInv
  <2> QED
    BY <2>3, <2>4, <2>5, <2>6, RepoStep
<1> QED
  BY <1>1, <1>2, <1>3, <1>4, <1>5, <1>6 DEF Next, Ended

\* The retained counter of an entry is the number of the activities that still
\* explore the successors of its task, so an entry outlives the exploration by
\* the thread that fills it, whatever its consumers do meanwhile.
THEOREM RetainedCorrect == Spec => []RetainedWhileCounting
<1>1. RepoInv => RetainedWhileCounting
  BY DEF RepoInv
<1> QED
  BY <1>1, RepoInit, RepoNext, PTL DEF Spec

\* The usage count, the usage limit and the reference counts are exact: an
\* entry is there until the last of the inputs that are to be read in it has
\* been, and no longer; the reference count of a chunk is the number of the
\* inputs that hold it.
THEOREM CountsCorrect == Spec => []CountsExact
<1>1. RepoInv => CountsExact
  BY DEF RepoInv
<1> QED
  BY <1>1, RepoInit, RepoNext, PTL DEF Spec

\* A task finds its data: in the entries its predecessors deposited until it
\* looks them up, and the entry it looked up is still there when it declares
\* its use (the assertion of data_repo_entry_used_once).
THEOREM DepositedCorrect == Spec => []InputsDeposited
<1>1. RepoInv => InputsDeposited
  BY InputsFound DEF RepoInv
<1> QED
  BY <1>1, RepoInit, RepoNext, PTL DEF Spec

-----------------------------------------------------------------------------
(* The chunks given back, where every output of a reception has one user.  *)

LEMMA ReturnInit == Init => ReturnInv
<1> SUFFICES ASSUME Init PROVE ReturnInv
  OBVIOUS
<1>1. \A a \in Activities : \A i : ~ Sent(a, i)
  BY DEF Init, Sent
<1>2. \A d \in Chunks : ~ GivenOut(d)
  BY <1>1 DEF GivenOut, Chunks, Activities
<1>3. \A d : Holders(d) = {}
  BY DEF Init, Holders, ToDrop
<1> QED
  BY <1>2, <1>3 DEF Init, ReturnInv

LEMMA ReturnKept ==
    ASSUME ReturnInv, SentKept, NEW d \in Chunks,
           returned'[d] = returned[d], Holders(d)' = Holders(d)
    PROVE  /\ GivenOut(d)' => \/ returned'[d] = 0 /\ Holders(d)' # {}
                              \/ returned'[d] = 1 /\ Holders(d)' = {}
           /\ ~ GivenOut(d)' => returned'[d] = 0 /\ Holders(d)' = {}
<1>1. d[1] \in Activities
  BY DEF Chunks, Activities
<1>2. GivenOut(d)' <=> GivenOut(d)
  BY <1>1 DEF GivenOut, SentKept
<1> QED
  BY <1>2 DEF ReturnInv

\* A task that passes an input on still holds it.
LEMMA CarrierHolds ==
    ASSUME TypeInv, FlowInv, NEW a \in LocalTasks, pc[a] \in {"create", "edges"},
           NEW p \in Params, NEW d, d = DataOf(a, p), d \in Chunks
    PROVE  Holders(d) # {}
<1>1. a \notin Receipts /\ a \in Activities /\ Carries[a][p] \in 0..Len(In[a])
  BY RepoAssumption DEF Activities
<1>2. Carries[a][p] # 0
  BY <1>1, RepoAssumption DEF DataOf
<1>3. Carries[a][p] \in DOMAIN In[a] /\ d = got[a][Carries[a][p]]
  BY <1>1, <1>2, InputFacts DEF DataOf
<1>4. released[a] = DOMAIN In[a]
  BY DEF FlowInv, TaskFlow
<1>5. Carries[a][p] \in ToDrop(a) /\ Carries[a][p] \in LookedUp(a)
  BY <1>3, <1>4 DEF ToDrop, LookedUp, Past
<1>6. DatumOf(a, Carries[a][p]) = d
  BY <1>3, <1>5 DEF DatumOf
<1>7. <<a, Carries[a][p]>> \in Holders(d)
  BY <1>5, <1>6, HoldersIs
<1> QED
  BY <1>7

LEMMA ReleaseEdgeReturn ==
    ASSUME TypeInv, FlowInv, DataInv, TypeInv', FlowInv', DataInv', Next, OneUserEach,
           ReturnInv, NEW a \in Activities, ReleaseEdge(a)
    PROVE  ReturnInv'
<1> PICK i, c, j, d : /\ i = index[a] /\ c = Out[a][i][2] /\ j = Out[a][i][3]
                      /\ d = DataOf(a, Out[a][i][1])
  OBVIOUS
<1>0. ASSUME NEW x
      PROVE  /\ x = d => Holders(x)' = Holders(x) \cup {<<c, j>>}
             /\ x # d => Holders(x)' = Holders(x)
             /\ <<c, j>> \notin Holders(x)
  BY ReleaseEdgeHolders
<1> PICK p : p = Out[a][i][1]
  OBVIOUS
<1> SUFFICES ASSUME NEW x \in Chunks
             PROVE  /\ GivenOut(x)' => \/ returned'[x] = 0 /\ Holders(x)' # {}
                                       \/ returned'[x] = 1 /\ Holders(x)' = {}
                    /\ ~ GivenOut(x)' => returned'[x] = 0 /\ Holders(x)' = {}
  BY DEF ReturnInv
<1>1. returned' = returned /\ pc[a] = "edges" /\ i \in DOMAIN Out[a]
  BY DEF ReleaseEdge
<1>2. /\ x = d => Holders(x)' = Holders(x) \cup {<<c, j>>}
      /\ x # d => Holders(x)' = Holders(x)
  BY <1>0
<1>3. /\ ~ Sent(a, i) /\ Sent(a, i)'
      /\ \A b \in Activities : \A m \in DOMAIN Out[b] :
            <<b, m>> # <<a, i>> => (Sent(b, m)' <=> Sent(b, m))
  BY ReleaseEdgeSets
<1>4. x = <<x[1], x[2]>> /\ x[1] \in Receipts /\ x[1] \in Activities
  BY DEF Chunks, Activities
<1>5. /\ GivenOut(x) => \/ returned[x] = 0 /\ Holders(x) # {}
                        \/ returned[x] = 1 /\ Holders(x) = {}
      /\ ~ GivenOut(x) => returned[x] = 0 /\ Holders(x) = {}
  BY DEF ReturnInv
<1>6. CASE x # d
  <2>1. x # <<a, p>>
    <3>1. ASSUME x = <<a, p>> PROVE a \in Receipts
      BY <1>4, <3>1
    <3>2. a \in Receipts => d = <<a, p>>
      BY DEF DataOf
    <3> QED
      BY <1>6, <3>1, <3>2
  <2>2. GivenOut(x)' <=> GivenOut(x)
    BY <1>3, <1>4, <2>1 DEF GivenOut
  <2> QED
    BY <1>1, <1>2, <1>5, <1>6, <2>2
<1>7. CASE x = d /\ a \in Receipts
  <2>1. x = <<a, p>>
    BY <1>7 DEF DataOf
  <2>2. ~ GivenOut(x)
    BY <1>1, <1>3, <1>7, <2>1 DEF GivenOut, OneUserEach
  <2>3. GivenOut(x)'
    BY <1>1, <1>3, <2>1 DEF GivenOut
  <2> QED
    BY <1>1, <1>2, <1>5, <1>7, <2>2, <2>3
<1>8. CASE x = d /\ a \in LocalTasks
  <2>1. p \in Params
    BY <1>1, EdgeFacts
  <2>2. Holders(x) # {}
    BY <1>1, <1>8, <2>1, CarrierHolds
  <2>3. x[1] # a
    BY <1>4, <1>8, RepoAssumption
  <2>4. GivenOut(x)' <=> GivenOut(x)
    BY <1>3, <1>4, <2>3 DEF GivenOut
  <2> QED
    BY <1>1, <1>2, <1>5, <1>8, <2>2, <2>4
<1> QED
  BY <1>6, <1>7, <1>8 DEF Activities

LEMMA UnrefReturn ==
    ASSUME TypeInv, FlowInv, DataInv, TypeInv', FlowInv', DataInv', Next, RefsCounted,
           ReturnInv, NEW t \in LocalTasks, Unref(t)
    PROVE  ReturnInv'
<1> PICK j, d : j = index[t] /\ d = got[t][j]
  OBVIOUS
<1> SUFFICES ASSUME NEW x \in Chunks
             PROVE  /\ GivenOut(x)' => \/ returned'[x] = 0 /\ Holders(x)' # {}
                                       \/ returned'[x] = 1 /\ Holders(x)' = {}
                    /\ ~ GivenOut(x)' => returned'[x] = 0 /\ Holders(x)' = {}
  BY DEF ReturnInv
<1>1. /\ d \in Chunks => returned' = [returned EXCEPT ![d] = IF refcount[d] = 1 THEN @ + 1 ELSE @]
      /\ d \notin Chunks => returned' = returned
  BY DEF Unref
<1>2. SentKept
  BY UnrefSets
<1>3. /\ x = d => Holders(x)' = Holders(x) \ {<<t, j>>} /\ <<t, j>> \in Holders(x)
      /\ x # d => Holders(x)' = Holders(x)
  BY UnrefHolders
<1>4. CASE x # d
  <2>1. returned'[x] = returned[x]
    BY <1>1, <1>4 DEF TypeInv
  <2> QED
    BY <1>2, <1>3, <1>4, <2>1, ReturnKept
<1>5. CASE x = d
  <2>1. returned'[x] = IF refcount[x] = 1 THEN returned[x] + 1 ELSE returned[x]
    BY <1>1, <1>5 DEF TypeInv
  <2>2. GivenOut(x) /\ returned[x] = 0
    BY <1>3, <1>5 DEF ReturnInv
  <2>3. GivenOut(x)'
    BY <1>2, <2>2 DEF GivenOut, SentKept, Chunks, Activities
  <2>4. /\ refcount[x] = Cardinality(Holders(x)) /\ IsFiniteSet(Holders(x))
        /\ Cardinality(Holders(x)) \in Nat
    BY HoldersIs, FS_CardinalityType DEF RefsCounted
  <2>5. Cardinality(Holders(x)') = Cardinality(Holders(x)) - 1 /\ IsFiniteSet(Holders(x)')
    BY <1>3, <1>5, <2>4, FS_RemoveElement
  <2>6. refcount[x] = 1 <=> Cardinality(Holders(x)') = 0
    BY <2>4, <2>5
  <2>7. refcount[x] = 1 <=> Holders(x)' = {}
    BY <2>5, <2>6, FS_EmptySet
  <2> QED
    BY <2>1, <2>2, <2>3, <2>7
<1> QED
  BY <1>4, <1>5

LEMMA ReturnNext == OneUserEach /\ RepoInv /\ RepoInv' /\ ReturnInv /\ [Next]_vars => ReturnInv'
<1> SUFFICES ASSUME OneUserEach, RepoInv, RepoInv', ReturnInv, [Next]_vars PROVE ReturnInv'
  OBVIOUS
<1> USE DEF RepoInv
<1>0. RefsCounted
  BY CountsSplit
<1>1. ASSUME NEW a \in Activities, ReleaseEdge(a) PROVE ReturnInv'
  <2>1. Next
    BY <1>1 DEF Next
  <2> QED
    BY <1>1, <2>1, ReleaseEdgeReturn
<1>2. ASSUME NEW t \in LocalTasks, Unref(t) PROVE ReturnInv'
  <2>1. Next
    BY <1>2 DEF Next
  <2> QED
    BY <1>0, <1>2, <2>1, UnrefReturn
<1>3. ASSUME Next, returned' = returned, SentKept, \A t \in LocalTasks : ToDrop(t)' = ToDrop(t)
      PROVE  ReturnInv'
  <2>1. \A d : Holders(d)' = Holders(d)
    BY <1>3, QuietHolders
  <2> QED
    BY <1>3, <2>1, ReturnKept DEF ReturnInv
<1>4. ASSUME NEW a \in Activities, LookupAndCreate(a) \/ AddToUsageLimit(a) PROVE ReturnInv'
  <2>1. Next /\ returned' = returned
    BY <1>4 DEF Next, LookupAndCreate, AddToUsageLimit
  <2>2. SentKept /\ \A t \in LocalTasks : ToDrop(t)' = ToDrop(t)
    BY <1>4, LookupAndCreateSets, AddToUsageLimitSets DEF Resting
  <2> QED
    BY <1>3, <2>1, <2>2
<1>5. ASSUME NEW t \in LocalTasks, Lookup(t) \/ Body(t) \/ UsedOnce(t) \/ Finish(t) PROVE ReturnInv'
  <2>1. Next /\ returned' = returned
    BY <1>5 DEF Next, Lookup, Body, UsedOnce, Finish
  <2>2. SentKept /\ \A u \in LocalTasks : ToDrop(u)' = ToDrop(u)
    BY <1>5, LookupSets, BodySets, UsedOnceSets, FinishSets DEF Resting
  <2> QED
    BY <1>3, <2>1, <2>2
<1>6. CASE UNCHANGED vars
  <2>1. /\ \A t : ToDrop(t)' = ToDrop(t) /\ LookedUp(t)' = LookedUp(t)
        /\ \A a, i : Sent(a, i)' = Sent(a, i) /\ DatumOf(a, i)' = DatumOf(a, i)
    BY <1>6 DEF vars, Past, ToDrop, LookedUp, Sent, DatumOf
  <2>2. \A d : Holders(d)' = Holders(d) /\ (GivenOut(d)' <=> GivenOut(d))
    BY <2>1 DEF Holders, GivenOut
  <2> QED
    BY <1>6, <2>2 DEF vars, ReturnInv
<1> QED
  BY <1>1, <1>2, <1>4, <1>5, <1>6 DEF Next, Ended

LEMMA ReturnedOnce ==
    ASSUME RepoInv, ReturnInv, OneUserEach
    PROVE  ChunksNotReused
<1> USE DEF RepoInv
<1> SUFFICES ASSUME NEW d \in Chunks
             PROVE  /\ returned[d] <= 1
                    /\ returned[d] = 1 => Holders(d) = {} /\ \A a \in Activities : d \notin ToGive(a)
  BY DEF ChunksNotReused
<1>1. /\ GivenOut(d) => \/ returned[d] = 0 /\ Holders(d) # {}
                        \/ returned[d] = 1 /\ Holders(d) = {}
      /\ ~ GivenOut(d) => returned[d] = 0 /\ Holders(d) = {}
  BY DEF ReturnInv
<1>2. ASSUME returned[d] = 1, NEW a \in Activities PROVE d \notin ToGive(a)
  <2> SUFFICES ASSUME d \in ToGive(a) PROVE FALSE
    OBVIOUS
  <2>1. PICK i \in DOMAIN Out[a] : /\ d = DataOf(a, Out[a][i][1])
                                   /\ pc[a] = "create" \/ (pc[a] = "edges" /\ i >= index[a])
    BY DEF ToGive
  <2>2. Out[a][i][1] \in Params /\ i \in Nat /\ index[a] \in Nat
    BY EdgeFacts DEF TypeInv
  <2>3. Holders(d) = {} /\ GivenOut(d)
    BY <1>1, <1>2
  <2>4. CASE a \in Receipts
    <3>1. d = <<a, Out[a][i][1]>>
      BY <2>1, <2>4 DEF DataOf
    <3>2. ~ Sent(a, i)
      BY <2>1, <2>2 DEF Sent
    <3> QED
      BY <2>3, <2>4, <3>1, <3>2 DEF GivenOut, OneUserEach
  <2>5. CASE a \in LocalTasks
    BY <2>1, <2>2, <2>3, <2>5, CarrierHolds
  <2> QED
    BY <2>4, <2>5 DEF Activities
<1> QED
  BY <1>1, <1>2

LEMMA AllBack ==
    ASSUME RepoInv, ReturnInv
    PROVE  NothingLeaks
<1> USE DEF RepoInv
<1> SUFFICES ASSUME \A a \in Activities : pc[a] = "done"
             PROVE  /\ \A k \in Keys : entry[k] = NoEntry
                    /\ \A d \in Given : returned[d] = 1
  BY DEF NothingLeaks
<1>1. \A t \in LocalTasks : ToUse(t) = {} /\ ToDrop(t) = {}
  BY DEF ToUse, ToDrop, Activities
<1>2. \A k : Uses(k) = {} /\ Releasing(k) = {}
  BY <1>1 DEF Uses, Releasing
<1>3. \A k \in Keys : entry[k] = NoEntry
  <2> SUFFICES ASSUME NEW k \in Keys, entry[k] # NoEntry PROVE FALSE
    OBVIOUS
  <2>1. entry[k].retained = 0
    BY <1>2, FS_EmptySet DEF RetainedWhileCounting
  <2> QED
    BY <1>2, <2>1, CountsSplit DEF UsesCounted
<1>4. ASSUME NEW d \in Given PROVE returned[d] = 1
  <2>1. d \in Chunks /\ d[1] \in Activities
    BY DEF Given, Chunks, Activities
  <2>2. GivenOut(d)
    BY <2>1 DEF Given, GivenOut, Sent
  <2>3. Holders(d) = {}
    BY <1>1 DEF Holders
  <2> QED
    BY <2>1, <2>2, <2>3 DEF ReturnInv
<1> QED
  BY <1>3, <1>4

\* A chunk goes back to the arena once, after the last task that has it as
\* input and the last thread that has it to give, where every output of a
\* reception has one user. Without that hypothesis it is false: see the run
\* data_repo_shared.
THEOREM NotReusedCorrect ==
    ASSUME OneUserEach
    PROVE  Spec => []ChunksNotReused
<1>1. RepoInv /\ ReturnInv => ChunksNotReused
  BY ReturnedOnce
<1>2. RepoInv /\ RepoInv' /\ ReturnInv /\ [Next]_vars => ReturnInv'
  BY ReturnNext
<1> QED
  BY <1>1, <1>2, RepoInit, RepoNext, ReturnInit, PTL DEF Spec

\* When every activity is over no entry is left and every chunk that was given
\* to a task is back in its arena.
THEOREM LeaksCorrect ==
    ASSUME OneUserEach
    PROVE  Spec => []NothingLeaks
<1>1. RepoInv /\ ReturnInv => NothingLeaks
  BY AllBack
<1>2. RepoInv /\ RepoInv' /\ ReturnInv /\ [Next]_vars => ReturnInv'
  BY ReturnNext
<1> QED
  BY <1>1, <1>2, RepoInit, RepoNext, ReturnInit, PTL DEF Spec
=============================================================================
