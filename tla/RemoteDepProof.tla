--------------------------- MODULE RemoteDepProof ---------------------------
(***************************************************************************)
(* Lemmas and proofs about RemoteDep, for every number of nodes, threads   *)
(* and slots and every task graph.                                         *)
(***************************************************************************)
EXTENDS RemoteDep, WellFoundedInduction, FiniteSetTheorems, TLAPS

-----------------------------------------------------------------------------
(* The invariant.                                                          *)

\* The outputs of a task a rank needs, and every (output, rank) of a task: what
\* the loop of dague_remote_dep_activate meets, and what count counts.
Needed(t, r) == {k \in Outputs : r \in RanksOf(t, k)}
Pairs(t) == {p \in Outputs \X Nodes : p[2] \in RanksOf(t, p[1])}

\* Graphs whose descriptors are not recycled while the loop has ranks to meet in
\* them: the rank of the task is in the bitmaps, so that the count is never
\* reached, or no rank is told of an output the loop has not met. What the
\* theorems ask of a run is the weaker LoopOwnsDesc below.
LoopOutlivesSends ==
    \A t \in Tasks :
       \/ \E k \in Outputs : Rank[t] \in RanksOf(t, k)
       \/ \A r \in Nodes : \A k, l \in Needed(t, r) : k = l

TaskOrNone == Tasks \cup {NoTask}
Places == {"start", "loop", "release", "rank", "send", "counted", "overrun", "drop", "left", "ended"}
ThreadState ==
    [at : Places,
     task : TaskOrNone, deps : TaskOrNone, out : Outputs, count : Int, left : Int,
     mask : SUBSET Nodes]
Descriptor ==
    [task : TaskOrNone, output : [Outputs -> SUBSET Nodes], count : Int, sent : Int,
     forwarded : SUBSET Nodes]
Command == [action : {"on", "off"}] \cup [action : {"activate"}, rank : Nodes, deps : Tasks]
ActSlot ==
    [state : {"null", "posted", "busy"}, from : Nodes, deps : TaskOrNone, task : TaskOrNone,
     which : SUBSET Outputs, done : SUBSET Outputs, recv : SUBSET Outputs, tag : Nat]
GetSlot ==
    [state : {"null", "posted", "busy"}, to : Nodes, deps : TaskOrNone, which : SUBSET Outputs]
ActMessage ==
    [type : {"activate"}, from : Nodes, to : Nodes, deps : Tasks, task : TaskOrNone,
     which : SUBSET Outputs]
GetMessage ==
    [type : {"get"}, from : Nodes, to : Nodes, deps : Tasks, which : SUBSET Outputs, tag : Nat]
PutMessage ==
    [type : {"put"}, from : Nodes, to : Nodes, tag : Nat, data : Data]

ThreadType == thread \in [Threads -> ThreadState]
TaskType ==
    /\ todo \in [Nodes -> Int]
    /\ status \in [Tasks -> {"waiting", "running", "done"}]
    /\ released \in [Nodes -> [Data -> Seq(Data)]]
    /\ freed \subseteq Received
    /\ enabled \in [Nodes -> BOOLEAN]
DescType ==
    /\ desc \in [Tasks -> Descriptor]
    /\ freelist \in [Nodes -> Seq(Tasks)]
CommType ==
    /\ cmds \in [Nodes -> Seq(Command)]
    /\ act \in [Nodes -> [Slots -> ActSlot]]
    /\ get \in [Nodes -> [Slots -> GetSlot]]
    /\ nexttag \in [Nodes -> Nat]
    /\ net \subseteq ActMessage \cup GetMessage \cup PutMessage

\* A descriptor in use by the root: it describes a task of its own node.
Live(d) == desc[d].task \in Tasks /\ Rank[desc[d].task] = Rank[d]

\* What of an activation of rank r by descriptor d is under way, in the order of
\* its life.
Queued(d, r) == \E i \in DOMAIN cmds[Rank[d]] :
                   cmds[Rank[d]][i] = [action |-> "activate", rank |-> r, deps |-> d]
Announced(d, r) == \E m \in net : m.type = "activate" /\ m.deps = d /\ m.to = r
Asked(d, r) == \E m \in net : m.type = "get" /\ m.deps = d /\ m.from = r
Serving(d, r, j) == get[Rank[d]][j].state = "busy" /\ get[Rank[d]][j].deps = d /\ get[Rank[d]][j].to = r

\* The pairs of a live descriptor whose output has been sent.
Waits(d, r, k) == \/ Queued(d, r) \/ Announced(d, r) \/ Asked(d, r)
                  \/ \E j \in Slots : Serving(d, r, j) /\ k \in get[Rank[d]][j].which
Served(d) == {p \in Pairs(desc[d].task) : p[2] \in desc[d].forwarded /\ ~ Waits(d, p[2], p[1])}

\* The pairs a thread in the loop has not met.
Unmet(w) == {p \in Pairs(thread[w].task) :
                \/ p[1] > thread[w].out
                \/ p[1] = thread[w].out /\ p[2] \in thread[w].mask}

\* A thread works on a task of its node, alone, and the descriptor is the one of
\* the task as long as the loop has ranks to meet.
ThreadOf(w) ==
    /\ thread[w].at \in {"start", "loop", "left", "ended"} => thread[w].task = NoTask
    /\ thread[w].at \notin {"start", "loop", "left", "ended"} =>
          thread[w].task \in Tasks /\ Rank[thread[w].task] = w[1]
    /\ thread[w].at = "release" => status[thread[w].task] = "running"
    /\ thread[w].at \in {"rank", "send", "counted", "overrun", "drop"} => status[thread[w].task] = "done"
ThreadInv ==
    /\ \A w \in Threads : ThreadOf(w)
    /\ \A w, v \in Threads : w # v /\ thread[w].task # NoTask => thread[v].task # thread[w].task

\* The loop of dague_remote_dep_activate: left counts what it has not met, and a
\* rank is told of an output when the loop meets it for the first time.
InLoop(w) == thread[w].at \in {"rank", "send", "counted"}
OwnDesc(w) == desc[thread[w].deps].task = thread[w].task
LoopOwnsDesc == \A w \in Threads : InLoop(w) /\ thread[w].left # 0 => OwnDesc(w)
LoopOf(w) == InLoop(w) =>
    /\ thread[w].deps \in Tasks /\ Rank[thread[w].deps] = w[1]
    /\ thread[w].left = Cardinality(Unmet(w))
    /\ thread[w].left # 0 => OwnDesc(w)
    /\ IF thread[w].at = "counted"
       THEN thread[w].mask = {}
       ELSE thread[w].mask # {} /\ thread[w].mask \subseteq RanksOf(thread[w].task, thread[w].out)
    /\ thread[w].at = "send" =>
          /\ Min(thread[w].mask) # w[1]
          /\ OwnDesc(w) => Min(thread[w].mask) \notin desc[thread[w].deps].forwarded
    /\ OwnDesc(w) => \A r \in desc[thread[w].deps].forwarded :
                        \E p \in Pairs(thread[w].task) \ Unmet(w) : p[2] = r
LoopInv == \A w \in Threads : LoopOf(w)

\* A live descriptor tells what its task sends, and sent counts what was sent.
LiveInv ==
    \A d \in Tasks : Live(d) =>
       /\ status[desc[d].task] = "done"
       /\ desc[d].output = RankBits(desc[d].task, Outputs)
       /\ desc[d].count = Cardinality(Pairs(desc[d].task))
       /\ \A r \in desc[d].forwarded : r # Rank[d] /\ Needed(desc[d].task, r) # {}
SentInv == \A d \in Tasks : Live(d) => desc[d].sent = Cardinality(Served(d))
SingleInv == \A d, e \in Tasks : Live(d) /\ Live(e) /\ desc[d].task = desc[e].task => d = e

\* A name is new until its task is done; the descriptors of the free list
\* belong to no task.
FreeInv ==
    /\ \A d \in Tasks : status[d] # "done" => desc[d].task = NoTask
    /\ \A n \in Nodes : \A i \in DOMAIN freelist[n] :
          /\ Rank[freelist[n][i]] = n
          /\ status[freelist[n][i]] = "done"
          /\ desc[freelist[n][i]].task = NoTask
          /\ \A j \in DOMAIN freelist[n] : freelist[n][i] = freelist[n][j] => i = j

\* Every command, activation, request and busy slot is of a live descriptor.
CommandInv ==
    \A n \in Nodes : \A i \in DOMAIN cmds[n] : cmds[n][i].action = "activate" =>
       /\ Rank[cmds[n][i].deps] = n /\ Live(cmds[n][i].deps)
       /\ cmds[n][i].rank \in desc[cmds[n][i].deps].forwarded
       /\ \A j \in DOMAIN cmds[n] : cmds[n][i] = cmds[n][j] => i = j
MessageInv ==
    /\ \A m \in net : m.type = "activate" =>
          /\ m.from = Rank[m.deps] /\ Live(m.deps)
          /\ m.task = desc[m.deps].task /\ m.which = Needed(m.task, m.to)
          /\ m.to \in desc[m.deps].forwarded
    /\ \A m \in net : m.type = "get" =>
          /\ m.to = Rank[m.deps] /\ Live(m.deps)
          /\ m.which = Needed(desc[m.deps].task, m.from)
          /\ m.from \in desc[m.deps].forwarded
          /\ \A o \in net : o.type = "get" /\ o.deps = m.deps /\ o.from = m.from => o = m
ServingInv ==
    \A n \in Nodes, j \in Slots : get[n][j].state = "busy" =>
       /\ get[n][j].deps \in Tasks /\ Rank[get[n][j].deps] = n /\ Live(get[n][j].deps)
       /\ get[n][j].to \in desc[get[n][j].deps].forwarded
       /\ get[n][j].which # {}
       /\ get[n][j].which \subseteq Needed(desc[get[n][j].deps].task, get[n][j].to)
       /\ \A i \in Slots : get[n][i].state = "busy" /\ get[n][i].deps = get[n][j].deps
                           /\ get[n][i].to = get[n][j].to => i = j
\* An activation is in one place.
OnePlace ==
    \A d \in Tasks, r \in Nodes :
       /\ Queued(d, r) => ~ Announced(d, r) /\ ~ Asked(d, r) /\ \A j \in Slots : ~ Serving(d, r, j)
       /\ Announced(d, r) => ~ Asked(d, r) /\ \A j \in Slots : ~ Serving(d, r, j)
       /\ Asked(d, r) => \A j \in Slots : ~ Serving(d, r, j)

\* Reception.
Receiving(n, i, t) == act[n][i].state = "busy" /\ act[n][i].task = t
ReceiveInv ==
    \A n \in Nodes, i \in Slots : act[n][i].state = "busy" =>
       /\ act[n][i].task \in Tasks
       /\ act[n][i].from = Rank[act[n][i].task] /\ act[n][i].from # n
       /\ act[n][i].recv # {} /\ act[n][i].which = act[n][i].recv /\ act[n][i].done = {}
       /\ act[n][i].recv \subseteq Needed(act[n][i].task, n)
       /\ \A k \in act[n][i].recv : released[n][<<act[n][i].task, k>>] = <<>>
       /\ \A j \in Slots : Receiving(n, j, act[n][i].task) => i = j
Accepted(t, n) ==
    \/ \E i \in Slots : Receiving(n, i, t)
    \/ \E k \in Outputs : released[n][<<t, k>>] # <<>>
AcceptInv ==
    \A t \in Tasks, n \in Nodes : Accepted(t, n) =>
       /\ status[t] = "done"
       /\ \A d \in Tasks : n # Rank[t] /\ Live(d) /\ desc[d].task = t =>
             n \in desc[d].forwarded /\ ~ Queued(d, n) /\ ~ Announced(d, n)

\* The inputs of a task that runs or has run have been released on its node.
InputsInv == \A s \in Tasks : status[s] # "waiting" => \A d \in Inputs(s) : released[Rank[s]][d] # <<>>
RunningInv == \A s \in Tasks : status[s] = "running" => \E w \in Threads : thread[w].task = s /\ thread[w].at = "release"
\* The network is on between the two commands; nothing is in use before or after.
OnOffInv ==
    \A n \in Nodes :
       /\ (\E w \in Threads : w[1] = n /\ thread[w].at = "start") => cmds[n] = <<>> /\ ~ enabled[n]
       /\ ~ enabled[n] => \A i \in Slots : act[n][i].state # "busy" /\ get[n][i].state # "busy"
       /\ \A i \in DOMAIN cmds[n] :
             /\ cmds[n][i].action = "on" => i = 1 /\ ~ enabled[n]
             /\ cmds[n][i].action = "off" => Left(n)
LeftInv == \A n \in Nodes :
    (\A w \in Threads : w[1] = n => thread[w].at \in {"left", "ended"}) => todo[n] = 0
ThreadsTogether == \A w, v \in Threads : w[1] = v[1] /\ thread[w].at = "start" => thread[v].at = "start"

LocalInv ==
    /\ ThreadType /\ TaskType /\ ThreadInv /\ LoopInv /\ InputsInv /\ RunningInv
    /\ OnOffInv /\ ThreadsTogether /\ LeftInv /\ FlyingExact
CommInv ==
    /\ DescType /\ CommType /\ IsFiniteSet(net)
    /\ LiveInv /\ SentInv /\ SingleInv /\ FreeInv
    /\ CommandInv /\ MessageInv /\ ServingInv /\ OnePlace
    /\ ReceiveInv /\ AcceptInv /\ ReleasedOnce
TransferInv == LocalInv /\ CommInv

-----------------------------------------------------------------------------
(* Lemmas about the operators.                                             *)

\* Every set of numbers but the empty one has a least element.
LEMMA HasMin ==
    ASSUME NEW S \in SUBSET Nat, S # {}
    PROVE  Min(S) \in S /\ \A y \in S : Min(S) <= y
<1>1. \E x \in S : \A y \in S : ~ (<<y, x>> \in OpToRel(<, Nat))
  BY WFMin, NatLessThanWellFounded
<1>2. PICK x \in S : \A y \in S : ~ (<<y, x>> \in OpToRel(<, Nat))
  BY <1>1
<1>3. \A y \in S : x <= y
  <2> TAKE y \in S
  <2>1. <<y, x>> \in Nat \X Nat => ~ (y < x)
    BY <1>2 DEF OpToRel
  <2> QED BY <2>1
<1> QED BY <1>3 DEF Min

LEMMA SetsFinite ==
    /\ IsFiniteSet(Nodes) /\ IsFiniteSet(Outputs) /\ IsFiniteSet(Slots) /\ IsFiniteSet(Tasks)
    /\ Nodes \subseteq Nat /\ Outputs \subseteq Nat /\ Slots \subseteq Nat
<1>1. IsFiniteSet(Nodes) /\ IsFiniteSet(Outputs) /\ IsFiniteSet(Slots)
  BY FS_Interval, SizeAssumption DEF Nodes, Outputs, Slots
<1> QED BY <1>1, SizeAssumption, RemoteGraphAssumption DEF Nodes, Outputs, Slots

\* The pairs of a task are finitely many, and count counts them.
LEMMA PairsFinite ==
    ASSUME NEW t \in Tasks
    PROVE  /\ IsFiniteSet(Pairs(t))
           /\ NbRanks(t, Outputs) = Cardinality(Pairs(t))
           /\ Cardinality(Pairs(t)) \in Nat
<1>1. IsFiniteSet(Outputs \X Nodes)
  BY SetsFinite, FS_Product
<1>2. Pairs(t) \in SUBSET (Outputs \X Nodes)
  BY DEF Pairs
<1>3. IsFiniteSet(Pairs(t))
  BY <1>1, <1>2, FS_Subset
<1> QED BY <1>3, FS_CardinalityType DEF Pairs, NbRanks

LEMMA NbRanksType ==
    ASSUME NEW t \in Tasks, NEW ks \in SUBSET Outputs
    PROVE  NbRanks(t, ks) \in Nat
<1>1. {p \in ks \X Nodes : p[2] \in RanksOf(t, p[1])} \in SUBSET Pairs(t)
  BY DEF Pairs
<1>2. IsFiniteSet({p \in ks \X Nodes : p[2] \in RanksOf(t, p[1])})
  BY <1>1, PairsFinite, FS_Subset
<1> QED BY <1>2, FS_CardinalityType DEF NbRanks

LEMMA RanksType ==
    ASSUME NEW t \in Tasks, NEW k \in Outputs
    PROVE  RanksOf(t, k) \subseteq Nodes
BY RemoteGraphAssumption DEF RanksOf

LEMMA RankBitsType ==
    ASSUME NEW t \in Tasks, NEW ks \in SUBSET Outputs
    PROVE  RankBits(t, ks) \in [Outputs -> SUBSET Nodes]
BY RanksType DEF RankBits

LEMMA BlankType ==
    /\ Blank \in Descriptor
    /\ Blank.task = NoTask /\ Blank.sent = 0 /\ Blank.forwarded = {}
BY DEF Blank, Descriptor, TaskOrNone

LEMMA FilledType ==
    ASSUME NEW t \in Tasks, NEW ks \in SUBSET Outputs
    PROVE  /\ Filled(t, ks) \in Descriptor
           /\ Filled(t, ks).task = t /\ Filled(t, ks).output = RankBits(t, ks)
           /\ Filled(t, ks).count = NbRanks(t, ks) /\ Filled(t, ks).sent = 0
           /\ Filled(t, ks).forwarded = {}
<1>1. RankBits(t, ks) \in [Outputs -> SUBSET Nodes] /\ NbRanks(t, ks) \in Nat
  BY RankBitsType, NbRanksType
<1> QED BY <1>1 DEF Filled, Descriptor, TaskOrNone

LEMMA AtRankType ==
    ASSUME NEW h \in ThreadState, NEW o \in Outputs, NEW m \in SUBSET Nodes
    PROVE  [h EXCEPT !.at = "rank", !.out = o, !.mask = m, !.count = 0] \in ThreadState
<1>1. "rank" \in Places
  BY DEF Places
<1>2. [h EXCEPT !.at = "rank", !.out = o, !.mask = m] \in ThreadState
  BY <1>1 DEF ThreadState
<1>3. PICK g \in ThreadState : g = [h EXCEPT !.at = "rank", !.out = o, !.mask = m]
  BY <1>2
<1>4. [g EXCEPT !.count = 0] \in ThreadState
  BY DEF ThreadState
<1>5. [h EXCEPT !.at = "rank", !.out = o, !.mask = m, !.count = 0]
        = [[h EXCEPT !.at = "rank", !.out = o, !.mask = m] EXCEPT !.count = 0]
  OBVIOUS
<1> QED BY <1>3, <1>4, <1>5, Zenon

\* The next output of the loop: the first one from i on that has ranks.
LEMMA LookAtEffect ==
    ASSUME NEW here \in ThreadState, NEW output \in [Outputs -> SUBSET Nodes], NEW i \in Nat
    PROVE  LET s == LookAt(here, output, i)
           IN  /\ s \in ThreadState
               /\ s.task = here.task /\ s.deps = here.deps /\ s.left = here.left
               /\ \/ here.left = 0 /\ s.at = "drop"
                  \/ here.left # 0 /\ s.at = "overrun"
                  \/ /\ here.left # 0 /\ s.at = "rank"
                     /\ s.out >= i /\ s.mask = output[s.out] /\ s.mask # {}
                     /\ \A k \in Outputs : k >= i /\ output[k] # {} => s.out <= k
<1> DEFINE next == {k \in Outputs : k >= i /\ output[k] # {}}
           s == LookAt(here, output, i)
<1>1. next \in SUBSET Nat /\ next \subseteq Outputs
  BY SetsFinite
<1>2. CASE here.left = 0
  <2>1. s = [here EXCEPT !.at = "drop"]
    BY <1>2 DEF LookAt
  <2> HIDE DEF s
  <2>2. s \in ThreadState /\ s.at = "drop" /\ s.task = here.task /\ s.deps = here.deps /\ s.left = here.left
    BY <2>1 DEF ThreadState, Places
  <2> QED BY <1>2, <2>2 DEF s
<1>3. CASE here.left # 0 /\ next = {}
  <2>1. s = [here EXCEPT !.at = "overrun"]
    BY <1>3 DEF LookAt
  <2> HIDE DEF s
  <2>2. s \in ThreadState /\ s.at = "overrun" /\ s.task = here.task /\ s.deps = here.deps /\ s.left = here.left
    BY <2>1 DEF ThreadState, Places
  <2> QED BY <1>3, <2>2 DEF s
<1>4. CASE here.left # 0 /\ next # {}
  <2>1. Min(next) \in next /\ \A y \in next : Min(next) <= y
    BY <1>1, <1>4, HasMin
  <2>2. PICK o : o = Min(next)
    OBVIOUS
  <2> PICK m : m = output[o]
    OBVIOUS
  <2>3. s = [here EXCEPT !.at = "rank", !.out = o, !.mask = m, !.count = 0]
    BY <1>4, <2>2 DEF LookAt
  <2>4. o \in Outputs /\ o >= i /\ output[o] # {} /\ output[o] \in SUBSET Nodes
        /\ \A k \in Outputs : k >= i /\ output[k] # {} => o <= k
    BY <2>1, <2>2
  <2> HIDE DEF s, next
  <2>5. o \in Outputs /\ m \in SUBSET Nodes
    BY <2>4
  <2>6. /\ s.at = "rank" /\ s.task = here.task /\ s.deps = here.deps
        /\ s.left = here.left /\ s.out = o /\ s.mask = m
    BY <2>3 DEF ThreadState
  <2>7. s \in ThreadState
    BY <2>3, <2>5, AtRankType
  <2> QED BY <1>4, <2>4, <2>6, <2>7 DEF s
<1> QED BY <1>2, <1>3, <1>4

-----------------------------------------------------------------------------
(* What keeps the parts of the invariant.                                  *)

LEMMA TokensSame ==
    ASSUME UNCHANGED <<cmds, get, net>>, NEW d, NEW r
    PROVE  /\ Queued(d, r)' <=> Queued(d, r)
           /\ Announced(d, r)' <=> Announced(d, r)
           /\ Asked(d, r)' <=> Asked(d, r)
           /\ \A j \in Slots : Serving(d, r, j)' <=> Serving(d, r, j)
           /\ \A k \in Outputs : Waits(d, r, k)' <=> Waits(d, r, k)
BY DEF Queued, Announced, Asked, Serving, Waits

\* The activations of a command queue, which a command of another kind leaves
\* as they are.
Activations(s) == {i \in DOMAIN s : s[i].action = "activate"}

LEMMA DescSame ==
    ASSUME UNCHANGED desc, NEW d
    PROVE  /\ Live(d)' <=> Live(d)
           /\ (\A r \in Nodes, k \in Outputs : Waits(d, r, k)' <=> Waits(d, r, k))
              => Served(d)' = Served(d)
<1>1. Live(d)' <=> Live(d)
  BY DEF Live
<1>2. ASSUME \A r \in Nodes, k \in Outputs : Waits(d, r, k)' <=> Waits(d, r, k)
      PROVE  Served(d)' = Served(d)
  <2>1. \A p \in Pairs(desc[d].task) : p[1] \in Outputs /\ p[2] \in Nodes
    BY DEF Pairs
  <2>2. Served(d)' = {p \in Pairs(desc[d].task) : p[2] \in desc[d].forwarded /\ ~ Waits(d, p[2], p[1])'}
    BY DEF Served
  <2>3. Served(d) = {p \in Pairs(desc[d].task) : p[2] \in desc[d].forwarded /\ ~ Waits(d, p[2], p[1])}
    BY DEF Served
  <2> QED BY <1>2, <2>1, <2>2, <2>3
<1> QED BY <1>1, <1>2

LEMMA DescKept ==
    ASSUME DescType, LiveInv, SentInv, SingleInv, FreeInv,
           UNCHANGED <<desc, freelist>>,
           \A t \in Tasks : status'[t] = "done" <=> status[t] = "done",
           \A d \in Tasks, r \in Nodes, k \in Outputs : Waits(d, r, k)' <=> Waits(d, r, k)
    PROVE  LiveInv' /\ SentInv' /\ SingleInv' /\ FreeInv'
<1>1. \A d : Live(d)' <=> Live(d)
  BY DescSame
<1>2. LiveInv'
  BY <1>1 DEF LiveInv, Live
<1>3. SentInv'
  <2>1. \A d \in Tasks : Served(d)' = Served(d)
    BY DescSame
  <2> QED BY <1>1, <2>1 DEF SentInv
<1>4. SingleInv'
  BY <1>1 DEF SingleInv
<1>5. FreeInv'
  BY DEF FreeInv, DescType
<1> QED BY <1>2, <1>3, <1>4, <1>5

\* No live descriptor is recycled.
Grows == \A d \in Tasks : Live(d) =>
            desc'[d].task = desc[d].task /\ desc[d].forwarded \subseteq desc'[d].forwarded

LEMMA StaysLive ==
    ASSUME Grows, NEW d \in Tasks, Live(d)
    PROVE  Live(d)' /\ desc'[d].task = desc[d].task
BY DEF Grows, Live

LEMMA CommandKept ==
    ASSUME CommType, CommandInv, UNCHANGED cmds, Grows
    PROVE  CommandInv'
<1> SUFFICES ASSUME NEW n \in Nodes, NEW i \in DOMAIN cmds[n], cmds[n][i].action = "activate"
             PROVE  /\ Rank[cmds[n][i].deps] = n /\ Live(cmds[n][i].deps)'
                    /\ cmds[n][i].rank \in desc'[cmds[n][i].deps].forwarded
                    /\ \A j \in DOMAIN cmds[n] : cmds[n][i] = cmds[n][j] => i = j
  BY DEF CommandInv
<1>1. cmds[n][i] \in Command
  BY DEF CommType
<1>2. cmds[n][i].deps \in Tasks
  BY <1>1 DEF Command
<1> QED BY <1>2, StaysLive DEF CommandInv, Grows

LEMMA MessageLess ==
    ASSUME CommType, MessageInv, net' \subseteq net, Grows
    PROVE  MessageInv'
<1>1. ASSUME NEW m \in net, m.type = "activate" \/ m.type = "get"
      PROVE  m.deps \in Tasks
  BY <1>1 DEF CommType, ActMessage, GetMessage, PutMessage
<1>2. ASSUME NEW m \in net', m.type = "activate"
      PROVE  /\ m.from = Rank[m.deps] /\ Live(m.deps)'
             /\ m.task = desc'[m.deps].task /\ m.which = Needed(m.task, m.to)
             /\ m.to \in desc'[m.deps].forwarded
  BY <1>1, <1>2, StaysLive DEF MessageInv, Grows
<1>3. ASSUME NEW m \in net', m.type = "get"
      PROVE  /\ m.to = Rank[m.deps] /\ Live(m.deps)'
             /\ m.which = Needed(desc'[m.deps].task, m.from)
             /\ m.from \in desc'[m.deps].forwarded
             /\ \A o \in net' : o.type = "get" /\ o.deps = m.deps /\ o.from = m.from => o = m
  BY <1>1, <1>3, StaysLive DEF MessageInv, Grows
<1> QED BY <1>2, <1>3 DEF MessageInv

LEMMA MessageKept ==
    ASSUME CommType, MessageInv, UNCHANGED net, Grows
    PROVE  MessageInv'
BY MessageLess

LEMMA ServingKept ==
    ASSUME ServingInv, UNCHANGED get, Grows
    PROVE  ServingInv'
<1> SUFFICES ASSUME NEW n \in Nodes, NEW j \in Slots, get[n][j].state = "busy"
             PROVE  /\ get[n][j].deps \in Tasks /\ Rank[get[n][j].deps] = n /\ Live(get[n][j].deps)'
                    /\ get[n][j].to \in desc'[get[n][j].deps].forwarded
                    /\ get[n][j].which # {}
                    /\ get[n][j].which \subseteq Needed(desc'[get[n][j].deps].task, get[n][j].to)
                    /\ \A i \in Slots : get[n][i].state = "busy" /\ get[n][i].deps = get[n][j].deps
                           /\ get[n][i].to = get[n][j].to => i = j
  BY DEF ServingInv
<1> QED BY StaysLive DEF ServingInv, Grows

LEMMA OnePlaceKept ==
    ASSUME OnePlace,
           \A d \in Tasks, r \in Nodes : Queued(d, r)' <=> Queued(d, r),
           \A d \in Tasks, r \in Nodes : Announced(d, r)' <=> Announced(d, r),
           \A d \in Tasks, r \in Nodes : Asked(d, r)' <=> Asked(d, r),
           \A d \in Tasks, r \in Nodes : \A j \in Slots : Serving(d, r, j)' => Serving(d, r, j)
    PROVE  OnePlace'
BY DEF OnePlace

LEMMA ReceptionKept ==
    ASSUME ReceiveInv, AcceptInv, ReleasedOnce, UNCHANGED <<act, released, desc>>,
           \A t \in Tasks : status[t] = "done" => status'[t] = "done",
           \A d \in Tasks, r \in Nodes : Queued(d, r)' <=> Queued(d, r),
           \A d \in Tasks, r \in Nodes : Announced(d, r)' <=> Announced(d, r)
    PROVE  ReceiveInv' /\ AcceptInv' /\ ReleasedOnce'
<1>1. \A t, n : Accepted(t, n)' <=> Accepted(t, n)
  BY DEF Accepted, Receiving
<1>2. ReceiveInv'
  BY DEF ReceiveInv, Receiving
<1>3. AcceptInv'
  BY <1>1 DEF AcceptInv, Live
<1>4. ReleasedOnce'
  BY DEF ReleasedOnce
<1> QED BY <1>2, <1>3, <1>4

\* A step of one thread.
LEMMA ThreadChange ==
    ASSUME ThreadType, NEW w \in Threads, NEW s \in ThreadState, thread' = [thread EXCEPT ![w] = s]
    PROVE  /\ ThreadType' /\ thread'[w] = s
           /\ \A v \in Threads : v # w => thread'[v] = thread[v]
BY DEF ThreadType

LEMMA ThreadKept ==
    ASSUME ThreadType, ThreadInv, NEW w \in Threads, NEW s \in ThreadState,
           thread' = [thread EXCEPT ![w] = s],
           \A t \in Tasks : status[t] = "done" => status'[t] = "done",
           \A v \in Threads : v # w /\ thread[v].at = "release" => status'[thread[v].task] = "running",
           ThreadOf(w)',
           \A v \in Threads : v # w /\ s.task # NoTask => thread[v].task # s.task
    PROVE  ThreadInv'
<1>1. thread'[w] = s /\ \A v \in Threads : v # w => thread'[v] = thread[v]
  BY ThreadChange
<1>2. ASSUME NEW v \in Threads PROVE ThreadOf(v)'
  <2>1. CASE v = w
    BY <2>1
  <2>2. CASE v # w
    <3>1. thread'[v] = thread[v] /\ ThreadOf(v)
      BY <1>1, <2>2 DEF ThreadInv
    <3>2. thread[v].at = "release" => status'[thread[v].task] = "running"
      BY <2>2
    <3>3. thread[v].at \in {"rank", "send", "counted", "overrun", "drop"} => status'[thread[v].task] = "done"
      BY <3>1 DEF ThreadOf
    <3> QED BY <3>1, <3>2, <3>3 DEF ThreadOf
  <2> QED BY <2>1, <2>2
<1>3. ASSUME NEW u \in Threads, NEW v \in Threads, u # v, thread'[u].task # NoTask
      PROVE  thread'[v].task # thread'[u].task
  <2>1. CASE u = w
    BY <1>1, <1>3, <2>1
  <2>2. CASE v = w
    BY <1>1, <1>3, <2>2
  <2>3. CASE u # w /\ v # w
    BY <1>1, <1>3, <2>3 DEF ThreadInv
  <2> QED BY <2>1, <2>2, <2>3
<1> QED BY <1>2, <1>3 DEF ThreadInv

\* The loop of another thread goes on, whatever happens to descriptors that are
\* not its own, and to its own after the last rank.
LEMMA LoopOfKept ==
    ASSUME NEW v \in Threads, LoopOf(v), thread'[v] = thread[v],
           InLoop(v) => LET d == thread[v].deps
                        IN  \/ desc'[d].task = desc[d].task /\ desc'[d].forwarded = desc[d].forwarded
                            \/ thread[v].left = 0 /\ desc'[d].task # thread[v].task
                            \/ ~ OwnDesc(v) /\ desc'[d].task # thread[v].task
    PROVE  LoopOf(v)'
<1>1. Unmet(v)' = Unmet(v) /\ (InLoop(v)' <=> InLoop(v))
  BY DEF Unmet, InLoop
<1>2. InLoop(v) /\ ~ OwnDesc(v) => thread[v].left = 0
  BY DEF LoopOf
<1>3. SUFFICES ASSUME InLoop(v) PROVE LoopOf(v)'
  BY <1>1 DEF LoopOf
<1>4. CASE desc'[thread[v].deps].task = desc[thread[v].deps].task /\ desc'[thread[v].deps].forwarded = desc[thread[v].deps].forwarded
  BY <1>1, <1>3, <1>4 DEF LoopOf, OwnDesc, InLoop
<1>5. CASE thread[v].left = 0 /\ desc'[thread[v].deps].task # thread[v].task
  BY <1>1, <1>3, <1>5 DEF LoopOf, OwnDesc, InLoop
<1> QED BY <1>2, <1>3, <1>4, <1>5

LEMMA LoopKept ==
    ASSUME ThreadType, LoopInv, NEW w \in Threads, NEW s \in ThreadState,
           thread' = [thread EXCEPT ![w] = s], UNCHANGED desc, LoopOf(w)'
    PROVE  LoopInv'
<1>1. \A v \in Threads : v # w => thread'[v] = thread[v]
  BY ThreadChange
<1>2. ASSUME NEW v \in Threads, v # w PROVE LoopOf(v)'
  BY <1>1, <1>2, LoopOfKept DEF LoopInv
<1> QED BY <1>2 DEF LoopInv

\* A thread that runs tasks does not start or leave the round of its node.
LEMMA RoundKept ==
    ASSUME ThreadType, OnOffInv, ThreadsTogether, LeftInv,
           NEW w \in Threads, NEW s \in ThreadState, thread' = [thread EXCEPT ![w] = s],
           thread[w].at \notin {"start", "left", "ended"}, s.at \notin {"start", "ended"},
           UNCHANGED <<enabled, act, get>>,
           \A n \in Nodes : n # w[1] => todo'[n] = todo[n] /\ cmds'[n] = cmds[n],
           s.at = "left" => todo'[w[1]] = 0,
           \A i \in DOMAIN cmds'[w[1]] : cmds'[w[1]][i].action # "activate" =>
               i \in DOMAIN cmds[w[1]] /\ cmds'[w[1]][i] = cmds[w[1]][i]
    PROVE  OnOffInv' /\ ThreadsTogether' /\ LeftInv'
<1>1. thread'[w] = s /\ \A v \in Threads : v # w => thread'[v] = thread[v]
  BY ThreadChange
<1>2. w[1] \in Nodes
  BY DEF Threads
<1>3. ThreadsTogether'
  BY <1>1 DEF ThreadsTogether
<1>4. LeftInv'
  <2> SUFFICES ASSUME NEW n \in Nodes, \A v \in Threads : v[1] = n => thread'[v].at \in {"left", "ended"}
               PROVE  todo'[n] = 0
    BY DEF LeftInv
  <2>1. CASE n = w[1]
    BY <1>1, <2>1
  <2>2. CASE n # w[1]
    BY <1>1, <2>2 DEF LeftInv
  <2> QED BY <2>1, <2>2
<1>5. OnOffInv'
  <2> SUFFICES ASSUME NEW n \in Nodes
               PROVE  /\ (\E v \in Threads : v[1] = n /\ thread'[v].at = "start") => cmds'[n] = <<>> /\ ~ enabled[n]
                      /\ ~ enabled[n] => \A i \in Slots : act[n][i].state # "busy" /\ get[n][i].state # "busy"
                      /\ \A i \in DOMAIN cmds'[n] :
                            /\ cmds'[n][i].action = "on" => i = 1 /\ ~ enabled[n]
                            /\ cmds'[n][i].action = "off" => Left(n)'
    BY DEF OnOffInv
  <2>1. CASE n = w[1]
    <3>1. \A v \in Threads : v[1] = n => thread[v].at # "start" /\ thread'[v].at # "start"
      BY <1>1, <2>1 DEF ThreadsTogether
    <3>2. ~ Left(n)
      BY <2>1 DEF Left
    <3>3. \A i \in DOMAIN cmds[n] : cmds[n][i].action # "off"
      BY <3>2 DEF OnOffInv
    <3>4. ASSUME NEW i \in DOMAIN cmds'[n]
          PROVE  /\ cmds'[n][i].action = "on" => i = 1 /\ ~ enabled[n]
                 /\ cmds'[n][i].action # "off"
      <4>1. CASE cmds'[n][i].action = "activate"
        BY <4>1
      <4>2. CASE cmds'[n][i].action # "activate"
        <5>1. i \in DOMAIN cmds[n] /\ cmds'[n][i] = cmds[n][i]
          BY <2>1, <4>2
        <5> QED BY <3>3, <5>1 DEF OnOffInv
      <4> QED BY <4>1, <4>2
    <3> QED BY <3>1, <3>4 DEF OnOffInv
  <2>2. CASE n # w[1]
    <3>1. \A v \in Threads : v[1] = n => thread'[v] = thread[v]
      BY <1>1, <2>2
    <3>2. Left(n)' <=> Left(n)
      BY <3>1 DEF Left
    <3> QED BY <2>2, <3>1, <3>2 DEF OnOffInv
  <2> QED BY <2>1, <2>2
<1> QED BY <1>3, <1>4, <1>5

\* What a step of a thread that touches no descriptor and no message keeps.
LEMMA CommKept ==
    ASSUME CommInv, UNCHANGED <<released, desc, freelist, cmds, act, get, nexttag, net>>,
           \A t \in Tasks : status'[t] = "done" <=> status[t] = "done"
    PROVE  CommInv'
<1>1. DescType' /\ CommType' /\ IsFiniteSet(net)'
  BY DEF CommInv, DescType, CommType
<1>2. \A d \in Tasks, r \in Nodes :
         /\ Queued(d, r)' <=> Queued(d, r)
         /\ Announced(d, r)' <=> Announced(d, r)
         /\ Asked(d, r)' <=> Asked(d, r)
         /\ \A j \in Slots : Serving(d, r, j)' <=> Serving(d, r, j)
         /\ \A k \in Outputs : Waits(d, r, k)' <=> Waits(d, r, k)
  BY TokensSame
<1>3. LiveInv' /\ SentInv' /\ SingleInv' /\ FreeInv'
  BY <1>2, DescKept DEF CommInv
<1>4. Grows
  BY DEF Grows
<1>5. CommandInv' /\ MessageInv' /\ ServingInv'
  BY <1>4, CommandKept, MessageKept, ServingKept DEF CommInv
<1>6. OnePlace'
  BY <1>2, OnePlaceKept DEF CommInv
<1>7. ReceiveInv' /\ AcceptInv' /\ ReleasedOnce'
  BY <1>2, ReceptionKept DEF CommInv
<1> QED BY <1>1, <1>3, <1>5, <1>6, <1>7 DEF CommInv

LEMMA InputsKept ==
    ASSUME InputsInv, UNCHANGED released, \A t \in Tasks : status[t] = "waiting" => status'[t] = "waiting"
    PROVE  InputsInv'
BY RemoteGraphAssumption DEF InputsInv

\* The tasks of a node no thread has taken.
Waiting(n) == {t \in Tasks : Rank[t] = n /\ status[t] = "waiting"}

\* What the count of a node has of its threads: the tasks nobody has taken, and
\* the activations about to be queued.
Untaken(n) == Cardinality(Waiting(n)) + Cardinality(Telling(n))

LEMMA FlyingIs ==
    FlyingExact <=> \A n \in Nodes : todo[n] = Untaken(n) + Flying(n)
BY DEF FlyingExact, Waiting, Untaken

LEMMA WaitingFinite ==
    ASSUME NEW n
    PROVE  IsFiniteSet(Waiting(n)) /\ Cardinality(Waiting(n)) \in Nat
<1>1. Waiting(n) \in SUBSET Tasks
  BY DEF Waiting
<1>2. IsFiniteSet(Waiting(n))
  BY <1>1, SetsFinite, FS_Subset
<1> QED BY <1>2, FS_CardinalityType

LEMMA TellingFinite ==
    ASSUME NEW n
    PROVE  IsFiniteSet(Telling(n)) /\ Cardinality(Telling(n)) \in Nat
<1>1. IsFiniteSet(0..(NbThreads - 1))
  BY FS_Interval, SizeAssumption
<1>2. IsFiniteSet(Threads)
  BY <1>1, SetsFinite, FS_Product DEF Threads
<1>3. Telling(n) \in SUBSET Threads
  BY DEF Telling
<1>4. IsFiniteSet(Telling(n))
  BY <1>2, <1>3, FS_Subset
<1> QED BY <1>4, FS_CardinalityType

LEMMA UntakenType ==
    ASSUME NEW n
    PROVE  /\ Cardinality(Waiting(n)) \in Nat /\ Cardinality(Telling(n)) \in Nat
           /\ Untaken(n) = Cardinality(Waiting(n)) + Cardinality(Telling(n)) /\ Untaken(n) \in Nat
<1>1. Cardinality(Waiting(n)) \in Nat /\ Cardinality(Telling(n)) \in Nat
  BY WaitingFinite, TellingFinite
<1> QED BY <1>1 DEF Untaken

\* Threads that neither are about to queue an activation nor stop being so.
LEMMA TellingKept ==
    ASSUME \A v \in Threads : thread'[v].at = "send" <=> thread[v].at = "send"
    PROVE  \A n : Telling(n)' = Telling(n)
BY DEF Telling

LEMMA TellingSame ==
    ASSUME ThreadType, NEW w \in Threads, NEW s \in ThreadState, thread' = [thread EXCEPT ![w] = s],
           s.at = "send" <=> thread[w].at = "send"
    PROVE  \A n : Telling(n)' = Telling(n)
<1>1. thread'[w] = s /\ \A v \in Threads : v # w => thread'[v] = thread[v]
  BY ThreadChange
<1> QED BY <1>1, TellingKept

LEMMA UntakenKept ==
    ASSUME UNCHANGED status, \A n : Telling(n)' = Telling(n)
    PROVE  \A n : Untaken(n)' = Untaken(n)
<1>1. \A n : Waiting(n)' = Waiting(n)
  BY DEF Waiting
<1> QED BY <1>1 DEF Untaken

\* The four places of an activation the count of its node includes.
ActsFrom(n) == {m \in net : m.type = "activate" /\ m.from = n}
GetsTo(n) == {m \in net : m.type = "get" /\ m.to = n}
BusySlots(n) == {i \in Slots : get[n][i].state = "busy"}

LEMMA FlyingParts ==
    ASSUME CommType, IsFiniteSet(net), NEW n \in Nodes
    PROVE  /\ Flying(n) = Cardinality(Activations(cmds[n])) + Cardinality(ActsFrom(n))
                           + Cardinality(GetsTo(n)) + Cardinality(BusySlots(n))
           /\ IsFiniteSet(Activations(cmds[n])) /\ Cardinality(Activations(cmds[n])) \in Nat
           /\ IsFiniteSet(ActsFrom(n)) /\ Cardinality(ActsFrom(n)) \in Nat
           /\ IsFiniteSet(GetsTo(n)) /\ Cardinality(GetsTo(n)) \in Nat
           /\ IsFiniteSet(BusySlots(n)) /\ Cardinality(BusySlots(n)) \in Nat
           /\ Flying(n) \in Nat
<1>1. Activations(cmds[n]) \in SUBSET (1..Len(cmds[n])) /\ Len(cmds[n]) \in Nat
  BY DEF Activations, CommType
<1>2. IsFiniteSet(1..Len(cmds[n]))
  BY <1>1, FS_Interval
<1>3. IsFiniteSet(Activations(cmds[n]))
  BY <1>1, <1>2, FS_Subset
<1>4. ActsFrom(n) \in SUBSET net /\ GetsTo(n) \in SUBSET net /\ BusySlots(n) \in SUBSET Slots
  BY DEF ActsFrom, GetsTo, BusySlots
<1>5. IsFiniteSet(ActsFrom(n))
  BY <1>4, FS_Subset
<1>6. IsFiniteSet(GetsTo(n))
  BY <1>4, FS_Subset
<1>7. IsFiniteSet(BusySlots(n))
  BY <1>4, SetsFinite, FS_Subset
<1>8. /\ Cardinality(Activations(cmds[n])) \in Nat /\ Cardinality(ActsFrom(n)) \in Nat
      /\ Cardinality(GetsTo(n)) \in Nat /\ Cardinality(BusySlots(n)) \in Nat
  BY <1>3, <1>5, <1>6, <1>7, FS_CardinalityType
<1>9. Flying(n) = Cardinality(Activations(cmds[n])) + Cardinality(ActsFrom(n))
                   + Cardinality(GetsTo(n)) + Cardinality(BusySlots(n))
  BY DEF Flying, Activations, ActsFrom, GetsTo, BusySlots
<1>10. Flying(n) \in Nat
  BY <1>8, <1>9
<1> QED BY <1>3, <1>5, <1>6, <1>7, <1>8, <1>9, <1>10

LEMMA FlyingSame ==
    ASSUME UNCHANGED <<cmds, get, net>>, NEW n
    PROVE  Flying(n)' = Flying(n)
BY DEF Flying

LEMMA FlyingKept ==
    ASSUME FlyingExact, UNCHANGED <<cmds, get, net, todo, status>>, \A n : Telling(n)' = Telling(n)
    PROVE  FlyingExact'
<1>1. \A n : Untaken(n)' = Untaken(n) /\ Flying(n)' = Flying(n)
  BY UntakenKept DEF Flying
<1>2. \A n \in Nodes : todo'[n] = Untaken(n)' + Flying(n)'
  BY <1>1, FlyingIs
<1> QED BY <1>2 DEF FlyingExact, Waiting, Untaken

-----------------------------------------------------------------------------
(* The threads that run tasks.                                             *)

LEMMA RunStep ==
    ASSUME TransferInv, NEW w \in Threads, Run(w)
    PROVE  TransferInv'
<1> USE DEF TransferInv, LocalInv
<1> PICK t \in Tasks :
        /\ Rank[t] = w[1] /\ status[t] = "waiting" /\ AllReleased(t)
        /\ status' = [status EXCEPT ![t] = "running"]
        /\ thread' = [thread EXCEPT ![w].at = "release", ![w].task = t]
  BY DEF Run
<1>1. /\ thread[w].at = "loop" /\ todo' = [todo EXCEPT ![w[1]] = @ - 1]
      /\ UNCHANGED <<released, freed, desc, freelist, cmds, enabled, act, get, nexttag, net>>
  BY DEF Run, descVars, commVars
<1>2. w[1] \in Nodes
  BY DEF Threads
<1> DEFINE s == [thread[w] EXCEPT !.at = "release", !.task = t]
<1>3. thread[w] \in ThreadState /\ "release" \in Places /\ t \in TaskOrNone
  BY DEF ThreadType, Places, TaskOrNone
<1>4. s \in ThreadState /\ s.at = "release" /\ s.task = t
  BY <1>3 DEF ThreadState
<1>5. thread' = [thread EXCEPT ![w] = s]
  OBVIOUS
<1> HIDE DEF s
<1>6. thread'[w] = s /\ \A v \in Threads : v # w => thread'[v] = thread[v]
  BY <1>4, <1>5 DEF ThreadType
<1>7. /\ status'[t] = "running" /\ \A u \in Tasks : u # t => status'[u] = status[u]
      /\ TaskType'
  BY <1>1, <1>2 DEF TaskType
<1>8. ThreadType'
  BY <1>4, <1>5, ThreadChange
<1>9. ThreadInv'
  <2>1. ThreadOf(w)'
    BY <1>4, <1>6, <1>7 DEF ThreadOf
  <2>2. \A v \in Threads : thread[v].task # t
    <3> SUFFICES ASSUME NEW v \in Threads, thread[v].task = t PROVE FALSE
      OBVIOUS
    <3>1. ThreadOf(v) /\ t # NoTask
      BY RemoteGraphAssumption DEF ThreadInv
    <3>2. thread[v].at \in Places
      BY DEF ThreadType, ThreadState
    <3> QED BY <3>1, <3>2 DEF ThreadOf, Places
  <2>3. ASSUME NEW v \in Threads, v # w, thread[v].at = "release"
        PROVE  status'[thread[v].task] = "running"
    <3>1. status[thread[v].task] = "running" /\ thread[v].task \in Tasks
      BY <2>3 DEF ThreadInv, ThreadOf
    <3> QED BY <1>7, <2>2, <3>1
  <2> QED BY <1>4, <1>5, <1>7, <2>1, <2>2, <2>3, ThreadKept
<1>10. LoopInv'
  <2>1. LoopOf(w)'
    BY <1>4, <1>6 DEF LoopOf, InLoop
  <2> QED BY <1>1, <1>4, <1>5, <2>1, LoopKept
<1>11. InputsInv'
  <2> SUFFICES ASSUME NEW u \in Tasks, status'[u] # "waiting", NEW d \in Inputs(u)
               PROVE  released[Rank[u]][d] # <<>>
    BY <1>1 DEF InputsInv
  <2>1. CASE u = t
    BY <2>1 DEF AllReleased
  <2>2. CASE u # t
    BY <1>7, <2>2 DEF InputsInv
  <2> QED BY <2>1, <2>2
<1>12. RunningInv'
  <2> SUFFICES ASSUME NEW u \in Tasks, status'[u] = "running"
               PROVE  \E v \in Threads : thread'[v].task = u /\ thread'[v].at = "release"
    BY DEF RunningInv
  <2>1. CASE u = t
    BY <1>4, <1>6, <2>1
  <2>2. CASE u # t
    <3>1. PICK v \in Threads : thread[v].task = u /\ thread[v].at = "release"
      BY <1>7, <2>2 DEF RunningInv
    <3> QED BY <1>1, <1>6, <3>1
  <2> QED BY <2>1, <2>2
<1>13. OnOffInv' /\ ThreadsTogether' /\ LeftInv'
  <2>1. \A n \in Nodes : n # w[1] => todo'[n] = todo[n] /\ cmds'[n] = cmds[n]
    BY <1>1, <1>2 DEF TaskType
  <2> QED BY <1>1, <1>4, <1>5, <2>1, RoundKept
<1>14. FlyingExact'
  <2>1. \A n \in Nodes : Flying(n)' = Flying(n)
    BY <1>1, FlyingSame
  <2>2. Waiting(w[1])' = Waiting(w[1]) \ {t} /\ t \in Waiting(w[1])
    BY <1>7 DEF Waiting
  <2>3. Cardinality(Waiting(w[1])') = Cardinality(Waiting(w[1])) - 1
    <3>1. IsFiniteSet(Waiting(w[1]))
      BY WaitingFinite
    <3>2. Cardinality(Waiting(w[1]) \ {t}) = Cardinality(Waiting(w[1])) - 1
      BY <2>2, <3>1, FS_RemoveElement
    <3> QED BY <2>2, <3>2
  <2>4. \A n \in Nodes : n # w[1] => Waiting(n)' = Waiting(n)
    BY <1>7 DEF Waiting
  <2>5. Flying(w[1]) \in Nat
    BY <1>2, FlyingParts DEF CommInv
  <2>6. todo'[w[1]] = todo[w[1]] - 1 /\ \A n \in Nodes : n # w[1] => todo'[n] = todo[n]
    BY <1>1, <1>2 DEF TaskType
  <2>7. \A n : Telling(n)' = Telling(n)
    BY <1>1, <1>4, <1>5, TellingSame
  <2>8. ASSUME NEW n \in Nodes PROVE todo'[n] = Untaken(n)' + Flying(n)'
    <3>1. todo[n] = Untaken(n) + Flying(n)
      BY FlyingIs
    <3>2. CASE n = w[1]
      <4>1. PICK a, b, f \in Nat : /\ a = Cardinality(Waiting(n)) /\ b = Cardinality(Telling(n))
                                   /\ f = Flying(n)
        BY <2>5, <3>2, UntakenType
      <4>2. Untaken(n) = a + b /\ Untaken(n)' = (a - 1) + b
        BY <2>3, <2>7, <3>2, <4>1 DEF Untaken
      <4> QED BY <2>1, <2>6, <3>1, <3>2, <4>1, <4>2
    <3>3. CASE n # w[1]
      <4>1. Untaken(n)' = Untaken(n)
        BY <2>4, <2>7, <3>3 DEF Untaken
      <4> QED BY <2>1, <2>6, <3>1, <3>3, <4>1
    <3> QED BY <3>2, <3>3
  <2> QED BY <2>8 DEF FlyingExact, Waiting, Untaken
<1>15. CommInv'
  BY <1>1, <1>7, CommKept
<1> QED BY <1>7, <1>8, <1>9, <1>10, <1>11, <1>12, <1>13, <1>14, <1>15

\* A step that only moves its thread on.
LEMMA QuietStep ==
    ASSUME TransferInv, NEW w \in Threads, NEW s \in ThreadState, thread' = [thread EXCEPT ![w] = s],
           UNCHANGED <<todo, status, released, desc, freelist, cmds, enabled, act, get, nexttag, net>>,
           freed' \subseteq Received,
           thread[w].at \notin {"start", "release", "send", "left", "ended"},
           s.at \notin {"start", "send", "ended"}, s.at = "left" => todo[w[1]] = 0,
           s.task = thread[w].task \/ s.task = NoTask,
           ThreadOf(w)', LoopOf(w)'
    PROVE  TransferInv'
<1> USE DEF TransferInv, LocalInv
<1>1. thread'[w] = s /\ (\A v \in Threads : v # w => thread'[v] = thread[v]) /\ ThreadType'
  BY ThreadChange
<1>2. TaskType'
  BY DEF TaskType
<1>3. ThreadInv'
  <2>1. \A v \in Threads : v # w /\ s.task # NoTask => thread[v].task # s.task
    BY DEF ThreadInv
  <2>2. \A v \in Threads : v # w /\ thread[v].at = "release" => status'[thread[v].task] = "running"
    BY DEF ThreadInv, ThreadOf
  <2> QED BY <2>1, <2>2, ThreadKept
<1>4. LoopInv'
  BY LoopKept
<1>5. InputsInv'
  BY InputsKept
<1>6. RunningInv'
  <2> SUFFICES ASSUME NEW u \in Tasks, status[u] = "running"
               PROVE  \E v \in Threads : thread'[v].task = u /\ thread'[v].at = "release"
    BY DEF RunningInv
  <2>1. PICK v \in Threads : thread[v].task = u /\ thread[v].at = "release"
    BY DEF RunningInv
  <2> QED BY <1>1, <2>1
<1>7. OnOffInv' /\ ThreadsTogether' /\ LeftInv'
  BY RoundKept
<1>8. FlyingExact'
  <2>1. \A n : Telling(n)' = Telling(n)
    BY TellingSame
  <2> QED BY <2>1, FlyingKept
<1>9. CommInv'
  BY CommKept
<1> QED BY <1>1, <1>2, <1>3, <1>4, <1>5, <1>6, <1>7, <1>8, <1>9

LEMMA LeaveStep ==
    ASSUME TransferInv, NEW w \in Threads, Leave(w)
    PROVE  TransferInv'
<1> DEFINE s == [thread[w] EXCEPT !.at = "left"]
<1>1. /\ thread[w].at = "loop" /\ todo[w[1]] = 0 /\ thread' = [thread EXCEPT ![w] = s]
      /\ UNCHANGED <<todo, status, released, freed, desc, freelist, cmds, enabled, act, get, nexttag, net>>
  BY DEF Leave, Goto, taskVars, descVars, commVars
<1>2. thread[w] \in ThreadState /\ ThreadOf(w) /\ freed \subseteq Received
  BY DEF TransferInv, LocalInv, ThreadType, ThreadInv, TaskType
<1>3. s \in ThreadState /\ s.at = "left" /\ s.task = thread[w].task
  BY <1>2 DEF ThreadState, Places
<1> HIDE DEF s
<1>4. thread'[w] = s
  BY <1>1, <1>3, ThreadChange DEF TransferInv, LocalInv
<1>5. ThreadOf(w)' /\ LoopOf(w)'
  BY <1>1, <1>2, <1>3, <1>4 DEF ThreadOf, LoopOf, InLoop
<1> QED BY <1>1, <1>2, <1>3, <1>5, QuietStep

LEMMA DropStep ==
    ASSUME TransferInv, NEW w \in Threads, Drop(w)
    PROVE  TransferInv'
<1> DEFINE s == [Idle EXCEPT !.at = "loop"]
<1>1. /\ thread[w].at = "drop" /\ thread' = [thread EXCEPT ![w] = s]
      /\ UNCHANGED <<todo, status, released, desc, freelist, cmds, enabled, act, get, nexttag, net>>
  BY DEF Drop, descVars, commVars
<1>2. freed' \subseteq Received
  BY DEF Drop, Unref, TransferInv, LocalInv, TaskType
<1>3. 0 \in Outputs
  BY SizeAssumption DEF Outputs
<1>4. s \in ThreadState /\ s.at = "loop" /\ s.task = NoTask
  BY <1>3 DEF Idle, ThreadState, Places, TaskOrNone
<1> HIDE DEF s
<1>5. thread'[w] = s
  BY <1>1, <1>4, ThreadChange DEF TransferInv, LocalInv
<1>6. ThreadOf(w)' /\ LoopOf(w)'
  BY <1>4, <1>5 DEF ThreadOf, LoopOf, InLoop
<1> QED BY <1>1, <1>2, <1>4, <1>6, QuietStep

\* The output after the one the loop has finished: the same pairs are left.
LEMMA CountedStep ==
    ASSUME TransferInv, NEW w \in Threads, Counted(w)
    PROVE  TransferInv' /\ (InLoop(w)' => Unmet(w)' = Unmet(w))
<1> DEFINE here == thread[w]
           d == here.deps
           output == desc[d].output
           t == here.task
<1>1. /\ here.at = "counted"
      /\ UNCHANGED <<todo, status, released, freed, desc, freelist, cmds, enabled, act, get, nexttag, net>>
  BY DEF Counted, taskVars, descVars, commVars
<1>2. /\ here \in ThreadState /\ ThreadOf(w) /\ LoopOf(w) /\ freed \subseteq Received
      /\ ThreadType /\ DescType /\ LiveInv
  BY DEF TransferInv, LocalInv, ThreadType, ThreadInv, LoopInv, TaskType, CommInv
<1>3. /\ d \in Tasks /\ Rank[d] = w[1] /\ here.left = Cardinality(Unmet(w)) /\ here.mask = {}
      /\ (here.left # 0 => OwnDesc(w)) /\ t \in Tasks /\ Rank[t] = w[1] /\ status[t] = "done"
  BY <1>1, <1>2 DEF LoopOf, InLoop, ThreadOf
<1>4. output \in [Outputs -> SUBSET Nodes] /\ here.out + 1 \in Nat /\ here.out \in Outputs
  <2>1. output \in [Outputs -> SUBSET Nodes]
    BY <1>2, <1>3 DEF DescType, Descriptor
  <2>2. here.out \in Outputs
    BY <1>2 DEF ThreadState
  <2>3. here.out \in Nat
    BY <2>2, SetsFinite
  <2> QED BY <2>1, <2>2, <2>3
<1>5. CASE here.count < Cardinality(output[here.out])
  <2> DEFINE s == [here EXCEPT !.at = "overrun"]
  <2>1. thread' = [thread EXCEPT ![w] = s]
    BY <1>5 DEF Counted
  <2>2. s \in ThreadState /\ s.at = "overrun" /\ s.task = t
    BY <1>2 DEF ThreadState, Places
  <2> HIDE DEF s
  <2>3. thread'[w] = s
    BY <1>2, <2>1, <2>2, ThreadChange
  <2>4. ThreadOf(w)' /\ LoopOf(w)'
    BY <1>1, <1>3, <2>2, <2>3 DEF ThreadOf, LoopOf, InLoop
  <2>5. ~ InLoop(w)'
    BY <2>2, <2>3 DEF InLoop
  <2> QED BY <1>1, <1>2, <2>1, <2>2, <2>4, <2>5, QuietStep
<1>6. CASE ~ (here.count < Cardinality(output[here.out]))
  <2> DEFINE s == LookAt(here, output, here.out + 1)
  <2>1. thread' = [thread EXCEPT ![w] = s]
    BY <1>6 DEF Counted
  <2>2. /\ s \in ThreadState
        /\ s.task = here.task /\ s.deps = here.deps /\ s.left = here.left
        /\ \/ here.left = 0 /\ s.at = "drop"
           \/ here.left # 0 /\ s.at = "overrun"
           \/ /\ here.left # 0 /\ s.at = "rank"
              /\ s.out >= here.out + 1 /\ s.mask = output[s.out] /\ s.mask # {}
              /\ \A k \in Outputs : k >= here.out + 1 /\ output[k] # {} => s.out <= k
    BY <1>2, <1>4, LookAtEffect
  <2> HIDE DEF s
  <2>3. thread'[w] = s
    BY <1>2, <2>1, <2>2, ThreadChange
  <2>4. ThreadOf(w)'
    BY <1>1, <1>3, <2>2, <2>3 DEF ThreadOf
  <2>5. CASE s.at # "rank"
    <3>1. LoopOf(w)' /\ ~ InLoop(w)'
      BY <2>2, <2>3, <2>5 DEF LoopOf, InLoop
    <3> QED BY <1>1, <1>2, <2>1, <2>2, <2>4, <3>1, QuietStep
  <2>6. CASE s.at = "rank"
    <3>1. OwnDesc(w) /\ here.left # 0
      BY <1>3, <2>2, <2>6
    <3>2. Live(d)
      BY <1>3, <3>1 DEF Live, OwnDesc
    <3>3. output = RankBits(t, Outputs)
      BY <1>3, <3>1, <3>2, <1>2 DEF LiveInv, OwnDesc
    <3>4. \A k \in Outputs : output[k] = RanksOf(t, k)
      BY <3>3 DEF RankBits
    <3>5. Unmet(w)' = Unmet(w)
      <4>1. ASSUME NEW p \in Pairs(t)
            PROVE  (p[1] > s.out \/ (p[1] = s.out /\ p[2] \in s.mask))
                    <=> (p[1] > here.out \/ (p[1] = here.out /\ p[2] \in here.mask))
        <5>1. p[1] \in Outputs /\ p[1] \in Nat /\ s.out \in Nat /\ here.out \in Nat
              /\ p[2] \in output[p[1]]
          BY <1>2, <1>4, <2>2, <3>4, SetsFinite DEF Pairs, ThreadState
        <5> PICK a, b, o, h : a = p[1] /\ b = p[2] /\ o = s.out /\ h = here.out
          OBVIOUS
        <5>4. a \in Outputs /\ a \in Nat /\ o \in Nat /\ h \in Nat /\ b \in output[a]
          BY <5>1
        <5>5. o >= h + 1 /\ s.mask = output[o] /\ (a >= h + 1 => o <= a)
          BY <2>2, <2>6, <5>4
        <5>2. CASE a > h
          <6>1. a >= h + 1 /\ o <= a
            BY <5>4, <5>5, <5>2
          <6>2. a = o => b \in s.mask
            BY <5>4, <5>5
          <6>3. a > o \/ (a = o /\ b \in s.mask)
            BY <5>4, <6>1, <6>2
          <6>4. p[1] > s.out \/ (p[1] = s.out /\ p[2] \in s.mask)
            BY <6>3
          <6>5. p[1] > here.out
            BY <5>2
          <6> QED BY <6>4, <6>5
        <5>3. CASE ~ (a > h)
          <6>1. ~ (a > o) /\ a # o
            BY <5>3, <5>4, <5>5
          <6>2. ~ (p[1] > here.out) /\ p[2] \notin here.mask
            BY <1>3, <5>3
          <6>3. ~ (p[1] > s.out) /\ p[1] # s.out
            BY <6>1
          <6> QED BY <6>2, <6>3
        <5> QED BY <5>2, <5>3
      <4> QED BY <2>2, <2>3, <4>1 DEF Unmet
    <3>6. InLoop(w)' /\ OwnDesc(w)'
      BY <1>1, <2>2, <2>3, <2>6, <3>1 DEF InLoop, OwnDesc
    <3>7. s.mask \subseteq RanksOf(t, s.out)
      BY <2>2, <2>6, <3>4 DEF ThreadState
    <3>8. LoopOf(w)'
      BY <1>1, <1>2, <1>3, <2>2, <2>3, <2>6, <3>1, <3>5, <3>6, <3>7 DEF LoopOf, InLoop, OwnDesc
    <3> QED BY <1>1, <1>2, <2>1, <2>2, <2>4, <3>5, <3>8, QuietStep
  <2> QED BY <2>5, <2>6
<1> QED BY <1>5, <1>6

-----------------------------------------------------------------------------
(* The command queue.                                                      *)

TheActivation(r, d) == [action |-> "activate", rank |-> r, deps |-> d]

LEMMA ActivationType ==
    ASSUME NEW c \in Command
    PROVE  /\ c.action \in {"on", "off", "activate"}
           /\ c.action = "activate" =>
                 c.rank \in Nodes /\ c.deps \in Tasks /\ c = TheActivation(c.rank, c.deps)
           /\ \A r, d : c = TheActivation(r, d) => c.action = "activate" /\ c.rank = r /\ c.deps = d
<1>1. CASE c \in [action : {"on", "off"}]
  BY <1>1 DEF TheActivation
<1>2. CASE c \in [action : {"activate"}, rank : Nodes, deps : Tasks]
  BY <1>2 DEF TheActivation
<1> QED BY <1>1, <1>2 DEF Command

LEMMA QueuedIs ==
    ASSUME NEW d, NEW r
    PROVE  Queued(d, r) <=> \E i \in DOMAIN cmds[Rank[d]] : cmds[Rank[d]][i] = TheActivation(r, d)
BY DEF Queued, TheActivation

\* A command more.
\* What appending command c to the queue of node n changes.
Appended(n, c) ==
    /\ cmds' \in [Nodes -> Seq(Command)]
    /\ \A m \in Nodes : m # n => cmds'[m] = cmds[m]
    /\ Len(cmds[n]) \in Nat /\ DOMAIN cmds[n] = 1..Len(cmds[n])
    /\ DOMAIN cmds'[n] = 1..(Len(cmds[n]) + 1)
    /\ \A i \in DOMAIN cmds[n] : cmds'[n][i] = cmds[n][i]
    /\ cmds'[n][Len(cmds[n]) + 1] = c
    /\ \A d \in Tasks, r \in Nodes :
          Queued(d, r)' <=> Queued(d, r) \/ (Rank[d] = n /\ c = TheActivation(r, d))
    /\ \A m \in Nodes : m # n => Activations(cmds[m])' = Activations(cmds[m])
    /\ c.action # "activate" => Activations(cmds[n])' = Activations(cmds[n])
    /\ c.action = "activate" =>
          Activations(cmds[n])' = Activations(cmds[n]) \cup {Len(cmds[n]) + 1}
          /\ Len(cmds[n]) + 1 \notin Activations(cmds[n])

LEMMA AppendCommand ==
    ASSUME CommType, NEW n \in Nodes, NEW c \in Command, cmds' = [cmds EXCEPT ![n] = Append(@, c)]
    PROVE  Appended(n, c)
<1>1. cmds[n] \in Seq(Command) /\ cmds'[n] = Append(cmds[n], c)
  BY DEF CommType
<1>2. /\ cmds' \in [Nodes -> Seq(Command)]
      /\ \A m \in Nodes : m # n => cmds'[m] = cmds[m]
  BY DEF CommType
<1>3. /\ Len(cmds[n]) \in Nat /\ DOMAIN cmds[n] = 1..Len(cmds[n])
      /\ DOMAIN cmds'[n] = 1..(Len(cmds[n]) + 1)
      /\ \A i \in DOMAIN cmds[n] : cmds'[n][i] = cmds[n][i]
      /\ cmds'[n][Len(cmds[n]) + 1] = c
  BY <1>1
<1>4. ASSUME NEW d \in Tasks, NEW r \in Nodes
      PROVE  Queued(d, r)' <=> Queued(d, r) \/ (Rank[d] = n /\ c = TheActivation(r, d))
  <2>1. Rank[d] \in Nodes
    BY RemoteGraphAssumption
  <2>2. CASE Rank[d] = n
    <3>1. Queued(d, r)' <=> \E i \in DOMAIN cmds'[n] : cmds'[n][i] = TheActivation(r, d)
      BY <2>2 DEF Queued, TheActivation
    <3>2. Queued(d, r) <=> \E i \in DOMAIN cmds[n] : cmds[n][i] = TheActivation(r, d)
      BY <2>2, QueuedIs
    <3> QED BY <1>3, <2>2, <3>1, <3>2
  <2>3. CASE Rank[d] # n
    <3>1. cmds'[Rank[d]] = cmds[Rank[d]]
      BY <1>2, <2>1, <2>3
    <3> QED BY <2>3, <3>1 DEF Queued
  <2> QED BY <2>2, <2>3
<1>5. \A m \in Nodes : m # n => Activations(cmds[m])' = Activations(cmds[m])
  BY <1>2 DEF Activations
<1>6. Activations(cmds[n])' = {i \in DOMAIN cmds'[n] : cmds'[n][i].action = "activate"}
  BY DEF Activations
<1>7. c.action # "activate" => Activations(cmds[n])' = Activations(cmds[n])
  BY <1>3, <1>6 DEF Activations
<1>8. c.action = "activate" => Activations(cmds[n])' = Activations(cmds[n]) \cup {Len(cmds[n]) + 1}
  BY <1>3, <1>6 DEF Activations
<1>9. Len(cmds[n]) + 1 \notin Activations(cmds[n])
  BY <1>3 DEF Activations
<1> QED BY <1>2, <1>3, <1>4, <1>5, <1>7, <1>8, <1>9 DEF Appended

LEMMA TailActivations ==
    ASSUME NEW s \in Seq(Command), s # <<>>, NEW q, q = Tail(s)
    PROVE  /\ IsFiniteSet(Activations(s)) /\ IsFiniteSet(Activations(q))
           /\ Cardinality(Activations(q)) =
                 IF Head(s).action = "activate" THEN Cardinality(Activations(s)) - 1
                 ELSE Cardinality(Activations(s))
<1> DEFINE A == Activations(s)
           B == Activations(q)
           f == [i \in B |-> i + 1]
<1>1. /\ q \in Seq(Command) /\ Len(s) \in Nat \ {0} /\ Len(q) = Len(s) - 1
      /\ DOMAIN s = 1..Len(s) /\ DOMAIN q = 1..(Len(s) - 1)
      /\ \A i \in DOMAIN q : q[i] = s[i + 1]
      /\ Head(s) = s[1]
  OBVIOUS
<1>2. A \in SUBSET (1..Len(s)) /\ B \in SUBSET (1..(Len(s) - 1))
  BY <1>1 DEF Activations
<1>3. IsFiniteSet(1..Len(s)) /\ IsFiniteSet(1..(Len(s) - 1))
  BY <1>1, FS_Interval
<1>4. IsFiniteSet(A)
  BY <1>2, <1>3, FS_Subset
<1>5. IsFiniteSet(B)
  BY <1>2, <1>3, FS_Subset
<1>6. f \in [B -> A \ {1}]
  BY <1>1 DEF Activations
<1>7. \A i, j \in B : f[i] = f[j] => i = j
  BY <1>2
<1>8. \A i \in A \ {1} : \E j \in B : f[j] = i
  <2> SUFFICES ASSUME NEW i \in A \ {1} PROVE \E j \in B : f[j] = i
    OBVIOUS
  <2>1. i - 1 \in B
    BY <1>1 DEF Activations
  <2>2. f[i - 1] = i
    BY <1>1, <1>2, <2>1
  <2> QED BY <2>1, <2>2
<1>9. ExistsBijection(B, A \ {1})
  BY <1>6, <1>7, <1>8 DEF ExistsBijection, Bijection, Injection, Surjection, IsInjective
<1>10. Cardinality(A \ {1}) = Cardinality(B)
  BY <1>5, <1>9, FS_Bijection
<1>11. 1 \in A <=> Head(s).action = "activate"
  BY <1>1 DEF Activations
<1>12. Cardinality(A \ {1}) = IF 1 \in A THEN Cardinality(A) - 1 ELSE Cardinality(A)
  BY <1>4, FS_RemoveElement
<1> QED BY <1>4, <1>5, <1>10, <1>11, <1>12

\* A command less.
LEMMA TailCommand ==
    ASSUME CommType, CommandInv, NEW n \in Nodes, cmds[n] # <<>>, cmds' = [cmds EXCEPT ![n] = Tail(@)]
    PROVE  /\ cmds' \in [Nodes -> Seq(Command)]
           /\ \A m \in Nodes : m # n => cmds'[m] = cmds[m]
           /\ \A i \in DOMAIN cmds'[n] : i + 1 \in DOMAIN cmds[n] /\ cmds'[n][i] = cmds[n][i + 1] /\ i \in Nat \ {0}
           /\ 1 \in DOMAIN cmds[n] /\ Head(cmds[n]) = cmds[n][1] /\ Head(cmds[n]) \in Command
           /\ \A d \in Tasks, r \in Nodes :
                 Queued(d, r)' <=> Queued(d, r) /\ ~ (Rank[d] = n /\ Head(cmds[n]) = TheActivation(r, d))
           /\ \A m \in Nodes : m # n => Activations(cmds[m])' = Activations(cmds[m])
           /\ Cardinality(Activations(cmds[n]))' =
                 IF Head(cmds[n]).action = "activate" THEN Cardinality(Activations(cmds[n])) - 1
                 ELSE Cardinality(Activations(cmds[n]))
<1>1. cmds[n] \in Seq(Command) /\ cmds'[n] = Tail(cmds[n])
  BY DEF CommType
<1>2. /\ cmds' \in [Nodes -> Seq(Command)]
      /\ \A m \in Nodes : m # n => cmds'[m] = cmds[m]
  BY <1>1 DEF CommType
<1>3. /\ Len(cmds[n]) \in Nat \ {0} /\ DOMAIN cmds[n] = 1..Len(cmds[n])
      /\ DOMAIN cmds'[n] = 1..(Len(cmds[n]) - 1)
      /\ \A i \in DOMAIN cmds'[n] : cmds'[n][i] = cmds[n][i + 1]
      /\ Head(cmds[n]) = cmds[n][1] /\ Head(cmds[n]) \in Command
  <2>1. ASSUME NEW s \in Seq(Command), s # <<>>, NEW q, q = Tail(s)
        PROVE  /\ Len(s) \in Nat \ {0} /\ DOMAIN s = 1..Len(s) /\ DOMAIN q = 1..(Len(s) - 1)
               /\ \A i \in DOMAIN q : q[i] = s[i + 1]
               /\ Head(s) = s[1] /\ s[1] \in Command
    BY <2>1
  <2> QED BY <1>1, <2>1
<1>4. ASSUME NEW d \in Tasks, NEW r \in Nodes
      PROVE  Queued(d, r)' <=> Queued(d, r) /\ ~ (Rank[d] = n /\ Head(cmds[n]) = TheActivation(r, d))
  <2>1. Rank[d] \in Nodes
    BY RemoteGraphAssumption
  <2>2. CASE Rank[d] = n
    <3>1. Queued(d, r)' <=> \E i \in DOMAIN cmds'[n] : cmds'[n][i] = TheActivation(r, d)
      BY <2>2 DEF Queued, TheActivation
    <3>2. Queued(d, r) <=> \E i \in DOMAIN cmds[n] : cmds[n][i] = TheActivation(r, d)
      BY <2>2, QueuedIs
    <3>3. ASSUME NEW i \in DOMAIN cmds'[n], cmds'[n][i] = TheActivation(r, d)
          PROVE  Queued(d, r) /\ Head(cmds[n]) # TheActivation(r, d)
      <4>1. i + 1 \in DOMAIN cmds[n] /\ cmds[n][i + 1] = TheActivation(r, d) /\ i + 1 # 1
            /\ 1 \in DOMAIN cmds[n]
        BY <1>3, <3>3
      <4>2. cmds[n][i + 1].action = "activate"
        BY <4>1 DEF TheActivation
      <4>3. cmds[n][i + 1] # cmds[n][1]
        BY <4>1, <4>2 DEF CommandInv
      <4> QED BY <1>3, <3>2, <4>1, <4>3
    <3>4. ASSUME NEW i \in DOMAIN cmds[n], cmds[n][i] = TheActivation(r, d), Head(cmds[n]) # TheActivation(r, d)
          PROVE  Queued(d, r)'
      <4>1. i # 1
        BY <1>3, <3>4
      <4>2. i - 1 \in DOMAIN cmds'[n] /\ cmds'[n][i - 1] = cmds[n][i]
        BY <1>3, <4>1
      <4> QED BY <3>1, <3>4, <4>2
    <3> QED BY <2>2, <3>1, <3>2, <3>3, <3>4
  <2>3. CASE Rank[d] # n
    <3>1. cmds'[Rank[d]] = cmds[Rank[d]]
      BY <1>2, <2>1, <2>3
    <3> QED BY <2>3, <3>1 DEF Queued
  <2> QED BY <2>2, <2>3
<1>5. \A m \in Nodes : m # n => Activations(cmds[m])' = Activations(cmds[m])
  BY <1>2 DEF Activations
<1>6. Activations(cmds[n])' = Activations(cmds'[n])
  BY DEF Activations
<1>7. Cardinality(Activations(cmds'[n])) =
         IF Head(cmds[n]).action = "activate" THEN Cardinality(Activations(cmds[n])) - 1
         ELSE Cardinality(Activations(cmds[n]))
  BY <1>1, TailActivations
<1>8. \A i \in DOMAIN cmds'[n] : i + 1 \in DOMAIN cmds[n] /\ cmds'[n][i] = cmds[n][i + 1] /\ i \in Nat \ {0}
  BY <1>3
<1>9. 1 \in DOMAIN cmds[n]
  BY <1>3
<1> QED BY <1>2, <1>3, <1>4, <1>5, <1>6, <1>7, <1>8, <1>9

LEMMA CommandTail ==
    ASSUME CommType, CommandInv, NEW n \in Nodes, cmds[n] # <<>>, cmds' = [cmds EXCEPT ![n] = Tail(@)],
           UNCHANGED desc
    PROVE  CommandInv'
<1> PICK q : q = cmds'
  OBVIOUS
<1>1. /\ \A m \in Nodes : m # n => q[m] = cmds[m]
      /\ \A i \in DOMAIN q[n] : i + 1 \in DOMAIN cmds[n] /\ q[n][i] = cmds[n][i + 1] /\ i \in Nat \ {0}
  BY TailCommand
<1>2. \A d : Live(d)' <=> Live(d)
  BY DEF Live
<1>3. ASSUME NEW m \in Nodes, NEW i \in DOMAIN q[m], q[m][i].action = "activate"
      PROVE  /\ Rank[q[m][i].deps] = m /\ Live(q[m][i].deps)
             /\ q[m][i].rank \in desc[q[m][i].deps].forwarded
             /\ \A j \in DOMAIN q[m] : q[m][i] = q[m][j] => i = j
  <2>1. CASE m # n
    <3>1. q[m] = cmds[m]
      BY <1>1, <2>1
    <3>2. i \in DOMAIN cmds[m] /\ cmds[m][i].action = "activate"
      BY <1>3, <3>1
    <3>3. /\ Rank[cmds[m][i].deps] = m /\ Live(cmds[m][i].deps)
          /\ cmds[m][i].rank \in desc[cmds[m][i].deps].forwarded
          /\ \A j \in DOMAIN cmds[m] : cmds[m][i] = cmds[m][j] => i = j
      BY <3>2 DEF CommandInv
    <3> QED BY <3>1, <3>3
  <2>2. CASE m = n
    <3>1. \A j \in DOMAIN q[n] : j + 1 \in DOMAIN cmds[n] /\ q[n][j] = cmds[n][j + 1] /\ j \in Nat \ {0}
      BY <1>1
    <3>2. i + 1 \in DOMAIN cmds[n] /\ q[n][i] = cmds[n][i + 1] /\ i \in Nat \ {0}
      BY <1>3, <2>2, <3>1
    <3>3. /\ Rank[cmds[n][i + 1].deps] = n /\ Live(cmds[n][i + 1].deps)
          /\ cmds[n][i + 1].rank \in desc[cmds[n][i + 1].deps].forwarded
          /\ \A j \in DOMAIN cmds[n] : cmds[n][i + 1] = cmds[n][j] => i + 1 = j
      BY <1>3, <2>2, <3>2 DEF CommandInv
    <3>4. ASSUME NEW j \in DOMAIN q[n], q[n][i] = q[n][j] PROVE i = j
      <4>1. j + 1 \in DOMAIN cmds[n] /\ q[n][j] = cmds[n][j + 1] /\ j \in Nat \ {0}
        BY <3>1
      <4>2. i + 1 = j + 1
        BY <3>2, <3>3, <3>4, <4>1
      <4> QED BY <3>2, <4>1, <4>2
    <3> QED BY <2>2, <3>2, <3>3, <3>4
  <2> QED BY <2>1, <2>2
<1> QED BY <1>2, <1>3 DEF CommandInv

\* What a live descriptor waits for is the same after the step.
WaitsKept ==
    \A d \in Tasks, r \in Nodes : Live(d) =>
       \A k \in Needed(desc[d].task, r) : Waits(d, r, k)' <=> Waits(d, r, k)

\* A step that touches no activation and no slot in use.
LEMMA TransfersKept ==
    ASSUME CommInv, CommType', CommandInv', UNCHANGED <<released, desc, freelist, net, status>>,
           \A d \in Tasks, r \in Nodes : Queued(d, r)' <=> Queued(d, r),
           \A n \in Nodes, i \in Slots :
              act[n][i].state = "busy" \/ act'[n][i].state = "busy" => act'[n][i] = act[n][i],
           \A n \in Nodes, i \in Slots :
              get[n][i].state = "busy" \/ get'[n][i].state = "busy" => get'[n][i] = get[n][i]
    PROVE  CommInv' /\ WaitsKept
<1> USE DEF CommInv
<1>1. DescType' /\ IsFiniteSet(net)'
  BY DEF DescType
<1>2. \A d \in Tasks : Rank[d] \in Nodes
  BY RemoteGraphAssumption
<1>3. \A d \in Tasks, r \in Nodes :
         /\ Announced(d, r)' <=> Announced(d, r)
         /\ Asked(d, r)' <=> Asked(d, r)
  BY DEF Announced, Asked
<1>4. ASSUME NEW d \in Tasks, NEW r \in Nodes, NEW j \in Slots
      PROVE  /\ Serving(d, r, j)' <=> Serving(d, r, j)
             /\ Serving(d, r, j) => get'[Rank[d]][j] = get[Rank[d]][j]
  BY <1>2 DEF Serving
<1>5. \A d \in Tasks, r \in Nodes, k \in Outputs : Waits(d, r, k)' <=> Waits(d, r, k)
  BY <1>3, <1>4 DEF Waits
<1>6. LiveInv' /\ SentInv' /\ SingleInv' /\ FreeInv'
  BY <1>5, DescKept
<1>7. MessageInv'
  BY MessageKept DEF Grows
<1>8. ServingInv'
  <2>1. \A d : Live(d)' <=> Live(d)
    BY DEF Live
  <2> QED BY <2>1 DEF ServingInv
<1>9. OnePlace'
  BY <1>3, <1>4, OnePlaceKept
<1>10. \A t, n : n \in Nodes => (Accepted(t, n)' <=> Accepted(t, n))
  BY DEF Accepted, Receiving
<1>11. ReceiveInv'
  BY DEF ReceiveInv, Receiving
<1>12. AcceptInv'
  BY <1>3, <1>10 DEF AcceptInv, Live
<1>13. ReleasedOnce'
  BY DEF ReleasedOnce
<1>14. WaitsKept
  BY <1>5 DEF WaitsKept, Needed
<1> QED BY <1>1, <1>6, <1>7, <1>8, <1>9, <1>11, <1>12, <1>13, <1>14

\* All the threads of a node pass one of the ends of its round together.
Together(n, from, to, action) ==
    /\ \A w \in Threads : w[1] = n => thread[w].at = from
    /\ cmds' = [cmds EXCEPT ![n] = Append(@, [action |-> action])]
    /\ thread' = [w \in Threads |-> IF w[1] = n THEN [thread[w] EXCEPT !.at = to] ELSE thread[w]]
    /\ UNCHANGED <<todo, status, released, freed, desc, freelist, enabled, act, get, nexttag, net>>
End(from, to, action) ==
    \/ from = "start" /\ to = "loop" /\ action = "on"
    \/ from = "left" /\ to = "ended" /\ action = "off"

LEMMA TogetherStep ==
    ASSUME TransferInv, NEW n \in Nodes, NEW from, NEW to, NEW action,
           End(from, to, action), Together(n, from, to, action)
    PROVE  TransferInv' /\ WaitsKept
<1> PICK c : c = [action |-> action]
  OBVIOUS
<1>a. /\ c \in Command /\ c.action = action
      /\ cmds' = [cmds EXCEPT ![n] = Append(@, c)]
  BY DEF Command, Together, End
<1> USE DEF End
<1>b. /\ \A w \in Threads : w[1] = n => thread[w].at = from
      /\ thread' = [w \in Threads |-> IF w[1] = n THEN [thread[w] EXCEPT !.at = to] ELSE thread[w]]
      /\ UNCHANGED <<todo, status, released, freed, desc, freelist, enabled, act, get, nexttag, net>>
  BY DEF Together
<1> USE <1>a, <1>b
<1> USE DEF TransferInv, LocalInv
<1>1. to \in Places /\ thread \in [Threads -> ThreadState] /\ CommType
  BY DEF Places, ThreadType, CommInv
<1>2. ASSUME NEW w \in Threads
      PROVE  /\ thread'[w] \in ThreadState /\ thread'[w].task = thread[w].task
             /\ w[1] = n => thread'[w].at = to
             /\ w[1] # n => thread'[w] = thread[w]
  BY <1>1 DEF ThreadState
<1>3. ThreadType'
  BY <1>2 DEF ThreadType
<1>4. TaskType'
  BY DEF TaskType
<1>5. ThreadInv'
  <2>1. ASSUME NEW w \in Threads PROVE ThreadOf(w)'
    <3>1. ThreadOf(w)
      BY DEF ThreadInv
    <3>2. CASE w[1] = n
      BY <1>2, <3>1, <3>2 DEF ThreadOf
    <3>3. CASE w[1] # n
      BY <1>2, <3>1, <3>3 DEF ThreadOf
    <3> QED BY <3>2, <3>3
  <2> QED BY <1>2, <2>1 DEF ThreadInv
<1>6. LoopInv'
  <2> SUFFICES ASSUME NEW w \in Threads PROVE LoopOf(w)'
    BY DEF LoopInv
  <2>1. CASE w[1] = n
    BY <1>2, <2>1 DEF LoopOf, InLoop
  <2>2. CASE w[1] # n
    <3>1. thread'[w] = thread[w] /\ LoopOf(w)
      BY <1>2, <2>2 DEF LoopInv
    <3> QED BY <3>1, LoopOfKept
  <2> QED BY <2>1, <2>2
<1>7. InputsInv'
  BY InputsKept
<1>8. RunningInv'
  <2> SUFFICES ASSUME NEW u \in Tasks, status[u] = "running"
               PROVE  \E v \in Threads : thread'[v].task = u /\ thread'[v].at = "release"
    BY DEF RunningInv
  <2>1. PICK v \in Threads : thread[v].task = u /\ thread[v].at = "release"
    BY DEF RunningInv
  <2>2. v[1] # n
    BY <2>1
  <2> QED BY <1>2, <2>1, <2>2
<1>9. ThreadsTogether'
  BY <1>2 DEF ThreadsTogether
<1>10. <<n, 0>> \in Threads
  BY SizeAssumption DEF Threads
<1>11. LeftInv'
  <2> SUFFICES ASSUME NEW m \in Nodes, \A w \in Threads : w[1] = m => thread'[w].at \in {"left", "ended"}
               PROVE  todo[m] = 0
    BY DEF LeftInv
  <2>1. CASE m = n /\ from = "start"
    BY <1>2, <1>10, <2>1
  <2>2. CASE m = n /\ from = "left"
    BY <2>2 DEF LeftInv
  <2>3. CASE m # n
    BY <1>2, <2>3 DEF LeftInv
  <2> QED BY <2>1, <2>2, <2>3
<1>app. Appended(n, c)
  BY <1>1, AppendCommand
<1>12. /\ \A m \in Nodes : m # n => cmds'[m] = cmds[m]
       /\ Len(cmds[n]) \in Nat /\ DOMAIN cmds[n] = 1..Len(cmds[n])
       /\ DOMAIN cmds'[n] = 1..(Len(cmds[n]) + 1)
       /\ \A i \in DOMAIN cmds[n] : cmds'[n][i] = cmds[n][i]
       /\ cmds'[n][Len(cmds[n]) + 1] = c
  BY <1>app DEF Appended
<1>13. c.action # "activate" /\ \A r, d : c # TheActivation(r, d)
  BY ActivationType
<1>14. /\ cmds' \in [Nodes -> Seq(Command)]
       /\ \A d \in Tasks, r \in Nodes : Queued(d, r)' <=> Queued(d, r)
       /\ \A m \in Nodes : Activations(cmds[m])' = Activations(cmds[m])
  <2>1. cmds' \in [Nodes -> Seq(Command)]
    BY <1>app DEF Appended
  <2>2. ASSUME NEW d \in Tasks, NEW r \in Nodes PROVE Queued(d, r)' <=> Queued(d, r)
    <3>1. Queued(d, r)' <=> Queued(d, r) \/ (Rank[d] = n /\ c = TheActivation(r, d))
      BY <1>app DEF Appended
    <3> QED BY <1>13, <3>1
  <2>3. \A m \in Nodes : m # n => Activations(cmds[m])' = Activations(cmds[m])
    BY <1>app DEF Appended
  <2>4. c.action # "activate" => Activations(cmds[n])' = Activations(cmds[n])
    BY <1>app DEF Appended
  <2> QED BY <1>13, <2>1, <2>2, <2>3, <2>4
<1>15. OnOffInv'
  <2> SUFFICES ASSUME NEW m \in Nodes
               PROVE  /\ (\E v \in Threads : v[1] = m /\ thread'[v].at = "start") => cmds'[m] = <<>> /\ ~ enabled[m]
                      /\ ~ enabled[m] => \A i \in Slots : act[m][i].state # "busy" /\ get[m][i].state # "busy"
                      /\ \A i \in DOMAIN cmds'[m] :
                            /\ cmds'[m][i].action = "on" => i = 1 /\ ~ enabled[m]
                            /\ cmds'[m][i].action = "off" => Left(m)'
    BY DEF OnOffInv
  <2>1. CASE m # n
    <3>1. \A v \in Threads : v[1] = m => thread'[v] = thread[v]
      BY <1>2, <2>1
    <3>2. Left(m)' <=> Left(m)
      BY <3>1 DEF Left
    <3> QED BY <1>12, <2>1, <3>1, <3>2 DEF OnOffInv
  <2>2. CASE m = n /\ from = "start"
    <3>1. cmds[n] = <<>> /\ ~ enabled[n]
      BY <1>10, <2>2 DEF OnOffInv
    <3>2. Len(cmds[n]) = 0
      BY <3>1
    <3>3. \A i \in DOMAIN cmds'[n] : i = 1 /\ cmds'[n][i] = c
      BY <1>12, <3>2
    <3>4. c.action = "on" /\ to = "loop"
      BY <2>2
    <3> QED BY <1>2, <2>2, <3>1, <3>3, <3>4 DEF OnOffInv
  <2>3. CASE m = n /\ from = "left"
    <3>1. c.action = "off" /\ to = "ended"
      BY <2>3
    <3>2. Left(n)'
      BY <1>2, <3>1 DEF Left
    <3>3. \A v \in Threads : v[1] = n => thread'[v].at # "start"
      BY <1>2, <3>1
    <3>4. \A i \in DOMAIN cmds'[n] : i \in DOMAIN cmds[n] \/ i = Len(cmds[n]) + 1
      BY <1>12
    <3>5. \A i \in DOMAIN cmds'[n] : cmds'[n][i].action = "on" => i = 1 /\ ~ enabled[n]
      BY <1>12, <3>1, <3>4 DEF OnOffInv
    <3> QED BY <2>3, <3>2, <3>3, <3>5 DEF OnOffInv
  <2> QED BY <2>1, <2>2, <2>3
<1>16. FlyingExact'
  <2>1. ASSUME NEW m \in Nodes PROVE Flying(m)' = Flying(m)
    <3>1. {i \in DOMAIN cmds'[m] : cmds'[m][i].action = "activate"} = {i \in DOMAIN cmds[m] : cmds[m][i].action = "activate"}
      BY <1>14 DEF Activations
    <3> QED BY <3>1 DEF Flying
  <2>2. \A m : Telling(m)' = Telling(m)
    <3>1. from # "send" /\ to # "send"
      BY <1>1
    <3>2. \A v \in Threads : thread'[v].at = "send" <=> thread[v].at = "send"
      BY <1>2, <3>1
    <3> QED BY <3>2, TellingKept
  <2> QED BY <2>1, <2>2 DEF FlyingExact
<1>17. CommType'
  BY <1>1, <1>14 DEF CommType
<1>18. CommandInv'
  <2> PICK q : q = cmds'
    OBVIOUS
  <2>1. \A d : Live(d)' <=> Live(d)
    BY DEF Live
  <2>2. ASSUME NEW m \in Nodes, NEW i \in DOMAIN q[m], q[m][i].action = "activate"
        PROVE  /\ Rank[q[m][i].deps] = m /\ Live(q[m][i].deps)
               /\ q[m][i].rank \in desc[q[m][i].deps].forwarded
               /\ \A j \in DOMAIN q[m] : q[m][i] = q[m][j] => i = j
    <3>1. CASE m # n
      <4>1. q[m] = cmds[m]
        BY <1>12, <3>1
      <4> QED BY <2>2, <4>1 DEF CommandInv, CommInv
    <3>2. CASE m = n
      <4>1. i \in DOMAIN cmds[n] /\ q[n][i] = cmds[n][i]
        BY <1>12, <1>13, <2>2, <3>2
      <4>2. ASSUME NEW j \in DOMAIN q[n], q[n][i] = q[n][j]
            PROVE  j \in DOMAIN cmds[n] /\ q[n][j] = cmds[n][j]
        BY <1>12, <1>13, <2>2, <3>2, <4>2
      <4>3. /\ Rank[cmds[n][i].deps] = n /\ Live(cmds[n][i].deps)
            /\ cmds[n][i].rank \in desc[cmds[n][i].deps].forwarded
            /\ \A j \in DOMAIN cmds[n] : cmds[n][i] = cmds[n][j] => i = j
        BY <2>2, <3>2, <4>1 DEF CommandInv, CommInv
      <4>4. \A j \in DOMAIN q[n] : q[n][i] = q[n][j] => i = j
        BY <4>1, <4>2, <4>3
      <4> QED BY <3>2, <4>1, <4>3, <4>4
    <3> QED BY <3>1, <3>2
  <2> QED BY <2>1, <2>2 DEF CommandInv
<1>19. CommInv' /\ WaitsKept
  BY <1>14, <1>17, <1>18, TransfersKept
<1> QED BY <1>3, <1>4, <1>5, <1>6, <1>7, <1>8, <1>9, <1>11, <1>15, <1>16, <1>19

LEMMA WaitBeginsStep ==
    ASSUME TransferInv, NEW n \in Nodes, WaitBegins(n)
    PROVE  TransferInv' /\ WaitsKept
<1>1. Together(n, "start", "loop", "on")
  BY DEF WaitBegins, DequeueOn, Together, taskVars, descVars, commVars
<1> QED BY <1>1, TogetherStep DEF End

LEMMA WaitReturnsStep ==
    ASSUME TransferInv, NEW n \in Nodes, WaitReturns(n)
    PROVE  TransferInv' /\ WaitsKept
<1>1. Together(n, "left", "ended", "off")
  BY DEF WaitReturns, DequeueOff, Together, taskVars, descVars, commVars
<1> QED BY <1>1, TogetherStep DEF End

-----------------------------------------------------------------------------
(* The communication thread.                                               *)

\* A step of it leaves the threads and the tasks where they are.
LEMMA LocalKept ==
    ASSUME TransferInv, UNCHANGED <<thread, status>>, TaskType',
           \A n \in Nodes, d \in Data : released[n][d] # <<>> => released'[n][d] # <<>>,
           LoopInv', OnOffInv', LeftInv', FlyingExact'
    PROVE  LocalInv'
<1> USE DEF TransferInv, LocalInv
<1>1. ThreadType'
  BY DEF ThreadType
<1>2. ThreadInv'
  BY DEF ThreadInv, ThreadOf
<1>3. InputsInv'
  <2> SUFFICES ASSUME NEW s \in Tasks, status[s] # "waiting", NEW d \in Inputs(s)
               PROVE  released'[Rank[s]][d] # <<>>
    BY DEF InputsInv
  <2>1. Rank[s] \in Nodes /\ d \in Data
    BY RemoteGraphAssumption DEF Inputs
  <2>2. released[Rank[s]][d] # <<>>
    BY DEF InputsInv
  <2> QED BY <2>1, <2>2
<1>4. RunningInv' /\ ThreadsTogether'
  BY DEF RunningInv, ThreadsTogether
<1> QED BY <1>1, <1>2, <1>3, <1>4

LEMMA LoopUntouched ==
    ASSUME LoopInv, UNCHANGED <<thread, desc>>
    PROVE  LoopInv'
<1> SUFFICES ASSUME NEW v \in Threads PROVE LoopOf(v)'
  BY DEF LoopInv
<1>1. LoopOf(v)
  BY DEF LoopInv
<1> QED BY <1>1, LoopOfKept

\* The network is switched while no request is in use.
Quiet(n) == \A i \in Slots : act[n][i].state # "busy" /\ get[n][i].state # "busy"

LEMMA SwitchStep ==
    ASSUME TransferInv, NEW n \in Nodes,
           cmds[n] # <<>>, Head(cmds[n]).action # "activate", cmds' = [cmds EXCEPT ![n] = Tail(@)],
           Quiet(n), Quiet(n)',
           act' \in [Nodes -> [Slots -> ActSlot]], get' \in [Nodes -> [Slots -> GetSlot]],
           enabled' \in [Nodes -> BOOLEAN],
           \A m \in Nodes : m # n => act'[m] = act[m] /\ get'[m] = get[m] /\ enabled'[m] = enabled[m],
           UNCHANGED <<todo, status, released, freed, thread, desc, freelist, nexttag, net>>
    PROVE  TransferInv' /\ WaitsKept
<1>1. CommType /\ CommandInv /\ CommInv /\ OnOffInv /\ TaskType
  BY DEF TransferInv, LocalInv, CommInv
<1>2. /\ cmds' \in [Nodes -> Seq(Command)]
      /\ \A m \in Nodes : m # n => cmds'[m] = cmds[m]
      /\ \A i \in DOMAIN cmds'[n] : i + 1 \in DOMAIN cmds[n] /\ cmds'[n][i] = cmds[n][i + 1] /\ i \in Nat \ {0}
      /\ 1 \in DOMAIN cmds[n] /\ Head(cmds[n]) \in Command
      /\ \A m \in Nodes : m # n => Activations(cmds[m])' = Activations(cmds[m])
      /\ Cardinality(Activations(cmds[n]))' = Cardinality(Activations(cmds[n]))
      /\ \A d \in Tasks, r \in Nodes :
            Queued(d, r)' <=> Queued(d, r) /\ ~ (Rank[d] = n /\ Head(cmds[n]) = TheActivation(r, d))
  BY <1>1, TailCommand
<1>3. ASSUME NEW d \in Tasks, NEW r \in Nodes PROVE Queued(d, r)' <=> Queued(d, r)
  <2>1. Queued(d, r)' <=> Queued(d, r) /\ ~ (Rank[d] = n /\ Head(cmds[n]) = TheActivation(r, d))
    BY <1>2
  <2>2. Head(cmds[n]) # TheActivation(r, d)
    BY <1>2, ActivationType
  <2> QED BY <2>1, <2>2
<1>4. CommType'
  BY <1>1, <1>2 DEF CommType
<1>5. CommandInv'
  BY <1>1, CommandTail
<1>6. CommInv' /\ WaitsKept
  <2>1. \A m \in Nodes, i \in Slots :
           act[m][i].state = "busy" \/ act'[m][i].state = "busy" => act'[m][i] = act[m][i]
    BY DEF Quiet
  <2>2. \A m \in Nodes, i \in Slots :
           get[m][i].state = "busy" \/ get'[m][i].state = "busy" => get'[m][i] = get[m][i]
    BY DEF Quiet
  <2> QED BY <1>1, <1>3, <1>4, <1>5, <2>1, <2>2, TransfersKept
<1>7. OnOffInv'
  <2> SUFFICES ASSUME NEW m \in Nodes
               PROVE  /\ (\E v \in Threads : v[1] = m /\ thread[v].at = "start") => cmds'[m] = <<>> /\ ~ enabled'[m]
                      /\ ~ enabled'[m] => Quiet(m)'
                      /\ \A i \in DOMAIN cmds'[m] :
                            /\ cmds'[m][i].action = "on" => i = 1 /\ ~ enabled'[m]
                            /\ cmds'[m][i].action = "off" => Left(m)'
    BY DEF OnOffInv, Quiet
  <2>1. Left(m)' <=> Left(m)
    BY DEF Left
  <2>2. CASE m # n
    <3>1. cmds'[m] = cmds[m] /\ enabled'[m] = enabled[m] /\ (Quiet(m)' <=> Quiet(m))
      BY <1>2, <2>2 DEF Quiet
    <3>2. /\ (\E v \in Threads : v[1] = m /\ thread[v].at = "start") => cmds[m] = <<>> /\ ~ enabled[m]
          /\ ~ enabled[m] => Quiet(m)
          /\ \A i \in DOMAIN cmds[m] :
                /\ cmds[m][i].action = "on" => i = 1 /\ ~ enabled[m]
                /\ cmds[m][i].action = "off" => Left(m)
      BY <1>1 DEF OnOffInv, Quiet
    <3>3. ASSUME NEW i \in DOMAIN cmds'[m]
          PROVE  /\ cmds'[m][i].action = "on" => i = 1 /\ ~ enabled'[m]
                 /\ cmds'[m][i].action = "off" => Left(m)'
      BY <2>1, <3>1, <3>2
    <3> QED BY <3>1, <3>2, <3>3
  <2>3. CASE m = n
    <3>1. \A v \in Threads : v[1] = n => thread[v].at # "start"
      BY <1>1 DEF OnOffInv
    <3>2. ASSUME NEW i \in DOMAIN cmds'[n]
          PROVE  cmds'[n][i].action # "on" /\ (cmds'[n][i].action = "off" => Left(n))
      <4>1. i + 1 \in DOMAIN cmds[n] /\ cmds'[n][i] = cmds[n][i + 1] /\ i + 1 # 1
        BY <1>2
      <4> QED BY <1>1, <4>1 DEF OnOffInv
    <3> QED BY <2>1, <2>3, <3>1, <3>2
  <2> QED BY <2>2, <2>3
<1>8. FlyingExact'
  <2>1. ASSUME NEW m \in Nodes PROVE Flying(m)' = Flying(m)
    <3>1. Cardinality(Activations(cmds[m]))' = Cardinality(Activations(cmds[m]))
      BY <1>2
    <3>2. BusySlots(m)' = BusySlots(m)
      BY DEF BusySlots, Quiet
    <3> QED BY <3>1, <3>2 DEF Flying, Activations, BusySlots
  <2> QED BY <2>1 DEF FlyingExact, Telling, TransferInv, LocalInv
<1>9. LoopInv' /\ LeftInv' /\ TaskType'
  BY <1>1, LoopUntouched DEF TransferInv, LocalInv, LeftInv, TaskType
<1> QED BY <1>6, <1>7, <1>8, <1>9, LocalKept DEF TransferInv

LEMMA NothingTypes ==
    /\ NoActivate \in ActSlot /\ NoActivate.state = "null"
    /\ Posted(NoActivate) \in ActSlot /\ Posted(NoActivate).state = "posted"
    /\ NoGet \in GetSlot /\ NoGet.state = "null"
    /\ Posted(NoGet) \in GetSlot /\ Posted(NoGet).state = "posted"
<1>1. 0 \in Nodes
  BY SizeAssumption DEF Nodes
<1> QED BY <1>1 DEF NoActivate, NoGet, Posted, ActSlot, GetSlot, TaskOrNone

LEMMA MpiOnStep ==
    ASSUME TransferInv, NEW n \in Nodes, MpiOn(n)
    PROVE  TransferInv' /\ WaitsKept
<1>1. /\ cmds[n] # <<>> /\ Head(cmds[n]).action = "on" /\ cmds' = [cmds EXCEPT ![n] = Tail(@)]
      /\ enabled' = [enabled EXCEPT ![n] = TRUE]
      /\ act' = [act EXCEPT ![n] = [i \in Slots |-> Posted(NoActivate)]]
      /\ get' = [get EXCEPT ![n] = [i \in Slots |-> Posted(NoGet)]]
      /\ UNCHANGED <<todo, status, released, freed, thread, desc, freelist, nexttag, net>>
  BY DEF MpiOn, Posted, PopCommand, taskVars, descVars
<1>2. CommType /\ CommandInv /\ OnOffInv /\ TaskType
  BY DEF TransferInv, LocalInv, CommInv
<1>3. 1 \in DOMAIN cmds[n] /\ cmds[n][1].action = "on"
  BY <1>1, <1>2, TailCommand
<1>4. Quiet(n)
  BY <1>2, <1>3 DEF OnOffInv, Quiet
<1>5. /\ act' \in [Nodes -> [Slots -> ActSlot]] /\ get' \in [Nodes -> [Slots -> GetSlot]]
      /\ enabled' \in [Nodes -> BOOLEAN] /\ Quiet(n)'
      /\ \A m \in Nodes : m # n => act'[m] = act[m] /\ get'[m] = get[m] /\ enabled'[m] = enabled[m]
  BY <1>1, <1>2, NothingTypes DEF CommType, TaskType, Quiet
<1> QED BY <1>1, <1>4, <1>5, SwitchStep

\* When a node has left, its tasks are done and all it announced was served; so
\* nothing is being received either, which a task of the node would wait for.
LEMMA LeftServed ==
    ASSUME TransferInv, NEW n \in Nodes, Left(n)
    PROVE  /\ Waiting(n) = {} /\ Activations(cmds[n]) = {} /\ ActsFrom(n) = {}
           /\ GetsTo(n) = {} /\ BusySlots(n) = {}
<1>1. todo[n] = 0
  BY DEF Left, LeftInv, TransferInv, LocalInv
<1>2. todo[n] = Cardinality(Waiting(n)) + Cardinality(Telling(n)) + Flying(n)
  BY FlyingIs DEF TransferInv, LocalInv, Untaken
<1>3. /\ Flying(n) = Cardinality(Activations(cmds[n])) + Cardinality(ActsFrom(n))
                     + Cardinality(GetsTo(n)) + Cardinality(BusySlots(n))
      /\ IsFiniteSet(Activations(cmds[n])) /\ Cardinality(Activations(cmds[n])) \in Nat
      /\ IsFiniteSet(ActsFrom(n)) /\ Cardinality(ActsFrom(n)) \in Nat
      /\ IsFiniteSet(GetsTo(n)) /\ Cardinality(GetsTo(n)) \in Nat
      /\ IsFiniteSet(BusySlots(n)) /\ Cardinality(BusySlots(n)) \in Nat
      /\ IsFiniteSet(Waiting(n)) /\ Cardinality(Waiting(n)) \in Nat
      /\ Cardinality(Telling(n)) \in Nat
  BY FlyingParts, WaitingFinite, TellingFinite DEF TransferInv, CommInv
<1>4. /\ Cardinality(Waiting(n)) = 0 /\ Cardinality(Activations(cmds[n])) = 0
      /\ Cardinality(ActsFrom(n)) = 0 /\ Cardinality(GetsTo(n)) = 0 /\ Cardinality(BusySlots(n)) = 0
  <2> PICK a, b, c, d, e, f : /\ a = Cardinality(Waiting(n)) /\ b = Cardinality(Activations(cmds[n]))
                              /\ c = Cardinality(ActsFrom(n)) /\ d = Cardinality(GetsTo(n))
                              /\ e = Cardinality(BusySlots(n)) /\ f = Cardinality(Telling(n))
    OBVIOUS
  <2>1. a \in Nat /\ b \in Nat /\ c \in Nat /\ d \in Nat /\ e \in Nat /\ f \in Nat
    BY <1>3
  <2>2. a + f + (b + c + d + e) = 0
    BY <1>1, <1>2, <1>3
  <2>3. a + f \in Nat /\ b + c \in Nat /\ d + e \in Nat /\ (a + f) + ((b + c) + (d + e)) = 0
    BY <2>1, <2>2
  <2>4. a + f = 0 /\ b + c = 0 /\ d + e = 0
    BY <2>3
  <2>5. a = 0
    BY <2>1, <2>4
  <2>6. b = 0 /\ c = 0
    BY <2>1, <2>4
  <2>7. d = 0 /\ e = 0
    BY <2>1, <2>4
  <2> QED BY <2>5, <2>6, <2>7
<1>5. Waiting(n) = {}
  BY <1>3, <1>4, FS_EmptySet
<1>6. Activations(cmds[n]) = {}
  BY <1>3, <1>4, FS_EmptySet
<1>7. ActsFrom(n) = {}
  BY <1>3, <1>4, FS_EmptySet
<1>8. GetsTo(n) = {}
  BY <1>3, <1>4, FS_EmptySet
<1>9. BusySlots(n) = {}
  BY <1>3, <1>4, FS_EmptySet
<1> QED BY <1>5, <1>6, <1>7, <1>8, <1>9

LEMMA LeftIsQuiet ==
    ASSUME TransferInv, NEW n \in Nodes, Left(n)
    PROVE  Quiet(n)
<1>1. Waiting(n) = {} /\ BusySlots(n) = {}
  BY LeftServed
<1>2. \A i \in Slots : get[n][i].state # "busy"
  BY <1>1 DEF BusySlots
<1>3. ASSUME NEW i \in Slots, act[n][i].state = "busy" PROVE FALSE
  <2>1. /\ act[n][i].task \in Tasks
        /\ act[n][i].recv # {} /\ act[n][i].recv \subseteq Needed(act[n][i].task, n)
        /\ \A k \in act[n][i].recv : released[n][<<act[n][i].task, k>>] = <<>>
    BY <1>3 DEF ReceiveInv, TransferInv, CommInv
  <2> PICK t \in Tasks : t = act[n][i].task
    BY <2>1
  <2>2. PICK k \in Outputs : n \in RanksOf(t, k) /\ released[n][<<t, k>>] = <<>>
    BY <2>1 DEF Needed
  <2>3. PICK s \in Tasks : s \in Out[t][k] /\ Rank[s] = n
    BY <2>2, RemoteGraphAssumption DEF RanksOf
  <2>4. <<t, k>> \in Inputs(s)
    BY <2>3 DEF Inputs, Data
  <2>5. status[s] # "waiting"
    BY <1>1, <2>3 DEF Waiting
  <2> QED BY <2>2, <2>3, <2>4, <2>5 DEF InputsInv, TransferInv, LocalInv
<1> QED BY <1>2, <1>3 DEF Quiet

LEMMA MpiOffStep ==
    ASSUME TransferInv, NEW n \in Nodes, MpiOff(n)
    PROVE  TransferInv' /\ WaitsKept
<1>1. /\ cmds[n] # <<>> /\ Head(cmds[n]).action = "off" /\ cmds' = [cmds EXCEPT ![n] = Tail(@)]
      /\ enabled' = [enabled EXCEPT ![n] = FALSE]
      /\ act' = [act EXCEPT ![n] = [i \in Slots |-> NoActivate]]
      /\ get' = [get EXCEPT ![n] = [i \in Slots |-> NoGet]]
      /\ UNCHANGED <<todo, status, released, freed, thread, desc, freelist, nexttag, net>>
  BY DEF MpiOff, PopCommand, taskVars, descVars
<1>2. CommType /\ CommandInv /\ OnOffInv /\ TaskType
  BY DEF TransferInv, LocalInv, CommInv
<1>3. 1 \in DOMAIN cmds[n] /\ cmds[n][1].action = "off"
  BY <1>1, <1>2, TailCommand
<1>4. Left(n)
  BY <1>2, <1>3 DEF OnOffInv
<1>5. Quiet(n)
  BY <1>4, LeftIsQuiet
<1>6. /\ act' \in [Nodes -> [Slots -> ActSlot]] /\ get' \in [Nodes -> [Slots -> GetSlot]]
      /\ enabled' \in [Nodes -> BOOLEAN] /\ Quiet(n)'
      /\ \A m \in Nodes : m # n => act'[m] = act[m] /\ get'[m] = get[m] /\ enabled'[m] = enabled[m]
  BY <1>1, <1>2, NothingTypes DEF CommType, TaskType, Quiet
<1> QED BY <1>1, <1>5, <1>6, SwitchStep

-----------------------------------------------------------------------------
(* The messages of an activation.                                          *)

LEMMA MessageType ==
    ASSUME CommType, NEW m \in net
    PROVE  /\ m.type \in {"activate", "get", "put"}
           /\ m.type = "activate" => m \in ActMessage /\ m.deps \in Tasks /\ m.from \in Nodes /\ m.to \in Nodes
           /\ m.type = "get" =>
                 m \in GetMessage /\ m.deps \in Tasks /\ m.from \in Nodes /\ m.to \in Nodes
                 /\ m.which \in SUBSET Outputs /\ m.tag \in Nat
           /\ m.type = "put" =>
                 m \in PutMessage /\ m.data \in Data /\ m.from \in Nodes /\ m.to \in Nodes /\ m.tag \in Nat
<1>1. CASE m \in ActMessage
  BY <1>1 DEF ActMessage
<1>2. CASE m \in GetMessage
  BY <1>2 DEF GetMessage
<1>3. CASE m \in PutMessage
  BY <1>3 DEF PutMessage
<1> QED BY <1>1, <1>2, <1>3 DEF CommType

\* A rank is sent one activation of a descriptor.
LEMMA OneActivation ==
    ASSUME CommType, MessageInv, NEW m \in net, NEW o \in net,
           m.type = "activate", o.type = "activate", m.deps = o.deps, m.to = o.to
    PROVE  m = o
<1>1. m \in ActMessage /\ o \in ActMessage
  BY MessageType
<1>2. m.from = o.from /\ m.task = o.task /\ m.which = o.which
  BY DEF MessageInv
<1> QED BY <1>1, <1>2 DEF ActMessage

\* The network stays on or off, and a command is taken at most.
LEMMA OnOffKept ==
    ASSUME OnOffInv, NEW n \in Nodes, UNCHANGED <<thread, enabled>>,
           \A m \in Nodes : m # n => cmds'[m] = cmds[m] /\ act'[m] = act[m] /\ get'[m] = get[m],
           \/ cmds'[n] = cmds[n]
           \/ /\ cmds[n] # <<>>
              /\ \A i \in DOMAIN cmds'[n] : i + 1 \in DOMAIN cmds[n] /\ cmds'[n][i] = cmds[n][i + 1] /\ i \in Nat \ {0},
           enabled[n] \/ (Quiet(n) => Quiet(n)')
    PROVE  OnOffInv'
<1> SUFFICES ASSUME NEW m \in Nodes
             PROVE  /\ (\E v \in Threads : v[1] = m /\ thread[v].at = "start") => cmds'[m] = <<>> /\ ~ enabled[m]
                    /\ ~ enabled[m] => Quiet(m)'
                    /\ \A i \in DOMAIN cmds'[m] :
                          /\ cmds'[m][i].action = "on" => i = 1 /\ ~ enabled[m]
                          /\ cmds'[m][i].action = "off" => Left(m)'
  BY DEF OnOffInv, Quiet
<1>1. Left(m)' <=> Left(m)
  BY DEF Left
<1>2. /\ (\E v \in Threads : v[1] = m /\ thread[v].at = "start") => cmds[m] = <<>> /\ ~ enabled[m]
      /\ ~ enabled[m] => Quiet(m)
      /\ \A i \in DOMAIN cmds[m] :
            /\ cmds[m][i].action = "on" => i = 1 /\ ~ enabled[m]
            /\ cmds[m][i].action = "off" => Left(m)
  BY DEF OnOffInv, Quiet
<1>3. ~ enabled[m] => Quiet(m)'
  <2>1. CASE m # n
    BY <1>2, <2>1 DEF Quiet
  <2>2. CASE m = n
    BY <1>2, <2>2
  <2> QED BY <2>1, <2>2
<1>4. CASE cmds'[m] = cmds[m]
  <2>1. \A i \in DOMAIN cmds'[m] :
            /\ cmds'[m][i].action = "on" => i = 1 /\ ~ enabled[m]
            /\ cmds'[m][i].action = "off" => Left(m)'
    BY <1>1, <1>2, <1>4
  <2> QED BY <1>2, <1>3, <1>4, <2>1
<1>5. CASE m = n /\ cmds[n] # <<>>
           /\ \A i \in DOMAIN cmds'[n] : i + 1 \in DOMAIN cmds[n] /\ cmds'[n][i] = cmds[n][i + 1] /\ i \in Nat \ {0}
  <2>1. ~ \E v \in Threads : v[1] = m /\ thread[v].at = "start"
    BY <1>2, <1>5
  <2>2. ASSUME NEW i \in DOMAIN cmds'[n]
        PROVE  cmds'[n][i].action # "on" /\ (cmds'[n][i].action = "off" => Left(m)')
    <3>1. i + 1 \in DOMAIN cmds[m] /\ cmds'[n][i] = cmds[m][i + 1] /\ i + 1 # 1
      BY <1>5
    <3> QED BY <1>1, <1>2, <3>1
  <2> QED BY <1>3, <1>5, <2>1, <2>2
<1> QED BY <1>4, <1>5

\* A step that moves an activation to its next place.
LEMMA MovedStep ==
    ASSUME TransferInv, UNCHANGED <<todo, status, released, freed, thread, desc, freelist, enabled>>,
           CommType', IsFiniteSet(net)', CommandInv', MessageInv', ServingInv', OnePlace',
           ReceiveInv', AcceptInv', OnOffInv',
           WaitsKept,
           \A m \in Nodes : Flying(m)' = Flying(m)
    PROVE  TransferInv'
<1>1. DescType' /\ LiveInv' /\ SingleInv' /\ FreeInv' /\ ReleasedOnce'
  BY DEF TransferInv, CommInv, DescType, LiveInv, SingleInv, FreeInv, ReleasedOnce, Live
<1>2. SentInv'
  <2> SUFFICES ASSUME NEW d \in Tasks, Live(d) PROVE desc[d].sent = Cardinality(Served(d)')
    BY DEF SentInv, Live
  <2>1. Served(d)' = {p \in Pairs(desc[d].task) : p[2] \in desc[d].forwarded /\ ~ Waits(d, p[2], p[1])'}
    BY DEF Served
  <2>2. Served(d) = {p \in Pairs(desc[d].task) : p[2] \in desc[d].forwarded /\ ~ Waits(d, p[2], p[1])}
    BY DEF Served
  <2>3. \A p \in Pairs(desc[d].task) : p[2] \in Nodes /\ p[1] \in Needed(desc[d].task, p[2])
    BY DEF Pairs, Needed
  <2>4. Served(d)' = Served(d)
    BY <2>1, <2>2, <2>3 DEF WaitsKept
  <2> QED BY <2>4 DEF SentInv, TransferInv, CommInv
<1>3. CommInv'
  BY <1>1, <1>2 DEF CommInv
<1>4. FlyingExact'
  BY DEF FlyingExact, Telling, TransferInv, LocalInv
<1>5. LoopInv' /\ LeftInv' /\ TaskType'
  BY LoopUntouched DEF TransferInv, LocalInv, LeftInv, TaskType
<1> QED BY <1>3, <1>4, <1>5, LocalKept DEF TransferInv

LEMMA SendActivateStep ==
    ASSUME TransferInv, NEW n \in Nodes, SendActivate(n)
    PROVE  TransferInv' /\ WaitsKept
<1>1. /\ CommType /\ CommandInv /\ MessageInv /\ OnePlace /\ OnOffInv /\ LiveInv /\ IsFiniteSet(net)
      /\ AcceptInv /\ ReceiveInv /\ ServingInv /\ DescType
  BY DEF TransferInv, LocalInv, CommInv
<1>2. /\ cmds[n] # <<>> /\ Head(cmds[n]).action = "activate" /\ cmds' = [cmds EXCEPT ![n] = Tail(@)]
      /\ UNCHANGED <<todo, status, released, freed, thread, desc, freelist, enabled, act, get, nexttag>>
  BY DEF SendActivate, SendDep, PopCommand, taskVars, descVars, commVars
<1>3. /\ cmds' \in [Nodes -> Seq(Command)]
      /\ \A m \in Nodes : m # n => cmds'[m] = cmds[m]
      /\ \A i \in DOMAIN cmds'[n] : i + 1 \in DOMAIN cmds[n] /\ cmds'[n][i] = cmds[n][i + 1] /\ i \in Nat \ {0}
      /\ 1 \in DOMAIN cmds[n] /\ Head(cmds[n]) = cmds[n][1] /\ Head(cmds[n]) \in Command
      /\ \A m \in Nodes : m # n => Activations(cmds[m])' = Activations(cmds[m])
      /\ Cardinality(Activations(cmds[n]))' = Cardinality(Activations(cmds[n])) - 1
      /\ \A d \in Tasks, r \in Nodes :
            Queued(d, r)' <=> Queued(d, r) /\ ~ (Rank[d] = n /\ Head(cmds[n]) = TheActivation(r, d))
  BY <1>1, <1>2, TailCommand
<1> PICK d, r : d = Head(cmds[n]).deps /\ r = Head(cmds[n]).rank
  OBVIOUS
<1>4. /\ d \in Tasks /\ r \in Nodes /\ Head(cmds[n]) = TheActivation(r, d)
      /\ \A e, s : Head(cmds[n]) = TheActivation(s, e) => s = r /\ e = d
  BY <1>2, <1>3, ActivationType
<1>5. Rank[d] = n /\ Live(d) /\ r \in desc[d].forwarded
  BY <1>1, <1>2, <1>3 DEF CommandInv
<1> PICK t : t = desc[d].task
  OBVIOUS
<1>6. /\ t \in Tasks /\ Rank[t] = n /\ desc[d].output = RankBits(t, Outputs) /\ r # n
      /\ Needed(t, r) # {}
  BY <1>1, <1>4, <1>5 DEF Live, LiveInv
<1>7. {k \in Outputs : r \in desc[d].output[k]} = Needed(t, r)
  BY <1>6 DEF RankBits, Needed
<1> PICK m : m = [type |-> "activate", from |-> n, to |-> r, deps |-> d, task |-> t, which |-> Needed(t, r)]
  OBVIOUS
<1>8. net' = net \cup {m}
  BY <1>7 DEF SendActivate, SendDep
<1>9. /\ m \in ActMessage /\ m.type = "activate" /\ m.from = n /\ m.to = r /\ m.deps = d
      /\ m.task = t /\ m.which = Needed(t, r)
  BY <1>4, <1>6 DEF ActMessage, TaskOrNone, Needed
<1>10. /\ \A e \in Tasks, s \in Nodes : Queued(e, s)' <=> Queued(e, s) /\ ~ (e = d /\ s = r)
       /\ Queued(d, r)
  <2>1. Queued(d, r)
    BY <1>3, <1>4, <1>5, QueuedIs
  <2>2. ASSUME NEW e \in Tasks, NEW s \in Nodes
        PROVE  Queued(e, s)' <=> Queued(e, s) /\ ~ (e = d /\ s = r)
    BY <1>3, <1>4, <1>5
  <2> QED BY <2>1, <2>2
<1>11. \A e, s : Announced(e, s)' <=> Announced(e, s) \/ (e = d /\ s = r)
  BY <1>8, <1>9 DEF Announced
<1>12. \A e, s : Asked(e, s)' <=> Asked(e, s)
  BY <1>8, <1>9 DEF Asked
<1>13. \A e, s : \A j \in Slots : Serving(e, s, j)' <=> Serving(e, s, j)
  BY <1>2 DEF Serving
<1>14. CommType' /\ IsFiniteSet(net)'
  <2>1. IsFiniteSet(net')
    BY <1>1, <1>8, FS_AddElement
  <2> QED BY <1>1, <1>2, <1>3, <1>8, <1>9, <2>1 DEF CommType
<1>15. CommandInv'
  BY <1>1, <1>2, CommandTail
<1>16. \A e : Live(e)' <=> Live(e)
  BY <1>2 DEF Live
<1>17. MessageInv'
  <2>1. ASSUME NEW o \in net', o.type = "activate"
        PROVE  /\ o.from = Rank[o.deps] /\ Live(o.deps)
               /\ o.task = desc[o.deps].task /\ o.which = Needed(o.task, o.to)
               /\ o.to \in desc[o.deps].forwarded
    <3>1. CASE o = m
      BY <1>5, <1>9, <3>1
    <3>2. CASE o \in net
      BY <1>1, <2>1, <3>2 DEF MessageInv
    <3> QED BY <1>8, <3>1, <3>2
  <2>2. ASSUME NEW o \in net', o.type = "get"
        PROVE  /\ o.to = Rank[o.deps] /\ Live(o.deps)
               /\ o.which = Needed(desc[o.deps].task, o.from)
               /\ o.from \in desc[o.deps].forwarded
               /\ \A p \in net' : p.type = "get" /\ p.deps = o.deps /\ p.from = o.from => p = o
    <3>1. o \in net /\ \A p \in net' : p.type = "get" => p \in net
      BY <1>8, <1>9, <2>2
    <3> QED BY <1>1, <2>2, <3>1 DEF MessageInv
  <2> QED BY <1>2, <1>16, <2>1, <2>2 DEF MessageInv
<1>18. ServingInv'
  BY <1>1, <1>2, <1>16 DEF ServingInv
<1>19. OnePlace'
  BY <1>1, <1>10, <1>11, <1>12, <1>13 DEF OnePlace
<1>20. ReceiveInv'
  BY <1>1, <1>2 DEF ReceiveInv, Receiving
<1>21. AcceptInv'
  <2>1. \A u, s : Accepted(u, s)' <=> Accepted(u, s)
    BY <1>2 DEF Accepted, Receiving
  <2> SUFFICES ASSUME NEW u \in Tasks, NEW s \in Nodes, Accepted(u, s)
               PROVE  /\ status[u] = "done"
                      /\ \A e \in Tasks : s # Rank[u] /\ Live(e) /\ desc[e].task = u =>
                            s \in desc[e].forwarded /\ ~ Queued(e, s)' /\ ~ Announced(e, s)'
    BY <1>2, <1>16, <2>1 DEF AcceptInv
  <2>2. status[u] = "done" /\ \A e \in Tasks : s # Rank[u] /\ Live(e) /\ desc[e].task = u =>
                            s \in desc[e].forwarded /\ ~ Queued(e, s) /\ ~ Announced(e, s)
    BY <1>1 DEF AcceptInv
  <2> QED BY <1>10, <1>11, <2>2
<1>22. OnOffInv'
  BY <1>1, <1>2, <1>3, OnOffKept DEF Quiet
<1>23. \A e \in Tasks, s \in Nodes, k \in Outputs : Waits(e, s, k)' <=> Waits(e, s, k)
  BY <1>2, <1>10, <1>11, <1>12, <1>13 DEF Waits
<1>24. ASSUME NEW p \in Nodes PROVE Flying(p)' = Flying(p)
  <2>1. GetsTo(p)' = GetsTo(p) /\ BusySlots(p)' = BusySlots(p)
    BY <1>2, <1>8, <1>9 DEF GetsTo, BusySlots
  <2>2. CASE p # n
    <3>1. ActsFrom(p)' = ActsFrom(p) /\ Activations(cmds[p])' = Activations(cmds[p])
      BY <1>3, <1>8, <1>9, <2>2 DEF ActsFrom
    <3> QED BY <2>1, <3>1 DEF Flying, Activations, ActsFrom, GetsTo, BusySlots
  <2>3. CASE p = n
    <3>1. ActsFrom(n)' = ActsFrom(n) \cup {m}
      BY <1>8, <1>9 DEF ActsFrom
    <3>2. m \notin ActsFrom(n)
      <4>1. ~ Announced(d, r)
        BY <1>1, <1>4, <1>10 DEF OnePlace
      <4> QED BY <1>9, <4>1 DEF Announced, ActsFrom
    <3>3. IsFiniteSet(ActsFrom(n)) /\ Cardinality(ActsFrom(n)) \in Nat
          /\ Cardinality(Activations(cmds[n])) \in Nat
      BY <1>1, FlyingParts
    <3>4. Cardinality(ActsFrom(n)') = Cardinality(ActsFrom(n)) + 1
      <4>1. Cardinality(ActsFrom(n) \cup {m}) = Cardinality(ActsFrom(n)) + 1
        BY <3>2, <3>3, FS_AddElement
      <4> QED BY <3>1, <4>1
    <3>5. Cardinality(Activations(cmds[n]))' + Cardinality(ActsFrom(n)')
           = Cardinality(Activations(cmds[n])) + Cardinality(ActsFrom(n))
      BY <1>3, <3>3, <3>4
    <3> QED BY <2>1, <2>3, <3>5 DEF Flying, Activations, ActsFrom, GetsTo, BusySlots
  <2> QED BY <2>2, <2>3
<1>25. WaitsKept
  BY <1>23 DEF WaitsKept, Needed
<1> QED BY <1>2, <1>14, <1>15, <1>17, <1>18, <1>19, <1>20, <1>21, <1>22, <1>24, <1>25, MovedStep

\* A step that changes one slot.
SetSlot(slots, n, i, b) == [slots EXCEPT ![n][i] = b]

LEMMA ActChange ==
    ASSUME act \in [Nodes -> [Slots -> ActSlot]], NEW n \in Nodes, NEW i \in Slots, NEW b \in ActSlot,
           act' = SetSlot(act, n, i, b)
    PROVE  /\ act' \in [Nodes -> [Slots -> ActSlot]] /\ act'[n][i] = b
           /\ \A q \in Nodes, j \in Slots : q # n \/ j # i => act'[q][j] = act[q][j]
           /\ \A q \in Nodes : q # n => act'[q] = act[q]
BY DEF SetSlot

LEMMA GetChange ==
    ASSUME get \in [Nodes -> [Slots -> GetSlot]], NEW n \in Nodes, NEW i \in Slots, NEW b \in GetSlot,
           get' = SetSlot(get, n, i, b)
    PROVE  /\ get' \in [Nodes -> [Slots -> GetSlot]] /\ get'[n][i] = b
           /\ \A q \in Nodes, j \in Slots : q # n \/ j # i => get'[q][j] = get[q][j]
           /\ \A q \in Nodes : q # n => get'[q] = get[q]
BY DEF SetSlot

LEMMA FlyingSum ==
    ASSUME NEW n
    PROVE  /\ Flying(n) = Cardinality(Activations(cmds[n])) + Cardinality(ActsFrom(n))
                           + Cardinality(GetsTo(n)) + Cardinality(BusySlots(n))
           /\ Flying(n)' = Cardinality(Activations(cmds[n])') + Cardinality(ActsFrom(n)')
                            + Cardinality(GetsTo(n)') + Cardinality(BusySlots(n)')
BY DEF Flying, Activations, ActsFrom, GetsTo, BusySlots

Fetched(n, i, m) ==
    /\ act' = [act EXCEPT ![n][i] =
                  [state |-> "busy", from |-> m.from, deps |-> m.deps, task |-> m.task,
                   which |-> m.which, done |-> {}, recv |-> m.which, tag |-> nexttag[n]]]
    /\ net' = (net \ {m}) \cup {[type |-> "get", from |-> n, to |-> m.from, deps |-> m.deps,
                                 which |-> m.which, tag |-> nexttag[n]]}

LEMMA GetDataStep ==
    ASSUME TransferInv, NEW n \in Nodes, enabled[n], NEW i \in Slots, GetData(n, i)
    PROVE  TransferInv' /\ WaitsKept
<1>1. /\ CommType /\ CommandInv /\ MessageInv /\ OnePlace /\ OnOffInv /\ LiveInv /\ IsFiniteSet(net)
      /\ AcceptInv /\ ReceiveInv /\ ServingInv /\ DescType /\ SingleInv
  BY DEF TransferInv, LocalInv, CommInv
<1> PICK m \in net : m.type = "activate" /\ m.to = n /\ Fetched(n, i, m)
  BY DEF GetData, Fetched
<1>2. /\ act[n][i].state = "posted"
      /\ nexttag' = [nexttag EXCEPT ![n] = IncNextTag(@)]
      /\ UNCHANGED <<todo, status, released, freed, thread, desc, freelist, enabled, get, cmds>>
  BY DEF GetData, Listening, taskVars, descVars
<1> PICK d, t, p : d = m.deps /\ t = m.task /\ p = m.from
  OBVIOUS
<1>3. /\ d \in Tasks /\ p \in Nodes /\ p = Rank[d] /\ Live(d) /\ t = desc[d].task
      /\ m.which = Needed(t, n) /\ n \in desc[d].forwarded
  BY <1>1, MessageType DEF MessageInv
<1>4. /\ t \in Tasks /\ Rank[t] = p /\ n # p /\ Needed(t, n) # {} /\ status[t] = "done"
  BY <1>1, <1>3 DEF Live, LiveInv
<1>5. nexttag[n] \in Nat /\ nexttag' \in [Nodes -> Nat]
  BY <1>1, <1>2, SizeAssumption DEF CommType, IncNextTag, FirstTag
<1> DEFINE g == [type |-> "get", from |-> n, to |-> p, deps |-> d, which |-> Needed(t, n), tag |-> nexttag[n]]
           b == [state |-> "busy", from |-> p, deps |-> d, task |-> t, which |-> Needed(t, n),
                 done |-> {}, recv |-> Needed(t, n), tag |-> nexttag[n]]
<1>6. net' = (net \ {m}) \cup {g} /\ act' = SetSlot(act, n, i, b)
  BY <1>3 DEF Fetched, SetSlot
<1>7. /\ g \in GetMessage /\ g.type = "get" /\ g.from = n /\ g.to = p /\ g.deps = d
      /\ g.which = Needed(t, n) /\ g.tag = nexttag[n]
  BY <1>3, <1>5 DEF GetMessage, Needed
<1>8. /\ b \in ActSlot /\ b.state = "busy" /\ b.from = p /\ b.task = t /\ b.which = Needed(t, n)
      /\ b.done = {} /\ b.recv = Needed(t, n) /\ b.tag = nexttag[n]
  BY <1>3, <1>4, <1>5 DEF ActSlot, Needed, TaskOrNone
<1> HIDE DEF g, b
<1>9. /\ act' \in [Nodes -> [Slots -> ActSlot]] /\ act'[n][i] = b
      /\ \A q \in Nodes, j \in Slots : q # n \/ j # i => act'[q][j] = act[q][j]
      /\ \A q \in Nodes : q # n => act'[q] = act[q]
  <2>1. act \in [Nodes -> [Slots -> ActSlot]]
    BY <1>1 DEF CommType
  <2>2. b \in ActSlot /\ act' = SetSlot(act, n, i, b)
    BY <1>6, <1>8
  <2> QED BY <2>1, <2>2, ActChange
<1>10. \A e, s : Queued(e, s)' <=> Queued(e, s)
  BY <1>2 DEF Queued
<1>11. Announced(d, n) /\ \A e, s : Announced(e, s)' <=> Announced(e, s) /\ ~ (e = d /\ s = n)
  <2>1. Announced(d, n)
    BY DEF Announced
  <2>2. ASSUME NEW o \in net, o.type = "activate", o.deps = d, o.to = n PROVE o = m
    BY <1>1, <2>2, OneActivation
  <2>3. ASSUME NEW e, NEW s, Announced(e, s)' PROVE Announced(e, s) /\ ~ (e = d /\ s = n)
    BY <1>6, <1>7, <2>2, <2>3 DEF Announced
  <2>4. ASSUME NEW e, NEW s, Announced(e, s), ~ (e = d /\ s = n) PROVE Announced(e, s)'
    BY <1>6, <2>4 DEF Announced
  <2> QED BY <2>1, <2>3, <2>4
<1>12. \A e, s : Asked(e, s)' <=> Asked(e, s) \/ (e = d /\ s = n)
  BY <1>6, <1>7 DEF Asked
<1>13. \A e, s : \A j \in Slots : Serving(e, s, j)' <=> Serving(e, s, j)
  BY <1>2 DEF Serving
<1>14. ~ Queued(d, n) /\ ~ Asked(d, n) /\ ~ Accepted(t, n)
  BY <1>1, <1>3, <1>4, <1>11 DEF OnePlace, AcceptInv
<1>15. CommType' /\ IsFiniteSet(net)'
  <2>1. IsFiniteSet(net \ {m})
    BY <1>1, FS_RemoveElement
  <2>2. IsFiniteSet((net \ {m}) \cup {g})
    BY <2>1, FS_AddElement
  <2>3. IsFiniteSet(net')
    BY <1>6, <2>2
  <2> QED BY <1>1, <1>2, <1>5, <1>6, <1>7, <1>9, <2>3 DEF CommType
<1>16. \A e : Live(e)' <=> Live(e)
  BY <1>2 DEF Live
<1>17. CommandInv'
  BY <1>1, <1>2, <1>16 DEF CommandInv
<1>18. MessageInv'
  <2>1. ASSUME NEW o \in net', o.type = "activate"
        PROVE  /\ o.from = Rank[o.deps] /\ Live(o.deps)
               /\ o.task = desc[o.deps].task /\ o.which = Needed(o.task, o.to)
               /\ o.to \in desc[o.deps].forwarded
    <3>1. o \in net
      BY <1>6, <1>7, <2>1
    <3> QED BY <1>1, <2>1, <3>1 DEF MessageInv
  <2>2. ASSUME NEW o \in net', o.type = "get"
        PROVE  /\ o.to = Rank[o.deps] /\ Live(o.deps)
               /\ o.which = Needed(desc[o.deps].task, o.from)
               /\ o.from \in desc[o.deps].forwarded
               /\ \A q \in net' : q.type = "get" /\ q.deps = o.deps /\ q.from = o.from => q = o
    <3>1. \A q \in net' : q.type = "get" => q = g \/ q \in net
      BY <1>6
    <3>2. \A q \in net : q.type = "get" => ~ (q.deps = d /\ q.from = n)
      BY <1>14 DEF Asked
    <3>3. CASE o = g
      BY <1>3, <1>7, <3>1, <3>2, <3>3
    <3>4. CASE o \in net
      <4>1. \A q \in net' : q.type = "get" /\ q.deps = o.deps /\ q.from = o.from => q \in net
        BY <1>7, <2>2, <3>1, <3>2, <3>4
      <4> QED BY <1>1, <2>2, <3>4, <4>1 DEF MessageInv
    <3> QED BY <2>2, <3>1, <3>3, <3>4
  <2> QED BY <1>2, <1>16, <2>1, <2>2 DEF MessageInv
<1>19. ServingInv'
  BY <1>1, <1>2, <1>16 DEF ServingInv
<1>20. OnePlace'
  BY <1>1, <1>10, <1>11, <1>12, <1>13, <1>14 DEF OnePlace
<1>21. \A u \in Tasks, s \in Nodes : Accepted(u, s)' <=> Accepted(u, s) \/ (u = t /\ s = n)
  <2>1. ASSUME NEW u \in Tasks, NEW s \in Nodes, Accepted(u, s)' PROVE Accepted(u, s) \/ (u = t /\ s = n)
    BY <1>2, <1>8, <1>9, <2>1 DEF Accepted, Receiving
  <2>2. ASSUME NEW u \in Tasks, NEW s \in Nodes, Accepted(u, s) PROVE Accepted(u, s)'
    BY <1>2, <1>9, <2>2 DEF Accepted, Receiving
  <2>3. Accepted(t, n)'
    BY <1>8, <1>9 DEF Accepted, Receiving
  <2> QED BY <2>1, <2>2, <2>3
<1>22. ReceiveInv'
  <2>1. /\ \A j \in Slots : ~ Receiving(n, j, t)
        /\ \A k \in Outputs : released[n][<<t, k>>] = <<>>
    BY <1>14 DEF Accepted
  <2>2. ASSUME NEW q \in Nodes, NEW j \in Slots, act'[q][j].state = "busy"
        PROVE  /\ act'[q][j].task \in Tasks
               /\ act'[q][j].from = Rank[act'[q][j].task] /\ act'[q][j].from # q
               /\ act'[q][j].recv # {} /\ act'[q][j].which = act'[q][j].recv /\ act'[q][j].done = {}
               /\ act'[q][j].recv \subseteq Needed(act'[q][j].task, q)
               /\ \A k \in act'[q][j].recv : released[q][<<act'[q][j].task, k>>] = <<>>
               /\ \A l \in Slots : act'[q][l].state = "busy" /\ act'[q][l].task = act'[q][j].task => j = l
    <3>1. CASE q = n /\ j = i
      <4>1. \A k \in Needed(t, n) : released[n][<<t, k>>] = <<>>
        BY <2>1 DEF Needed
      <4>2. \A l \in Slots : act'[n][l].state = "busy" /\ act'[n][l].task = t => i = l
        BY <1>9, <2>1 DEF Receiving
      <4> QED BY <1>4, <1>8, <1>9, <3>1, <4>1, <4>2
    <3>2. CASE q # n \/ j # i
      <4>1. act'[q][j] = act[q][j]
        BY <1>9, <3>2
      <4>2. \A l \in Slots : act'[q][l].state = "busy" /\ act'[q][l].task = act[q][j].task => j = l
        BY <1>1, <1>2, <1>8, <1>9, <2>1, <2>2, <3>2, <4>1 DEF ReceiveInv, Receiving
      <4> QED BY <1>1, <2>2, <4>1, <4>2 DEF ReceiveInv
    <3> QED BY <3>1, <3>2
  <2> QED BY <1>2, <2>2 DEF ReceiveInv, Receiving
<1>23. AcceptInv'
  <2> SUFFICES ASSUME NEW u \in Tasks, NEW s \in Nodes, Accepted(u, s)'
               PROVE  /\ status[u] = "done"
                      /\ \A e \in Tasks : s # Rank[u] /\ Live(e) /\ desc[e].task = u =>
                            s \in desc[e].forwarded /\ ~ Queued(e, s)' /\ ~ Announced(e, s)'
    BY <1>2, <1>16 DEF AcceptInv
  <2>1. CASE Accepted(u, s)
    BY <1>1, <1>10, <1>11, <2>1 DEF AcceptInv
  <2>2. CASE u = t /\ s = n
    <3>1. \A e \in Tasks : Live(e) /\ desc[e].task = t => e = d
      BY <1>1, <1>3 DEF SingleInv
    <3> QED BY <1>3, <1>4, <1>10, <1>11, <1>14, <2>2, <3>1
  <2> QED BY <1>21, <2>1, <2>2
<1>24. OnOffInv'
  <2>1. \A q \in Nodes : q # n => cmds'[q] = cmds[q] /\ act'[q] = act[q] /\ get'[q] = get[q]
    BY <1>1, <1>2, <1>9 DEF CommType
  <2> QED BY <1>1, <1>2, <2>1, OnOffKept
<1>25. WaitsKept
  BY <1>2, <1>10, <1>11, <1>12, <1>13 DEF Waits, WaitsKept
<1>26. ASSUME NEW q \in Nodes PROVE Flying(q)' = Flying(q)
  <2>1. Activations(cmds[q])' = Activations(cmds[q]) /\ BusySlots(q)' = BusySlots(q)
    BY <1>2 DEF Activations, BusySlots
  <2>2. CASE q # p
    <3>1. ActsFrom(q)' = ActsFrom(q) /\ GetsTo(q)' = GetsTo(q)
      BY <1>6, <1>7, <2>2 DEF ActsFrom, GetsTo
    <3> QED BY <2>1, <3>1, FlyingSum
  <2>3. CASE q = p
    <3>1. ActsFrom(p)' = ActsFrom(p) \ {m} /\ m \in ActsFrom(p)
      BY <1>6, <1>7 DEF ActsFrom
    <3>2. GetsTo(p)' = GetsTo(p) \cup {g}
      BY <1>6, <1>7 DEF GetsTo
    <3>3. g \notin GetsTo(p)
      BY <1>7, <1>14 DEF Asked, GetsTo
    <3>4. IsFiniteSet(ActsFrom(p)) /\ Cardinality(ActsFrom(p)) \in Nat
          /\ IsFiniteSet(GetsTo(p)) /\ Cardinality(GetsTo(p)) \in Nat
      BY <1>1, <1>3, FlyingParts
    <3>5. Cardinality(ActsFrom(p)') = Cardinality(ActsFrom(p)) - 1
      <4>1. Cardinality(ActsFrom(p) \ {m}) = Cardinality(ActsFrom(p)) - 1
        BY <3>1, <3>4, FS_RemoveElement
      <4> QED BY <3>1, <4>1
    <3>6. Cardinality(GetsTo(p)') = Cardinality(GetsTo(p)) + 1
      BY <3>2, <3>3, <3>4, FS_AddElement
    <3>7. Cardinality(Activations(cmds[p])) + Cardinality(ActsFrom(p)') + Cardinality(GetsTo(p)')
           = Cardinality(Activations(cmds[p])) + Cardinality(ActsFrom(p)) + Cardinality(GetsTo(p))
      <4>1. Cardinality(Activations(cmds[p])) \in Nat
        BY <1>1, <1>3, FlyingParts
      <4> QED BY <3>4, <3>5, <3>6, <4>1
    <3> QED BY <2>1, <2>3, <3>7, FlyingSum
  <2> QED BY <2>2, <2>3
<1> QED BY <1>2, <1>15, <1>17, <1>18, <1>19, <1>20, <1>22, <1>23, <1>24, <1>25, <1>26, MovedStep

\* The data sent for a request.
Puts(n, r, tag, t, ks) ==
    {[type |-> "put", from |-> n, to |-> r, tag |-> tag + k, data |-> <<t, k>>] : k \in ks}

LEMMA PutsType ==
    ASSUME NEW n \in Nodes, NEW r \in Nodes, NEW tag \in Nat, NEW t \in Tasks, NEW ks \in SUBSET Outputs
    PROVE  /\ IsFiniteSet(Puts(n, r, tag, t, ks)) /\ Puts(n, r, tag, t, ks) \subseteq PutMessage
           /\ \A o \in Puts(n, r, tag, t, ks) : o.type = "put"
<1> DEFINE f == [k \in ks |-> [type |-> "put", from |-> n, to |-> r, tag |-> tag + k, data |-> <<t, k>>]]
<1>1. IsFiniteSet(ks)
  BY SetsFinite, FS_Subset
<1>2. f \in Surjection(ks, Puts(n, r, tag, t, ks))
  BY DEF Surjection, Puts
<1>3. IsFiniteSet(Puts(n, r, tag, t, ks))
  <2> HIDE DEF f
  <2> QED BY <1>1, <1>2, FS_Surjection
<1>4. ASSUME NEW k \in ks
      PROVE  [type |-> "put", from |-> n, to |-> r, tag |-> tag + k, data |-> <<t, k>>] \in PutMessage
  <2>1. k \in Nat /\ tag + k \in Nat /\ <<t, k>> \in Data
    BY SetsFinite DEF Data
  <2> QED BY <2>1 DEF PutMessage
<1>5. Puts(n, r, tag, t, ks) \subseteq PutMessage /\ \A o \in Puts(n, r, tag, t, ks) : o.type = "put"
  BY <1>4 DEF Puts
<1> QED BY <1>3, <1>5

Answered(n, i, m) ==
    /\ get' = [get EXCEPT ![n][i] =
                  [state |-> "busy", to |-> m.from, deps |-> m.deps, which |-> m.which]]
    /\ net' = (net \ {m}) \cup Puts(n, m.from, m.tag, desc[m.deps].task, m.which)

LEMMA PutDataStep ==
    ASSUME TransferInv, NEW n \in Nodes, enabled[n], NEW i \in Slots, PutData(n, i)
    PROVE  TransferInv' /\ WaitsKept
<1>1. /\ CommType /\ CommandInv /\ MessageInv /\ OnePlace /\ OnOffInv /\ LiveInv /\ IsFiniteSet(net)
      /\ AcceptInv /\ ReceiveInv /\ ServingInv /\ DescType /\ SingleInv
  BY DEF TransferInv, LocalInv, CommInv
<1> PICK m \in net : m.type = "get" /\ m.to = n /\ Answered(n, i, m)
  BY DEF PutData, Answered, Puts
<1>2. /\ get[n][i].state = "posted"
      /\ UNCHANGED <<todo, status, released, freed, thread, desc, freelist, enabled, act, cmds, nexttag>>
  BY DEF PutData, Listening, taskVars, descVars
<1> PICK d, t, r : d = m.deps /\ t = desc[d].task /\ r = m.from
  OBVIOUS
<1>3. /\ d \in Tasks /\ r \in Nodes /\ n = Rank[d] /\ Live(d)
      /\ m.which = Needed(t, r) /\ r \in desc[d].forwarded /\ m.tag \in Nat
      /\ \A o \in net : o.type = "get" /\ o.deps = d /\ o.from = r => o = m
  BY <1>1, MessageType DEF MessageInv
<1>4. /\ t \in Tasks /\ Rank[t] = n /\ n # r /\ Needed(t, r) # {} /\ status[t] = "done"
  BY <1>1, <1>3 DEF Live, LiveInv
<1> DEFINE b == [state |-> "busy", to |-> r, deps |-> d, which |-> Needed(t, r)]
           puts == Puts(n, r, m.tag, t, Needed(t, r))
<1>5. net' = (net \ {m}) \cup puts /\ get' = SetSlot(get, n, i, b)
  BY <1>3 DEF Answered, SetSlot
<1>6. /\ b \in GetSlot /\ b.state = "busy" /\ b.to = r /\ b.deps = d /\ b.which = Needed(t, r)
  BY <1>3, <1>4 DEF GetSlot, Needed, TaskOrNone
<1>7. IsFiniteSet(puts) /\ puts \subseteq PutMessage /\ \A o \in puts : o.type = "put"
  <2>1. Needed(t, r) \in SUBSET Outputs
    BY DEF Needed
  <2> QED BY <1>3, <1>4, <2>1, PutsType
<1> HIDE DEF b, puts
<1>8. /\ get' \in [Nodes -> [Slots -> GetSlot]] /\ get'[n][i] = b
      /\ \A q \in Nodes, j \in Slots : q # n \/ j # i => get'[q][j] = get[q][j]
      /\ \A q \in Nodes : q # n => get'[q] = get[q]
  <2>1. get \in [Nodes -> [Slots -> GetSlot]]
    BY <1>1 DEF CommType
  <2> QED BY <1>5, <1>6, <2>1, GetChange
<1>9. \A o : o \in net' /\ o.type # "put" <=> o \in net /\ o.type # "put" /\ o # m
  BY <1>5, <1>7
<1>10. \A e, s : Queued(e, s)' <=> Queued(e, s)
  BY <1>2 DEF Queued
<1>11. \A e, s : Announced(e, s)' <=> Announced(e, s)
  BY <1>9 DEF Announced
<1>12. Asked(d, r) /\ \A e, s : Asked(e, s)' <=> Asked(e, s) /\ ~ (e = d /\ s = r)
  <2>1. Asked(d, r)
    BY DEF Asked
  <2>2. ASSUME NEW e, NEW s, Asked(e, s)' PROVE Asked(e, s) /\ ~ (e = d /\ s = r)
    BY <1>3, <1>9, <2>2 DEF Asked
  <2>3. ASSUME NEW e, NEW s, Asked(e, s), ~ (e = d /\ s = r) PROVE Asked(e, s)'
    BY <1>9, <2>3 DEF Asked
  <2> QED BY <2>1, <2>2, <2>3
<1>13. /\ ~ Queued(d, r) /\ ~ Announced(d, r) /\ \A j \in Slots : ~ Serving(d, r, j)
  BY <1>1, <1>3, <1>12 DEF OnePlace
<1>14. \A e \in Tasks : \A s : \A j \in Slots : Serving(e, s, j)' <=> Serving(e, s, j) \/ (e = d /\ s = r /\ j = i)
  <2> SUFFICES ASSUME NEW e \in Tasks, NEW s, NEW j \in Slots
               PROVE  Serving(e, s, j)' <=> Serving(e, s, j) \/ (e = d /\ s = r /\ j = i)
    OBVIOUS
  <2>1. Rank[e] \in Nodes
    BY RemoteGraphAssumption
  <2>2. CASE Rank[e] # n \/ j # i
    BY <1>3, <1>8, <2>1, <2>2 DEF Serving
  <2>3. CASE Rank[e] = n /\ j = i
    BY <1>2, <1>3, <1>6, <1>8, <2>3 DEF Serving
  <2> QED BY <2>2, <2>3
<1>15. CommType' /\ IsFiniteSet(net)'
  <2>1. IsFiniteSet(net \ {m})
    BY <1>1, FS_RemoveElement
  <2>2. IsFiniteSet((net \ {m}) \cup puts)
    BY <1>7, <2>1, FS_Union
  <2>3. IsFiniteSet(net')
    BY <1>5, <2>2
  <2> QED BY <1>1, <1>2, <1>5, <1>7, <1>8, <2>3 DEF CommType
<1>16. \A e : Live(e)' <=> Live(e)
  BY <1>2 DEF Live
<1>17. CommandInv'
  BY <1>1, <1>2, <1>16 DEF CommandInv
<1>18. MessageInv'
  <2>1. ASSUME NEW o \in net', o.type = "activate"
        PROVE  /\ o.from = Rank[o.deps] /\ Live(o.deps)
               /\ o.task = desc[o.deps].task /\ o.which = Needed(o.task, o.to)
               /\ o.to \in desc[o.deps].forwarded
    <3>1. o \in net
      BY <1>9, <2>1
    <3> QED BY <1>1, <2>1, <3>1 DEF MessageInv
  <2>2. ASSUME NEW o \in net', o.type = "get"
        PROVE  /\ o.to = Rank[o.deps] /\ Live(o.deps)
               /\ o.which = Needed(desc[o.deps].task, o.from)
               /\ o.from \in desc[o.deps].forwarded
               /\ \A q \in net' : q.type = "get" /\ q.deps = o.deps /\ q.from = o.from => q = o
    <3>1. o \in net /\ \A q \in net' : q.type = "get" => q \in net
      BY <1>9, <2>2
    <3> QED BY <1>1, <2>2, <3>1 DEF MessageInv
  <2> QED BY <1>2, <1>16, <2>1, <2>2 DEF MessageInv
<1>19. ServingInv'
  <2> SUFFICES ASSUME NEW q \in Nodes, NEW j \in Slots, get'[q][j].state = "busy"
               PROVE  /\ get'[q][j].deps \in Tasks /\ Rank[get'[q][j].deps] = q /\ Live(get'[q][j].deps)
                      /\ get'[q][j].to \in desc[get'[q][j].deps].forwarded
                      /\ get'[q][j].which # {}
                      /\ get'[q][j].which \subseteq Needed(desc[get'[q][j].deps].task, get'[q][j].to)
                      /\ \A l \in Slots : get'[q][l].state = "busy" /\ get'[q][l].deps = get'[q][j].deps
                             /\ get'[q][l].to = get'[q][j].to => l = j
    BY <1>2, <1>16 DEF ServingInv
  <2>1. \A l \in Slots : ~ (get[n][l].state = "busy" /\ get[n][l].deps = d /\ get[n][l].to = r)
    BY <1>3, <1>13 DEF Serving
  <2>2. CASE q = n /\ j = i
    <3>1. \A l \in Slots : get'[n][l].state = "busy" /\ get'[n][l].deps = d /\ get'[n][l].to = r => l = i
      BY <1>8, <2>1
    <3>2. /\ get'[q][j].deps = d /\ get'[q][j].to = r /\ get'[q][j].which = Needed(t, r)
      BY <1>6, <1>8, <2>2
    <3>3. Live(d) /\ Rank[d] = q /\ r \in desc[d].forwarded /\ Needed(t, r) # {}
      BY <1>3, <1>4, <2>2
    <3>4. t = desc[d].task /\ d \in Tasks
      BY <1>3
    <3> QED BY <2>2, <3>1, <3>2, <3>3, <3>4
  <2>3. CASE q # n \/ j # i
    <3>1. get'[q][j] = get[q][j]
      BY <1>8, <2>3
    <3>2. \A l \in Slots : get'[q][l].state = "busy" /\ get'[q][l].deps = get[q][j].deps
                             /\ get'[q][l].to = get[q][j].to => l = j
      BY <1>1, <1>6, <1>8, <2>1, <2>3, <3>1 DEF ServingInv
    <3> QED BY <1>1, <3>1, <3>2 DEF ServingInv
  <2> QED BY <2>2, <2>3
<1>20. OnePlace'
  BY <1>1, <1>10, <1>11, <1>12, <1>13, <1>14 DEF OnePlace
<1>21. ReceiveInv'
  BY <1>1, <1>2 DEF ReceiveInv, Receiving
<1>22. AcceptInv'
  <2>1. \A u, s : Accepted(u, s)' <=> Accepted(u, s)
    BY <1>2 DEF Accepted, Receiving
  <2> QED BY <1>1, <1>2, <1>10, <1>11, <1>16, <2>1 DEF AcceptInv
<1>23. OnOffInv'
  <2>1. \A q \in Nodes : q # n => cmds'[q] = cmds[q] /\ act'[q] = act[q] /\ get'[q] = get[q]
    BY <1>2, <1>8
  <2> QED BY <1>1, <1>2, <2>1, OnOffKept
<1>24. ASSUME NEW e \in Tasks, NEW s \in Nodes, Live(e), NEW k \in Needed(desc[e].task, s)
       PROVE  Waits(e, s, k)' <=> Waits(e, s, k)
  <2>1. CASE e = d /\ s = r
    <3>1. Waits(d, r, k)
      BY <1>12 DEF Waits
    <3>2. Serving(d, r, i)' /\ k \in get'[Rank[d]][i].which
      BY <1>3, <1>6, <1>8, <1>14, <1>24, <2>1
    <3> QED BY <2>1, <3>1, <3>2 DEF Waits
  <2>2. CASE ~ (e = d /\ s = r)
    <3>1. /\ Queued(e, s)' <=> Queued(e, s)
          /\ Announced(e, s)' <=> Announced(e, s)
          /\ Asked(e, s)' <=> Asked(e, s)
          /\ \A j \in Slots : Serving(e, s, j)' <=> Serving(e, s, j)
      BY <1>10, <1>11, <1>12, <1>14, <2>2
    <3>2. \A j \in Slots : Serving(e, s, j) => get'[Rank[e]][j] = get[Rank[e]][j]
      <4>1. Rank[e] \in Nodes
        BY RemoteGraphAssumption
      <4>2. ~ Serving(e, s, i) \/ Rank[e] # n
        BY <1>2 DEF Serving
      <4> QED BY <1>8, <4>1, <4>2
    <3> QED BY <3>1, <3>2 DEF Waits
  <2> QED BY <2>1, <2>2
<1>25. ASSUME NEW q \in Nodes PROVE Flying(q)' = Flying(q)
  <2>1. Activations(cmds[q])' = Activations(cmds[q]) /\ ActsFrom(q)' = ActsFrom(q)
    BY <1>2, <1>9 DEF Activations, ActsFrom
  <2>2. CASE q # n
    <3>1. GetsTo(q)' = GetsTo(q) /\ BusySlots(q)' = BusySlots(q)
      BY <1>8, <1>9, <2>2 DEF GetsTo, BusySlots
    <3> QED BY <2>1, <3>1, FlyingSum
  <2>3. CASE q = n
    <3>1. GetsTo(n)' = GetsTo(n) \ {m} /\ m \in GetsTo(n)
      BY <1>9 DEF GetsTo
    <3>2. BusySlots(n)' = BusySlots(n) \cup {i} /\ i \notin BusySlots(n)
      BY <1>2, <1>6, <1>8 DEF BusySlots
    <3>3. /\ IsFiniteSet(GetsTo(n)) /\ Cardinality(GetsTo(n)) \in Nat
          /\ IsFiniteSet(BusySlots(n)) /\ Cardinality(BusySlots(n)) \in Nat
          /\ Cardinality(Activations(cmds[n])) \in Nat /\ Cardinality(ActsFrom(n)) \in Nat
      BY <1>1, FlyingParts
    <3>4. Cardinality(GetsTo(n)') = Cardinality(GetsTo(n)) - 1
      <4>1. Cardinality(GetsTo(n) \ {m}) = Cardinality(GetsTo(n)) - 1
        BY <3>1, <3>3, FS_RemoveElement
      <4> QED BY <3>1, <4>1
    <3>5. Cardinality(BusySlots(n)') = Cardinality(BusySlots(n)) + 1
      <4>1. Cardinality(BusySlots(n) \cup {i}) = Cardinality(BusySlots(n)) + 1
        BY <3>2, <3>3, FS_AddElement
      <4> QED BY <3>2, <4>1
    <3>6. Cardinality(Activations(cmds[n])) + Cardinality(ActsFrom(n)) + Cardinality(GetsTo(n)') + Cardinality(BusySlots(n)')
           = Cardinality(Activations(cmds[n])) + Cardinality(ActsFrom(n)) + Cardinality(GetsTo(n)) + Cardinality(BusySlots(n))
      BY <3>3, <3>4, <3>5
    <3> QED BY <2>1, <2>3, <3>6, FlyingSum
  <2> QED BY <2>2, <2>3
<1>26. WaitsKept
  BY <1>24 DEF WaitsKept
<1> QED BY <1>2, <1>15, <1>17, <1>18, <1>19, <1>20, <1>21, <1>22, <1>23, <1>25, <1>26, MovedStep

-----------------------------------------------------------------------------
(* A rank of the loop of dague_remote_dep_activate.                        *)

\* The locals of the loop after a rank.
Met(h, m, a) == [h EXCEPT !.mask = m, !.count = @ + 1, !.left = @ - 1, !.at = a]

LEMMA NextType ==
    ASSUME NEW h \in ThreadState, NEW m \in SUBSET Nodes, NEW a \in Places
    PROVE  LET s == Met(h, m, a)
           IN  /\ s \in ThreadState
               /\ s.at = a /\ s.mask = m /\ s.left = h.left - 1
               /\ s.task = h.task /\ s.deps = h.deps /\ s.out = h.out
<1>1. h.count + 1 \in Int /\ h.left - 1 \in Int
  BY DEF ThreadState
<1>2. PICK c, l \in Int : c = h.count + 1 /\ l = h.left - 1
  BY <1>1
<1>3. [h EXCEPT !.mask = m, !.at = a] \in ThreadState
  BY DEF ThreadState
<1>4. PICK g \in ThreadState : g = [h EXCEPT !.mask = m, !.at = a]
  BY <1>3
<1>5. [g EXCEPT !.count = c] \in ThreadState
  BY <1>2 DEF ThreadState
<1>6. PICK f \in ThreadState : f = [g EXCEPT !.count = c]
  BY <1>5
<1>7. [f EXCEPT !.left = l] \in ThreadState
  BY <1>2 DEF ThreadState
<1>8. PICK s \in ThreadState : s = [f EXCEPT !.left = l]
  BY <1>7
<1>9. Met(h, m, a) = s
  BY <1>2, <1>4, <1>6, <1>8 DEF ThreadState, Met
<1>10. /\ s.at = a /\ s.mask = m /\ s.left = h.left - 1
       /\ s.task = h.task /\ s.deps = h.deps /\ s.out = h.out
  BY <1>2, <1>4, <1>6, <1>8 DEF ThreadState
<1> QED BY <1>8, <1>9, <1>10

\* A live descriptor tells its rank of an output more.
Forward(d, r) == desc' = [desc EXCEPT ![d].forwarded = @ \cup {r}]

LEMMA ForwardEffect ==
    ASSUME DescType, NEW d \in Tasks, NEW r \in Nodes, Forward(d, r)
    PROVE  /\ desc' \in [Tasks -> Descriptor]
           /\ \A e \in Tasks : e # d => desc'[e] = desc[e]
           /\ desc'[d].task = desc[d].task /\ desc'[d].output = desc[d].output
           /\ desc'[d].count = desc[d].count /\ desc'[d].sent = desc[d].sent
           /\ desc'[d].forwarded = desc[d].forwarded \cup {r}
           /\ \A e \in Tasks : Live(e)' <=> Live(e)
           /\ \A e \in Tasks : desc'[e].task = desc[e].task /\ desc[e].forwarded \subseteq desc'[e].forwarded
<1>1. desc[d] \in Descriptor
  BY DEF DescType
<1>2. [desc[d] EXCEPT !.forwarded = desc[d].forwarded \cup {r}] \in Descriptor
  BY <1>1 DEF Descriptor
<1>3. desc' \in [Tasks -> Descriptor]
  BY <1>2 DEF Forward, DescType
<1>4. \A e \in Tasks : e # d => desc'[e] = desc[e]
  BY DEF Forward, DescType
<1>5. /\ desc'[d].task = desc[d].task /\ desc'[d].output = desc[d].output
      /\ desc'[d].count = desc[d].count /\ desc'[d].sent = desc[d].sent
      /\ desc'[d].forwarded = desc[d].forwarded \cup {r}
  BY <1>1 DEF Forward, DescType, Descriptor
<1>6. ASSUME NEW e \in Tasks PROVE Live(e)' <=> Live(e)
  BY <1>4, <1>5 DEF Live
<1>7. \A e \in Tasks : desc'[e].task = desc[e].task /\ desc[e].forwarded \subseteq desc'[e].forwarded
  BY <1>4, <1>5
<1> QED BY <1>3, <1>4, <1>5, <1>6, <1>7

\* The rank the loop meets is one of a pair it had not met.
LEMMA MeetsPair ==
    ASSUME TransferInv, NEW w \in Threads, thread[w].at \in {"rank", "send"},
           NEW r, r = Min(thread[w].mask)
    PROVE  LET t == thread[w].task
               d == thread[w].deps
           IN  /\ t \in Tasks /\ Rank[t] = w[1] /\ status[t] = "done"
               /\ d \in Tasks /\ Rank[d] = w[1] /\ desc[d].task = t /\ Live(d)
               /\ r \in Nodes /\ r \in thread[w].mask /\ thread[w].out \in Outputs
               /\ r \in RanksOf(t, thread[w].out)
               /\ <<thread[w].out, r>> \in Unmet(w) /\ <<thread[w].out, r>> \in Pairs(t)
               /\ IsFiniteSet(Unmet(w)) /\ thread[w].left = Cardinality(Unmet(w))
               /\ thread[w].mask \in SUBSET Nodes
<1>1. /\ ThreadOf(w) /\ LoopOf(w) /\ thread[w] \in ThreadState
  BY DEF TransferInv, LocalInv, ThreadInv, LoopInv, ThreadType
<1> DEFINE t == thread[w].task
           d == thread[w].deps
<1>2. /\ t \in Tasks /\ Rank[t] = w[1] /\ status[t] = "done"
      /\ d \in Tasks /\ Rank[d] = w[1] /\ thread[w].left = Cardinality(Unmet(w))
      /\ thread[w].left # 0 => OwnDesc(w)
      /\ thread[w].mask # {} /\ thread[w].mask \subseteq RanksOf(t, thread[w].out)
  BY <1>1 DEF ThreadOf, LoopOf, InLoop
<1>3. thread[w].mask \in SUBSET Nodes /\ thread[w].out \in Outputs
  BY <1>1 DEF ThreadState
<1>4. thread[w].mask \in SUBSET Nat
  BY <1>3, SetsFinite
<1>5. r \in thread[w].mask
  BY <1>2, <1>4, HasMin
<1>6. <<thread[w].out, r>> \in Unmet(w) /\ <<thread[w].out, r>> \in Pairs(t) /\ r \in RanksOf(t, thread[w].out) /\ r \in Nodes
  BY <1>2, <1>3, <1>5 DEF Unmet, Pairs
<1>7. Unmet(w) \in SUBSET Pairs(t)
  BY DEF Unmet
<1>8. IsFiniteSet(Unmet(w))
  BY <1>2, <1>7, PairsFinite, FS_Subset
<1>9. Cardinality(Unmet(w)) # 0
  BY <1>6, <1>8, FS_EmptySet
<1>10. desc[d].task = t /\ Live(d)
  BY <1>2, <1>9 DEF OwnDesc, Live
<1> QED BY <1>2, <1>3, <1>5, <1>6, <1>8, <1>10

\* The loop after a rank.
LEMMA NextBitThread ==
    ASSUME TransferInv, NEW w \in Threads, thread[w].at \in {"rank", "send"},
           NEW r, r = Min(thread[w].mask), NextBit(w, r)
    PROVE  \E s \in ThreadState :
              /\ thread' = [thread EXCEPT ![w] = s]
              /\ s.at \in {"rank", "counted"} /\ s.task = thread[w].task /\ s.deps = thread[w].deps
              /\ s.out = thread[w].out
              /\ ThreadType'
              /\ thread'[w] = s /\ \A v \in Threads : v # w => thread'[v] = thread[v]
              /\ Unmet(w)' = Unmet(w) \ {<<thread[w].out, r>>}
              /\ s.left = Cardinality(Unmet(w)')
              /\ IF s.at = "rank" THEN s.mask # {} /\ s.mask \subseteq RanksOf(s.task, s.out) ELSE s.mask = {}
<1> PICK h, a : h = thread[w] /\ a = IF thread[w].mask = {r} THEN "counted" ELSE "rank"
  OBVIOUS
<1>2. /\ h.task \in Tasks /\ h.out \in Outputs /\ r \in h.mask /\ r \in Nodes
      /\ <<h.out, r>> \in Unmet(w) /\ IsFiniteSet(Unmet(w)) /\ h.left = Cardinality(Unmet(w))
      /\ h.mask \in SUBSET Nodes
  BY MeetsPair
<1>3. h \in ThreadState /\ a \in Places /\ ThreadType /\ LoopOf(w)
  BY DEF TransferInv, LocalInv, ThreadType, LoopInv, Places
<1> PICK m : m = h.mask \ {r}
  OBVIOUS
<1> DEFINE s == Met(h, m, a)
<1>4. thread' = [thread EXCEPT ![w] = s]
  BY DEF NextBit, Met
<1>5. /\ s \in ThreadState
      /\ s.at = a /\ s.mask = h.mask \ {r} /\ s.left = h.left - 1
      /\ s.task = h.task /\ s.deps = h.deps /\ s.out = h.out
  <2>1. m \in SUBSET Nodes
    BY <1>2
  <2>2. /\ s \in ThreadState
        /\ s.at = a /\ s.mask = m /\ s.left = h.left - 1
        /\ s.task = h.task /\ s.deps = h.deps /\ s.out = h.out
    BY <1>3, <2>1, NextType
  <2> QED BY <2>2
<1> HIDE DEF s
<1>6. ThreadType' /\ thread'[w] = s /\ \A v \in Threads : v # w => thread'[v] = thread[v]
  BY <1>3, <1>4, <1>5, ThreadChange
<1>7. Unmet(w)' = Unmet(w) \ {<<h.out, r>>}
  <2>1. ASSUME NEW p \in Pairs(h.task)
        PROVE  (p[1] > s.out \/ (p[1] = s.out /\ p[2] \in s.mask))
                <=> (p[1] > h.out \/ (p[1] = h.out /\ p[2] \in h.mask)) /\ p # <<h.out, r>>
    <3>1. p = <<p[1], p[2]>> /\ p[1] \in Outputs /\ h.out \in Outputs
      BY <1>2 DEF Pairs
    <3>2. p[1] \in Nat /\ h.out \in Nat
      BY <3>1, SetsFinite
    <3> PICK x, y, o : x = p[1] /\ y = p[2] /\ o = h.out
      OBVIOUS
    <3>3. p = <<x, y>> /\ x \in Nat /\ o \in Nat /\ (p # <<h.out, r>> <=> x # o \/ y # r)
      BY <3>1, <3>2
    <3>4. (x > o \/ (x = o /\ y \in h.mask \ {r}))
           <=> (x > o \/ (x = o /\ y \in h.mask)) /\ (x # o \/ y # r)
      BY <3>3
    <3> QED BY <1>5, <3>3, <3>4
  <2>2. Unmet(w)' = {p \in Pairs(h.task) : p[1] > s.out \/ (p[1] = s.out /\ p[2] \in s.mask)}
    BY <1>5, <1>6 DEF Unmet
  <2>3. Unmet(w) = {p \in Pairs(h.task) : p[1] > h.out \/ (p[1] = h.out /\ p[2] \in h.mask)}
    BY DEF Unmet
  <2> QED BY <2>1, <2>2, <2>3
<1>8. s.left = Cardinality(Unmet(w)')
  <2>1. Cardinality(Unmet(w) \ {<<h.out, r>>}) = Cardinality(Unmet(w)) - 1
    <3>1. IsFiniteSet(Unmet(w)) /\ <<h.out, r>> \in Unmet(w)
      BY <1>2
    <3> QED BY <3>1, FS_RemoveElement
  <2> QED BY <1>2, <1>5, <1>7, <2>1
<1>9. IF s.at = "rank" THEN s.mask # {} /\ s.mask \subseteq RanksOf(s.task, s.out) ELSE s.mask = {}
  <2>1. h.mask \subseteq RanksOf(h.task, h.out)
    BY <1>3 DEF LoopOf, InLoop
  <2> QED BY <1>2, <1>5, <2>1
<1>10. s.at \in {"rank", "counted"}
  BY <1>5
<1> QED BY <1>4, <1>5, <1>6, <1>7, <1>8, <1>9, <1>10

LEMMA NextRankStep ==
    ASSUME TransferInv, NEW w \in Threads, NextRank(w)
    PROVE  TransferInv'
<1> PICK r, t, d, n : r = Min(thread[w].mask) /\ t = thread[w].task /\ d = thread[w].deps /\ n = w[1]
  OBVIOUS
<1>1. thread[w].at = "rank" /\ n \in Nodes
  BY DEF NextRank, Threads
<1>2. /\ t \in Tasks /\ Rank[t] = n /\ status[t] = "done"
      /\ d \in Tasks /\ Rank[d] = n /\ desc[d].task = t /\ Live(d)
      /\ r \in Nodes /\ r \in thread[w].mask /\ thread[w].out \in Outputs
      /\ r \in RanksOf(t, thread[w].out)
      /\ <<thread[w].out, r>> \in Unmet(w) /\ <<thread[w].out, r>> \in Pairs(t)
  BY <1>1, MeetsPair
<1>3. /\ ThreadType /\ ThreadInv /\ LoopInv /\ OnOffInv /\ ThreadsTogether /\ LeftInv /\ FlyingExact /\ TaskType
      /\ CommInv /\ InputsInv /\ RunningInv /\ LoopOf(w) /\ ThreadOf(w)
  BY DEF TransferInv, LocalInv, LoopInv, ThreadInv
<1>4. UNCHANGED <<status, released, freed, desc, freelist, cmds, enabled, act, get, nexttag, net>>
  BY DEF NextRank, descVars, commVars
<1>5. CASE r = n \/ r \in desc[d].forwarded
  <2>1. NextBit(w, r) /\ UNCHANGED todo
    BY <1>5 DEF NextRank
  <2>2. PICK s \in ThreadState :
           /\ thread' = [thread EXCEPT ![w] = s]
           /\ s.at \in {"rank", "counted"} /\ s.task = thread[w].task /\ s.deps = thread[w].deps
           /\ s.out = thread[w].out
           /\ ThreadType'
           /\ thread'[w] = s /\ \A v \in Threads : v # w => thread'[v] = thread[v]
           /\ Unmet(w)' = Unmet(w) \ {<<thread[w].out, r>>}
           /\ s.left = Cardinality(Unmet(w)')
           /\ IF s.at = "rank" THEN s.mask # {} /\ s.mask \subseteq RanksOf(s.task, s.out) ELSE s.mask = {}
    BY <1>1, <2>1, NextBitThread
  <2>3. ThreadOf(w)'
    BY <1>2, <1>4, <2>2 DEF ThreadOf
  <2>4. \A q \in desc[d].forwarded : \E p \in Pairs(t) \ Unmet(w) : p[2] = q
    BY <1>1, <1>2, <1>3 DEF LoopOf, InLoop, OwnDesc
  <2>5. OwnDesc(w)' /\ Pairs(t) \ Unmet(w) \subseteq Pairs(t) \ Unmet(w)'
    BY <1>2, <1>4, <2>2 DEF OwnDesc
  <2>6. LoopOf(w)'
    BY <1>2, <1>4, <2>2, <2>4, <2>5 DEF LoopOf, InLoop
  <2> QED BY <1>1, <1>3, <1>4, <2>1, <2>2, <2>3, <2>6, QuietStep DEF TaskType
<1>6. CASE ~ (r = n \/ r \in desc[d].forwarded)
  <2> DEFINE s == [thread[w] EXCEPT !.at = "send"]
  <2>1. thread' = [thread EXCEPT ![w] = s] /\ todo' = [todo EXCEPT ![n] = @ + 1]
    BY <1>6 DEF NextRank, Goto, IncFlying
  <2>2. /\ s \in ThreadState /\ s.at = "send" /\ s.task = t /\ s.deps = d /\ s.out = thread[w].out
        /\ s.mask = thread[w].mask /\ s.left = thread[w].left
    BY <1>3 DEF ThreadType, ThreadState, Places
  <2> HIDE DEF s
  <2>3. ThreadType' /\ thread'[w] = s /\ \A v \in Threads : v # w => thread'[v] = thread[v]
    BY <1>3, <2>1, <2>2, ThreadChange
  <2>4. ThreadOf(w)'
    BY <1>2, <1>4, <2>2, <2>3 DEF ThreadOf
  <2>5. Unmet(w)' = Unmet(w)
    BY <2>2, <2>3 DEF Unmet
  <2>6. LoopOf(w)'
    <3>1. /\ thread[w].left = Cardinality(Unmet(w)) /\ thread[w].mask \subseteq RanksOf(t, thread[w].out)
          /\ \A q \in desc[d].forwarded : \E p \in Pairs(t) \ Unmet(w) : p[2] = q
      BY <1>1, <1>2, <1>3 DEF LoopOf, InLoop, OwnDesc
    <3>2. OwnDesc(w)'
      BY <1>2, <1>4, <2>2, <2>3 DEF OwnDesc
    <3> QED BY <1>2, <1>4, <1>6, <2>2, <2>3, <2>5, <3>1, <3>2 DEF LoopOf, InLoop
  <2>7. ThreadInv'
    <3>1. \A v \in Threads : v # w /\ s.task # NoTask => thread[v].task # s.task
      BY <1>3, <2>2 DEF ThreadInv
    <3>2. \A v \in Threads : v # w /\ thread[v].at = "release" => status'[thread[v].task] = "running"
      BY <1>3, <1>4 DEF ThreadInv, ThreadOf
    <3> QED BY <1>3, <1>4, <2>1, <2>2, <2>4, <3>1, <3>2, ThreadKept
  <2>8. LoopInv'
    BY <1>3, <1>4, <2>1, <2>2, <2>6, LoopKept
  <2>9. InputsInv' /\ RunningInv'
    <3>1. InputsInv'
      BY <1>3, <1>4, InputsKept
    <3> SUFFICES ASSUME NEW u \in Tasks, status[u] = "running"
                 PROVE  \E v \in Threads : thread'[v].task = u /\ thread'[v].at = "release"
      BY <1>4, <3>1 DEF RunningInv
    <3>2. PICK v \in Threads : thread[v].task = u /\ thread[v].at = "release"
      BY <1>3 DEF RunningInv
    <3> QED BY <1>1, <2>3, <3>2
  <2>10. TaskType' /\ todo'[n] = todo[n] + 1 /\ \A m \in Nodes : m # n => todo'[m] = todo[m]
    BY <1>1, <1>3, <1>4, <2>1 DEF TaskType
  <2>11. OnOffInv' /\ ThreadsTogether' /\ LeftInv'
    <3>1. \A m \in Nodes : m # w[1] => todo'[m] = todo[m] /\ cmds'[m] = cmds[m]
      BY <1>4, <2>10
    <3> QED BY <1>1, <1>3, <1>4, <2>1, <2>2, <3>1, RoundKept
  <2>12. FlyingExact'
    <3>1. ASSUME NEW m \in Nodes PROVE todo'[m] = Untaken(m)' + Flying(m)'
      <4>1. todo[m] = Untaken(m) + Flying(m) /\ Flying(m)' = Flying(m) /\ Waiting(m)' = Waiting(m)
        BY <1>3, <1>4, FlyingIs, FlyingSame DEF Waiting
      <4>2. CASE m # n
        <5>1. Telling(m)' = Telling(m)
          BY <2>3, <4>2 DEF Telling
        <5> QED BY <2>10, <4>1, <4>2, <5>1 DEF Untaken
      <4>3. CASE m = n
        <5>1. Telling(n)' = Telling(n) \cup {w} /\ w \notin Telling(n)
          BY <1>1, <2>2, <2>3 DEF Telling
        <5>2. Cardinality(Telling(n) \cup {w}) = Cardinality(Telling(n)) + 1
          BY <5>1, TellingFinite, FS_AddElement
        <5>3. PICK a, b, f \in Nat : /\ a = Cardinality(Waiting(n)) /\ b = Cardinality(Telling(n))
                                     /\ f = Flying(n)
          BY <1>1, <1>3, UntakenType, FlyingParts DEF CommInv
        <5>4. Untaken(n) = a + b /\ Untaken(n)' = a + (b + 1)
          BY <4>1, <4>3, <5>1, <5>2, <5>3 DEF Untaken
        <5> QED BY <2>10, <4>1, <4>3, <5>3, <5>4
      <4> QED BY <4>2, <4>3
    <3> QED BY <3>1 DEF FlyingExact, Waiting, Untaken
  <2>13. CommInv'
    BY <1>3, <1>4, CommKept
  <2> QED BY <2>3, <2>7, <2>8, <2>9, <2>10, <2>11, <2>12, <2>13 DEF TransferInv, LocalInv
<1> QED BY <1>5, <1>6

LEMMA SendRankStep ==
    ASSUME TransferInv, NEW w \in Threads, SendRank(w)
    PROVE  TransferInv'
<1> PICK r, t, d, n : r = Min(thread[w].mask) /\ t = thread[w].task /\ d = thread[w].deps /\ n = w[1]
  OBVIOUS
<1>1. thread[w].at = "send" /\ n \in Nodes
  BY DEF SendRank, Threads
<1>2. /\ t \in Tasks /\ Rank[t] = n /\ status[t] = "done"
      /\ d \in Tasks /\ Rank[d] = n /\ desc[d].task = t /\ Live(d)
      /\ r \in Nodes /\ r \in thread[w].mask /\ thread[w].out \in Outputs
      /\ r \in RanksOf(t, thread[w].out)
      /\ <<thread[w].out, r>> \in Unmet(w) /\ <<thread[w].out, r>> \in Pairs(t)
  BY <1>1, MeetsPair
<1>3. PICK s \in ThreadState :
         /\ thread' = [thread EXCEPT ![w] = s]
         /\ s.at \in {"rank", "counted"} /\ s.task = thread[w].task /\ s.deps = thread[w].deps
         /\ s.out = thread[w].out
         /\ ThreadType'
         /\ thread'[w] = s /\ \A v \in Threads : v # w => thread'[v] = thread[v]
         /\ Unmet(w)' = Unmet(w) \ {<<thread[w].out, r>>}
         /\ s.left = Cardinality(Unmet(w)')
         /\ IF s.at = "rank" THEN s.mask # {} /\ s.mask \subseteq RanksOf(s.task, s.out) ELSE s.mask = {}
  <2>1. NextBit(w, r)
    BY DEF SendRank
  <2> QED BY <1>1, <2>1, NextBitThread
<1>4. /\ ThreadType /\ ThreadInv /\ LoopInv /\ OnOffInv /\ ThreadsTogether /\ LeftInv /\ FlyingExact /\ TaskType
      /\ DescType /\ CommType /\ IsFiniteSet(net) /\ LiveInv /\ SentInv /\ SingleInv /\ FreeInv /\ CommandInv
      /\ MessageInv /\ ServingInv /\ OnePlace /\ ReceiveInv /\ AcceptInv /\ ReleasedOnce /\ InputsInv /\ RunningInv
      /\ LoopOf(w)
  BY DEF TransferInv, LocalInv, CommInv, LoopInv
<1>5. UNCHANGED <<todo, status, released, freed, freelist, enabled, act, get, nexttag, net>>
  BY DEF SendRank, taskVars, commVars
<1>6. ThreadOf(w)'
  BY <1>2, <1>3, <1>5 DEF ThreadOf
<1>7. \A q \in desc[d].forwarded : \E p \in Pairs(t) \ Unmet(w) : p[2] = q
  BY <1>1, <1>2, <1>4 DEF LoopOf, InLoop, OwnDesc
<1>8. r # n /\ r \notin desc[d].forwarded
  BY <1>1, <1>2, <1>4 DEF LoopOf, InLoop, OwnDesc
<1> PICK c : c = TheActivation(r, d)
  OBVIOUS
<1>9. Forward(d, r) /\ cmds' = [cmds EXCEPT ![n] = Append(@, c)]
  BY DEF SendRank, DequeueSend, Forward, TheActivation
<1>10. c \in Command /\ c.action = "activate" /\ c.rank = r /\ c.deps = d
  BY <1>2 DEF Command, TheActivation
<1>11. /\ desc' \in [Tasks -> Descriptor]
       /\ \A e \in Tasks : e # d => desc'[e] = desc[e]
       /\ desc'[d].task = desc[d].task /\ desc'[d].output = desc[d].output
       /\ desc'[d].count = desc[d].count /\ desc'[d].sent = desc[d].sent
       /\ desc'[d].forwarded = desc[d].forwarded \cup {r}
       /\ \A e \in Tasks : Live(e)' <=> Live(e)
       /\ \A e \in Tasks : desc'[e].task = desc[e].task /\ desc[e].forwarded \subseteq desc'[e].forwarded
  BY <1>2, <1>4, <1>9, ForwardEffect
<1>12. /\ cmds' \in [Nodes -> Seq(Command)]
       /\ \A m \in Nodes : m # n => cmds'[m] = cmds[m]
       /\ Len(cmds[n]) \in Nat /\ DOMAIN cmds[n] = 1..Len(cmds[n])
       /\ DOMAIN cmds'[n] = 1..(Len(cmds[n]) + 1)
       /\ \A i \in DOMAIN cmds[n] : cmds'[n][i] = cmds[n][i]
       /\ cmds'[n][Len(cmds[n]) + 1] = c
       /\ \A e \in Tasks, q \in Nodes :
             Queued(e, q)' <=> Queued(e, q) \/ (Rank[e] = n /\ c = TheActivation(q, e))
       /\ \A m \in Nodes : m # n => Activations(cmds[m])' = Activations(cmds[m])
       /\ Activations(cmds[n])' = Activations(cmds[n]) \cup {Len(cmds[n]) + 1}
       /\ Len(cmds[n]) + 1 \notin Activations(cmds[n])
  <2>1. cmds' = [cmds EXCEPT ![n] = Append(@, c)]
    BY <1>9
  <2>2. CommType /\ n \in Nodes /\ c \in Command /\ c.action = "activate"
    BY <1>1, <1>4, <1>10
  <2>3. Appended(n, c)
    BY <2>1, <2>2, AppendCommand
  <2> QED BY <2>2, <2>3 DEF Appended
<1>13. /\ \A e \in Tasks, q \in Nodes : Queued(e, q)' <=> Queued(e, q) \/ (e = d /\ q = r)
  <2>1. \A e \in Tasks, q \in Nodes : c = TheActivation(q, e) <=> e = d /\ q = r
    BY <1>10, ActivationType
  <2> QED BY <1>2, <1>12, <2>1
<1>14. \A e \in Tasks, q \in Nodes :
         /\ Announced(e, q)' <=> Announced(e, q)
         /\ Asked(e, q)' <=> Asked(e, q)
         /\ \A j \in Slots : Serving(e, q, j)' <=> Serving(e, q, j)
  BY <1>5 DEF Announced, Asked, Serving
<1>15. ~ Queued(d, r) /\ ~ Announced(d, r) /\ ~ Asked(d, r) /\ \A j \in Slots : ~ Serving(d, r, j)
  <2>1. ~ Queued(d, r)
    <3> SUFFICES ASSUME NEW i \in DOMAIN cmds[n], cmds[n][i] = TheActivation(r, d) PROVE FALSE
      BY <1>2, QueuedIs
    <3>1. cmds[n][i].action = "activate" /\ cmds[n][i].rank = r /\ cmds[n][i].deps = d
      BY DEF TheActivation
    <3> QED BY <1>1, <1>4, <1>8, <3>1 DEF CommandInv
  <2>2. ~ Announced(d, r) /\ ~ Asked(d, r)
    BY <1>4, <1>8 DEF MessageInv, Announced, Asked
  <2>3. \A j \in Slots : ~ Serving(d, r, j)
    BY <1>1, <1>2, <1>4, <1>8 DEF ServingInv, Serving
  <2> QED BY <2>1, <2>2, <2>3
<1>16. DescType' /\ CommType' /\ IsFiniteSet(net)' /\ TaskType'
  <2>1. DescType'
    BY <1>1, <1>4, <1>5, <1>9, <1>11 DEF DescType
  <2>2. CommType'
    BY <1>1, <1>4, <1>5, <1>9, <1>12 DEF CommType
  <2>3. IsFiniteSet(net)' /\ TaskType'
    BY <1>1, <1>4, <1>5, <1>9 DEF TaskType
  <2> QED BY <2>1, <2>2, <2>3
<1>17. LiveInv'
  <2> SUFFICES ASSUME NEW e \in Tasks, Live(e)
               PROVE  /\ status[desc'[e].task] = "done"
                      /\ desc'[e].output = RankBits(desc'[e].task, Outputs)
                      /\ desc'[e].count = Cardinality(Pairs(desc'[e].task))
                      /\ \A q \in desc'[e].forwarded : q # Rank[e] /\ Needed(desc'[e].task, q) # {}
    BY <1>5, <1>11 DEF LiveInv
  <2>1. CASE e # d
    BY <1>4, <1>11, <2>1 DEF LiveInv
  <2>2. CASE e = d
    <3>1. thread[w].out \in Needed(t, r)
      BY <1>2 DEF Needed
    <3>2. r # Rank[d] /\ Needed(desc'[d].task, r) # {}
      BY <1>2, <1>8, <1>11, <3>1
    <3>3. /\ status[desc[d].task] = "done" /\ desc[d].output = RankBits(desc[d].task, Outputs)
          /\ desc[d].count = Cardinality(Pairs(desc[d].task))
          /\ \A q \in desc[d].forwarded : q # Rank[d] /\ Needed(desc[d].task, q) # {}
      BY <1>4, <1>8, <1>11, <2>2 DEF LiveInv
    <3> QED BY <1>11, <2>2, <3>2, <3>3
  <2> QED BY <2>1, <2>2
<1>18. SentInv'
  <2> SUFFICES ASSUME NEW e \in Tasks, Live(e) PROVE desc'[e].sent = Cardinality(Served(e)')
    BY <1>11 DEF SentInv
  <2>1. Served(e)' = {p \in Pairs(desc[e].task) : p[2] \in desc'[e].forwarded /\ ~ Waits(e, p[2], p[1])'}
    BY <1>11 DEF Served
  <2>2. Served(e) = {p \in Pairs(desc[e].task) : p[2] \in desc[e].forwarded /\ ~ Waits(e, p[2], p[1])}
    BY DEF Served
  <2>3. ASSUME NEW q \in Nodes, NEW k \in Outputs
        PROVE  (q \in desc'[e].forwarded /\ ~ Waits(e, q, k)') <=> (q \in desc[e].forwarded /\ ~ Waits(e, q, k))
    <3>1. CASE e = d /\ q = r
      <4>1. Waits(d, r, k)'
        BY <1>2, <1>13 DEF Waits
      <4> QED BY <1>8, <3>1, <4>1
    <3>2. CASE ~ (e = d /\ q = r)
      <4>1. Waits(e, q, k)' <=> Waits(e, q, k)
        BY <1>5, <1>13, <1>14, <3>2 DEF Waits
      <4>2. q \in desc'[e].forwarded <=> q \in desc[e].forwarded
        BY <1>11, <3>2
      <4> QED BY <4>1, <4>2
    <3> QED BY <3>1, <3>2
  <2>4. \A p \in Pairs(desc[e].task) : p[2] \in Nodes /\ p[1] \in Outputs
    BY DEF Pairs
  <2>5. Served(e)' = Served(e)
    BY <2>1, <2>2, <2>3, <2>4
  <2>6. desc'[e].sent = desc[e].sent
    BY <1>11
  <2> QED BY <1>4, <2>5, <2>6 DEF SentInv
<1>19. SingleInv'
  BY <1>4, <1>11 DEF SingleInv
<1>20. FreeInv'
  <2>1. desc[d].task # NoTask
    BY <1>2, BlankType, RemoteGraphAssumption DEF Live
  <2>2. \A e \in Tasks : status[e] # "done" => desc'[e].task = NoTask
    BY <1>4, <1>11, <2>1 DEF FreeInv
  <2>3. \A m \in Nodes : \A i \in DOMAIN freelist[m] :
           /\ Rank[freelist[m][i]] = m
           /\ status[freelist[m][i]] = "done"
           /\ desc'[freelist[m][i]].task = NoTask
           /\ \A j \in DOMAIN freelist[m] : freelist[m][i] = freelist[m][j] => i = j
    <3> SUFFICES ASSUME NEW m \in Nodes, NEW i \in DOMAIN freelist[m]
                 PROVE  /\ Rank[freelist[m][i]] = m
                        /\ status[freelist[m][i]] = "done"
                        /\ desc'[freelist[m][i]].task = NoTask
                        /\ \A j \in DOMAIN freelist[m] : freelist[m][i] = freelist[m][j] => i = j
      OBVIOUS
    <3>1. freelist[m] \in Seq(Tasks)
      BY <1>4 DEF DescType
    <3>2. freelist[m][i] \in Tasks
      BY <3>1
    <3> QED BY <1>4, <1>11, <2>1, <3>2 DEF FreeInv
  <2> QED BY <1>5, <2>2, <2>3 DEF FreeInv
<1>21. Grows
  BY <1>11 DEF Grows
<1>22. MessageInv' /\ ServingInv'
  BY <1>4, <1>5, <1>21, MessageKept, ServingKept
<1>23. CommandInv'
  <2> PICK q : q = cmds'
    OBVIOUS
  <2>1. ASSUME NEW m \in Nodes, NEW i \in DOMAIN q[m], q[m][i].action = "activate"
        PROVE  /\ Rank[q[m][i].deps] = m /\ Live(q[m][i].deps)'
               /\ q[m][i].rank \in desc'[q[m][i].deps].forwarded
               /\ \A j \in DOMAIN q[m] : q[m][i] = q[m][j] => i = j
    <3>1. q[m] \in Seq(Command) /\ q[m][i] \in Command
      BY <1>12
    <3>2. q[m][i].deps \in Tasks
      BY <2>1, <3>1, ActivationType
    <3>3. CASE i \in DOMAIN cmds[m] /\ cmds[m][i] = q[m][i]
      <4>1. /\ Rank[q[m][i].deps] = m /\ Live(q[m][i].deps)
            /\ q[m][i].rank \in desc[q[m][i].deps].forwarded
            /\ \A j \in DOMAIN cmds[m] : q[m][i] = cmds[m][j] => i = j
        BY <1>4, <2>1, <3>3 DEF CommandInv
      <4>2. q[m][i] # c
        BY <1>8, <1>10, <4>1
      <4>3. ASSUME NEW j \in DOMAIN q[m], q[m][i] = q[m][j] PROVE i = j
        <5>1. j \in DOMAIN cmds[m] /\ cmds[m][j] = q[m][j]
          <6>1. CASE m # n
            BY <1>12, <4>3, <6>1
          <6>2. CASE m = n
            <7>1. j \in DOMAIN cmds[n] \/ j = Len(cmds[n]) + 1
              BY <1>12, <4>3, <6>2
            <7>2. j # Len(cmds[n]) + 1
              BY <1>12, <4>2, <4>3, <6>2
            <7> QED BY <1>12, <6>2, <7>1, <7>2
          <6> QED BY <6>1, <6>2
        <5> QED BY <4>1, <4>3, <5>1
      <4> QED BY <1>11, <3>2, <4>1, <4>3
    <3>4. CASE m = n /\ i = Len(cmds[n]) + 1
      <4>1. q[m][i] = c
        BY <1>12, <3>4
      <4>2. ASSUME NEW j \in DOMAIN q[m], q[m][j] = c PROVE i = j
        <5>1. CASE j \in DOMAIN cmds[n]
          <6>1. cmds[n][j] = TheActivation(r, d)
            BY <1>12, <3>4, <4>2, <5>1
          <6> QED BY <1>2, <1>15, <5>1, <6>1, QueuedIs
        <5>2. CASE j \notin DOMAIN cmds[n]
          BY <1>12, <3>4, <5>2
        <5> QED BY <5>1, <5>2
      <4> QED BY <1>2, <1>10, <1>11, <3>4, <4>1, <4>2
    <3> QED BY <1>12, <3>3, <3>4
  <2> QED BY <2>1 DEF CommandInv
<1>24. OnePlace'
  BY <1>4, <1>13, <1>14, <1>15 DEF OnePlace
<1>25. ReceiveInv' /\ ReleasedOnce'
  BY <1>4, <1>5 DEF ReceiveInv, Receiving, ReleasedOnce
<1>26. AcceptInv'
  <2>1. \A u, q : Accepted(u, q)' <=> Accepted(u, q)
    BY <1>5 DEF Accepted, Receiving
  <2> SUFFICES ASSUME NEW u \in Tasks, NEW q \in Nodes, Accepted(u, q)
               PROVE  /\ status[u] = "done"
                      /\ \A e \in Tasks : q # Rank[u] /\ Live(e) /\ desc[e].task = u =>
                            q \in desc'[e].forwarded /\ ~ Queued(e, q)' /\ ~ Announced(e, q)'
    BY <1>5, <1>11, <2>1 DEF AcceptInv
  <2>2. status[u] = "done" /\ \A e \in Tasks : q # Rank[u] /\ Live(e) /\ desc[e].task = u =>
                            q \in desc[e].forwarded /\ ~ Queued(e, q) /\ ~ Announced(e, q)
    BY <1>4 DEF AcceptInv
  <2> QED BY <1>2, <1>8, <1>11, <1>13, <1>14, <2>2
<1>27. CommInv'
  BY <1>16, <1>17, <1>18, <1>19, <1>20, <1>22, <1>23, <1>24, <1>25, <1>26 DEF CommInv
<1>28. ThreadInv'
  <2>1. \A v \in Threads : v # w /\ s.task # NoTask => thread[v].task # s.task
    BY <1>3, <1>4 DEF ThreadInv
  <2>2. \A v \in Threads : v # w /\ thread[v].at = "release" => status'[thread[v].task] = "running"
    BY <1>4, <1>5 DEF ThreadInv, ThreadOf
  <2> QED BY <1>3, <1>4, <1>5, <1>6, <2>1, <2>2, ThreadKept
<1>29. LoopOf(w)'
  <2>1. OwnDesc(w)' /\ Pairs(t) \ Unmet(w) \subseteq Pairs(t) \ Unmet(w)'
        /\ <<thread[w].out, r>> \in Pairs(t) \ Unmet(w)'
    BY <1>2, <1>3, <1>11 DEF OwnDesc
  <2>2. \A q \in desc'[d].forwarded : \E p \in Pairs(t) \ Unmet(w)' : p[2] = q
    <3> SUFFICES ASSUME NEW q \in desc'[d].forwarded PROVE \E p \in Pairs(t) \ Unmet(w)' : p[2] = q
      OBVIOUS
    <3>1. CASE q \in desc[d].forwarded
      BY <1>7, <2>1, <3>1
    <3>2. CASE q = r
      <4>1. <<thread[w].out, r>>[2] = q
        BY <3>2
      <4> QED BY <2>1, <4>1
    <3> QED BY <1>11, <3>1, <3>2
  <2> QED BY <1>2, <1>3, <2>1, <2>2 DEF LoopOf, InLoop
<1>30. LoopInv'
  <2>1. ASSUME NEW v \in Threads, v # w PROVE LoopOf(v)'
    <3>1. thread'[v] = thread[v] /\ LoopOf(v)
      BY <1>3, <1>4, <2>1 DEF LoopInv
    <3>2. CASE InLoop(v)
      <4>1. thread[v].deps \in Tasks
        BY <3>1, <3>2 DEF LoopOf
      <4>2. CASE thread[v].deps = d
        <5>1. thread[v].task # t
          BY <1>2, <1>4, <2>1, RemoteGraphAssumption DEF ThreadInv
        <5>2. ~ OwnDesc(v) /\ desc'[d].task # thread[v].task
          BY <1>2, <1>11, <4>2, <5>1 DEF OwnDesc
        <5> QED BY <3>1, <4>2, <5>2, LoopOfKept
      <4>3. CASE thread[v].deps # d
        BY <1>11, <3>1, <4>1, <4>3, LoopOfKept
      <4> QED BY <4>2, <4>3
    <3> QED BY <3>1, <3>2, LoopOfKept
  <2> QED BY <1>29, <2>1 DEF LoopInv
<1>31. InputsInv' /\ RunningInv'
  <2>1. InputsInv'
    BY <1>4, <1>5, InputsKept
  <2> SUFFICES ASSUME NEW u \in Tasks, status[u] = "running"
               PROVE  \E v \in Threads : thread'[v].task = u /\ thread'[v].at = "release"
    BY <1>5, <2>1 DEF RunningInv
  <2>2. PICK v \in Threads : thread[v].task = u /\ thread[v].at = "release"
    BY <1>4 DEF RunningInv
  <2> QED BY <1>1, <1>3, <2>2
<1>32. OnOffInv' /\ ThreadsTogether' /\ LeftInv'
  <2>1. \A m \in Nodes : m # w[1] => todo'[m] = todo[m] /\ cmds'[m] = cmds[m]
    BY <1>5, <1>12
  <2>2. \A i \in DOMAIN cmds'[w[1]] : cmds'[w[1]][i].action # "activate" =>
             i \in DOMAIN cmds[w[1]] /\ cmds'[w[1]][i] = cmds[w[1]][i]
    BY <1>10, <1>12
  <2> QED BY <1>1, <1>3, <1>4, <1>5, <2>1, <2>2, RoundKept
<1>33. FlyingExact'
  <2> SUFFICES ASSUME NEW m \in Nodes PROVE todo'[m] = Untaken(m)' + Flying(m)'
    BY DEF FlyingExact, Waiting, Untaken
  <2>1. todo'[m] = Untaken(m) + Flying(m) /\ Waiting(m)' = Waiting(m)
    BY <1>4, <1>5, FlyingIs DEF Waiting
  <2>2. ActsFrom(m)' = ActsFrom(m) /\ GetsTo(m)' = GetsTo(m) /\ BusySlots(m)' = BusySlots(m)
    BY <1>5 DEF ActsFrom, GetsTo, BusySlots
  <2>3. CASE m # n
    <3>1. Flying(m)' = Flying(m)
      BY <1>12, <2>2, <2>3, FlyingSum
    <3>2. Telling(m)' = Telling(m)
      BY <1>1, <1>3, <2>3 DEF Telling
    <3>3. Untaken(m)' = Untaken(m)
      BY <2>1, <3>2 DEF Untaken
    <3> QED BY <2>1, <3>1, <3>3
  <2>4. CASE m = n
    <3>1. /\ IsFiniteSet(Activations(cmds[n])) /\ Cardinality(Activations(cmds[n])) \in Nat
          /\ Cardinality(ActsFrom(n)) \in Nat /\ Cardinality(GetsTo(n)) \in Nat
          /\ Cardinality(BusySlots(n)) \in Nat /\ Flying(n) \in Nat
      BY <1>1, <1>4, FlyingParts
    <3>2. Cardinality(Activations(cmds[n])') = Cardinality(Activations(cmds[n])) + 1
      <4>1. Cardinality(Activations(cmds[n]) \cup {Len(cmds[n]) + 1}) = Cardinality(Activations(cmds[n])) + 1
        BY <1>12, <3>1, FS_AddElement
      <4> QED BY <1>12, <4>1
    <3>3. Flying(n)' = Flying(n) + 1
      <4> PICK x, y, z, u : /\ x = Cardinality(Activations(cmds[n])) /\ y = Cardinality(ActsFrom(n))
                            /\ z = Cardinality(GetsTo(n)) /\ u = Cardinality(BusySlots(n))
        OBVIOUS
      <4>1. Flying(n) = x + y + z + u /\ Flying(n)' = (x + 1) + y + z + u
        BY <2>2, <2>4, <3>2, FlyingSum
      <4>2. x \in Nat /\ y \in Nat /\ z \in Nat /\ u \in Nat
        BY <3>1
      <4> QED BY <4>1, <4>2
    <3>4. w \in Telling(n) /\ Telling(n)' = Telling(n) \ {w}
      BY <1>1, <1>3 DEF Telling
    <3>5. Cardinality(Telling(n) \ {w}) = Cardinality(Telling(n)) - 1
      BY <3>4, TellingFinite, FS_RemoveElement
    <3>6. Untaken(n)' = Untaken(n) - 1
      <4> PICK x, y, z : /\ x = Cardinality(Waiting(n)) /\ y = Cardinality(Telling(n))
                         /\ z = Cardinality(Telling(n) \ {w})
        OBVIOUS
      <4>1. Untaken(n) = x + y /\ Untaken(n)' = x + z
        BY <2>1, <2>4, <3>4 DEF Untaken
      <4>2. x \in Nat /\ y \in Nat /\ z = y - 1
        BY <3>5, UntakenType
      <4> QED BY <4>1, <4>2
    <3>7. Untaken(n) \in Nat
      BY UntakenType
    <3> QED BY <2>1, <2>4, <3>1, <3>3, <3>6, <3>7
  <2> QED BY <2>3, <2>4
<1> QED BY <1>3, <1>4, <1>6, <1>16, <1>27, <1>28, <1>30, <1>31, <1>32, <1>33 DEF TransferInv, LocalInv

-----------------------------------------------------------------------------
(* The end of a task.                                                      *)

\* The first descriptor of the free list belongs to no task, and leaves it.
LEMMA PopEffect ==
    ASSUME DescType, FreeInv, NEW n \in Nodes, freelist[n] # <<>>, PopFree(n),
           NEW d, d = Head(freelist[n])
    PROVE  /\ d \in Tasks /\ Rank[d] = n /\ desc[d].task = NoTask /\ status[d] = "done"
           /\ freelist' \in [Nodes -> Seq(Tasks)]
           /\ \A m \in Nodes : \A i \in DOMAIN freelist'[m] :
                 /\ freelist'[m][i] \in Tasks /\ freelist'[m][i] # d
                 /\ Rank[freelist'[m][i]] = m
                 /\ status[freelist'[m][i]] = "done"
                 /\ desc[freelist'[m][i]].task = NoTask
                 /\ \A j \in DOMAIN freelist'[m] : freelist'[m][i] = freelist'[m][j] => i = j
<1>1. \A m \in Nodes : m # n => freelist'[m] = freelist[m]
  BY DEF PopFree, DescType
<1>2. \A m \in Nodes : freelist[m] \in Seq(Tasks)
  BY DEF DescType
<1>3. ASSUME NEW m \in Nodes, NEW i \in DOMAIN freelist[m]
      PROVE  /\ freelist[m][i] \in Tasks
             /\ Rank[freelist[m][i]] = m
             /\ status[freelist[m][i]] = "done"
             /\ desc[freelist[m][i]].task = NoTask
             /\ \A j \in DOMAIN freelist[m] : freelist[m][i] = freelist[m][j] => i = j
  BY <1>2 DEF FreeInv
<1>4. freelist'[n] = Tail(freelist[n])
  BY DEF PopFree, DescType
<1> PICK q, p : q = freelist[n] /\ p = freelist'[n]
  OBVIOUS
<1>5. q \in Seq(Tasks) /\ q # <<>> /\ p = Tail(q) /\ d = Head(q)
  BY <1>2, <1>4
<1>6. /\ p \in Seq(Tasks) /\ Len(q) \in Nat \ {0} /\ DOMAIN q = 1..Len(q) /\ DOMAIN p = 1..(Len(q) - 1)
      /\ \A i \in DOMAIN p : p[i] = q[i + 1]
      /\ d = q[1]
  BY <1>5
<1>7. 1 \in DOMAIN q /\ \A i \in DOMAIN p : i + 1 \in DOMAIN q /\ i + 1 # 1 /\ i \in Nat
  BY <1>6
<1>8. d \in Tasks /\ Rank[d] = n /\ desc[d].task = NoTask /\ status[d] = "done"
  BY <1>3, <1>6, <1>7
<1>9. freelist' \in [Nodes -> Seq(Tasks)]
  BY <1>5, <1>6 DEF PopFree, DescType
<1>10. ASSUME NEW m \in Nodes, NEW i \in DOMAIN freelist'[m]
       PROVE  /\ freelist'[m][i] \in Tasks /\ freelist'[m][i] # d
              /\ Rank[freelist'[m][i]] = m
              /\ status[freelist'[m][i]] = "done"
              /\ desc[freelist'[m][i]].task = NoTask
              /\ \A j \in DOMAIN freelist'[m] : freelist'[m][i] = freelist'[m][j] => i = j
  <2>1. CASE m # n
    <3>1. freelist'[m] = freelist[m]
      BY <1>1, <2>1
    <3> QED BY <1>3, <1>8, <1>10, <2>1, <3>1
  <2>2. CASE m = n
    <3>1. i \in DOMAIN p /\ i + 1 \in DOMAIN q /\ p[i] = q[i + 1] /\ i + 1 # 1 /\ i \in Nat
      BY <1>6, <1>7, <1>10, <2>2
    <3>2. /\ q[i + 1] \in Tasks /\ Rank[q[i + 1]] = n /\ status[q[i + 1]] = "done"
          /\ desc[q[i + 1]].task = NoTask
          /\ \A j \in DOMAIN q : q[i + 1] = q[j] => i + 1 = j
      BY <1>3, <3>1
    <3>3. q[i + 1] # d
      BY <1>6, <1>7, <3>1, <3>2
    <3>4. ASSUME NEW j \in DOMAIN p, p[i] = p[j] PROVE i = j
      <4>1. j + 1 \in DOMAIN q /\ p[j] = q[j + 1] /\ j \in Nat
        BY <1>6, <1>7
      <4>2. i + 1 = j + 1
        BY <3>1, <3>2, <3>4, <4>1
      <4> QED BY <3>1, <4>1, <4>2
    <3> QED BY <2>2, <3>1, <3>2, <3>3, <3>4
  <2> QED BY <2>1, <2>2
<1> QED BY <1>8, <1>9, <1>10

\* A descriptor allocated for a task belongs to none, and leaves the free list.
LEMMA AllocatedEffect ==
    ASSUME DescType, FreeInv, NEW n \in Nodes, NEW t \in Tasks, Rank[t] = n, status[t] # "done",
           PopFree(n), NEW d, d = Allocated(n, t)
    PROVE  /\ d \in Tasks /\ Rank[d] = n /\ desc[d].task = NoTask /\ (d = t \/ status[d] = "done")
           /\ freelist' \in [Nodes -> Seq(Tasks)]
           /\ \A m \in Nodes : \A i \in DOMAIN freelist'[m] :
                 /\ freelist'[m][i] \in Tasks /\ freelist'[m][i] # d
                 /\ Rank[freelist'[m][i]] = m
                 /\ status[freelist'[m][i]] = "done"
                 /\ desc[freelist'[m][i]].task = NoTask
                 /\ \A j \in DOMAIN freelist'[m] : freelist'[m][i] = freelist'[m][j] => i = j
<1>1. CASE freelist[n] = <<>>
  <2>1. d = t /\ freelist' = freelist
    BY <1>1 DEF Allocated, PopFree, DescType
  <2>2. desc[t].task = NoTask
    BY DEF FreeInv
  <2>3. ASSUME NEW m \in Nodes, NEW i \in DOMAIN freelist[m]
        PROVE  /\ freelist[m][i] \in Tasks /\ freelist[m][i] # t
               /\ Rank[freelist[m][i]] = m
               /\ status[freelist[m][i]] = "done"
               /\ desc[freelist[m][i]].task = NoTask
               /\ \A j \in DOMAIN freelist[m] : freelist[m][i] = freelist[m][j] => i = j
    BY DEF FreeInv, DescType
  <2> QED BY <2>1, <2>2, <2>3 DEF DescType
<1>2. CASE freelist[n] # <<>>
  <2>1. d = Head(freelist[n])
    BY <1>2 DEF Allocated
  <2> QED BY <1>2, <2>1, PopEffect
<1> QED BY <1>1, <1>2

\* What a task that ends releases on its node.
Finish(w, t, n) ==
    /\ thread[w].at = "release" /\ thread[w].task = t /\ w[1] = n
    /\ status' = [status EXCEPT ![t] = "done"]
    /\ released' = [released EXCEPT ![n] = [e \in Data |->
                       IF e[1] = t /\ LocalSuccessors(t, e[2]) # {} THEN Append(@[e], e) ELSE @[e]]]
    /\ UNCHANGED <<todo, freed, cmds, enabled, act, get, nexttag, net>>

LEMMA FinishEffect ==
    ASSUME TransferInv, NEW w \in Threads, NEW t, NEW n, Finish(w, t, n)
    PROVE  /\ t \in Tasks /\ n \in Nodes /\ Rank[t] = n /\ status[t] = "running" /\ status'[t] = "done"
           /\ \A u \in Tasks : u # t => status'[u] = status[u]
           /\ \A q \in Nodes : ~ Accepted(t, q)
           /\ \A q \in Nodes, e \in Data : q # n \/ e[1] # t => released'[q][e] = released[q][e]
           /\ \A k \in Outputs : released'[n][<<t, k>>] = <<>> \/ released'[n][<<t, k>>] = << <<t, k>> >>
           /\ TaskType'
<1>1. ThreadOf(w) /\ TaskType /\ AcceptInv
  BY DEF TransferInv, LocalInv, CommInv, ThreadInv
<1>2. t \in Tasks /\ n \in Nodes /\ Rank[t] = n /\ status[t] = "running"
  BY <1>1 DEF ThreadOf, Finish, Threads
<1>3. status'[t] = "done" /\ \A u \in Tasks : u # t => status'[u] = status[u]
  BY <1>1, <1>2 DEF Finish, TaskType
<1>4. \A q \in Nodes : ~ Accepted(t, q)
  BY <1>1, <1>2 DEF AcceptInv
<1>5. released[n] \in [Data -> Seq(Data)]
  BY <1>1, <1>2 DEF TaskType
<1> PICK f : f = [e \in Data |-> IF e[1] = t /\ LocalSuccessors(t, e[2]) # {} THEN Append(released[n][e], e) ELSE released[n][e]]
  OBVIOUS
<1>6. released' = [released EXCEPT ![n] = f]
  BY DEF Finish
<1>7. \A e \in Data : f[e] \in Seq(Data) /\ f[e] \in {released[n][e], Append(released[n][e], e)}
                      /\ (e[1] # t => f[e] = released[n][e])
  BY <1>5
<1>8. \A q \in Nodes, e \in Data : q # n \/ e[1] # t => released'[q][e] = released[q][e]
  BY <1>1, <1>2, <1>6, <1>7 DEF TaskType
<1>9. ASSUME NEW k \in Outputs
      PROVE  released'[n][<<t, k>>] = <<>> \/ released'[n][<<t, k>>] = << <<t, k>> >>
  <2>1. released[n][<<t, k>>] = <<>>
    BY <1>2, <1>4 DEF Accepted
  <2>2. <<t, k>> \in Data
    BY <1>2 DEF Data
  <2>3. released'[n][<<t, k>>] = f[<<t, k>>]
    BY <1>1, <1>2, <1>6 DEF TaskType
  <2>4. released'[n][<<t, k>>] = <<>> \/ released'[n][<<t, k>>] = Append(<<>>, <<t, k>>)
    BY <1>7, <2>1, <2>2, <2>3
  <2>5. \A x : Append(<<>>, x) = <<x>>
    OBVIOUS
  <2> QED BY <2>4, <2>5
<1>10. TaskType'
  <2>1. f \in [Data -> Seq(Data)]
    BY <1>7
  <2>2. released' \in [Nodes -> [Data -> Seq(Data)]]
    BY <1>1, <1>6, <2>1 DEF TaskType
  <2> QED BY <1>1, <2>2 DEF Finish, TaskType
<1> QED BY <1>2, <1>3, <1>4, <1>8, <1>9, <1>10

LEMMA AtMostOne ==
    ASSUME NEW x, x = 0 \/ x = 1
    PROVE  x <= 1
OBVIOUS

LEMMA FinishStep ==
    ASSUME TransferInv, NEW w \in Threads, NEW t, NEW n, Finish(w, t, n),
           NEW s \in ThreadState, thread' = [thread EXCEPT ![w] = s],
           s.at \in {"rank", "overrun", "drop"}, s.task = t,
           DescType', LiveInv', SentInv', SingleInv', FreeInv', LoopInv', Grows,
           \A e \in Tasks : Live(e)' => desc'[e].task = t \/ (Live(e) /\ desc'[e] = desc[e])
    PROVE  TransferInv'
<1>1. /\ ThreadType /\ ThreadInv /\ OnOffInv /\ ThreadsTogether /\ LeftInv /\ FlyingExact /\ TaskType
      /\ CommType /\ IsFiniteSet(net) /\ CommandInv
      /\ MessageInv /\ ServingInv /\ OnePlace /\ ReceiveInv /\ AcceptInv /\ ReleasedOnce /\ InputsInv /\ RunningInv
      /\ ThreadOf(w)
  BY DEF TransferInv, LocalInv, CommInv, ThreadInv
<1>2. /\ thread[w].at = "release" /\ thread[w].task = t /\ w[1] = n
      /\ UNCHANGED <<todo, freed, cmds, enabled, act, get, nexttag, net>>
  BY DEF Finish
<1>3. /\ t \in Tasks /\ n \in Nodes /\ Rank[t] = n /\ status[t] = "running" /\ status'[t] = "done"
      /\ \A u \in Tasks : u # t => status'[u] = status[u]
      /\ \A q \in Nodes : ~ Accepted(t, q)
      /\ \A q \in Nodes, e \in Data : q # n \/ e[1] # t => released'[q][e] = released[q][e]
      /\ \A k \in Outputs : released'[n][<<t, k>>] = <<>> \/ released'[n][<<t, k>>] = << <<t, k>> >>
      /\ TaskType'
  BY FinishEffect
<1>4. ThreadType' /\ thread'[w] = s /\ \A v \in Threads : v # w => thread'[v] = thread[v]
  BY <1>1, ThreadChange
<1>5. ThreadInv'
  <2>1. ThreadOf(w)'
    BY <1>2, <1>3, <1>4 DEF ThreadOf
  <2>2. \A v \in Threads : v # w /\ s.task # NoTask => thread[v].task # s.task
    BY <1>1, <1>2 DEF ThreadInv
  <2>3. \A u \in Tasks : status[u] = "done" => status'[u] = "done"
    BY <1>3
  <2>4. ASSUME NEW v \in Threads, v # w, thread[v].at = "release" PROVE status'[thread[v].task] = "running"
    <3>1. status[thread[v].task] = "running" /\ thread[v].task \in Tasks
      BY <1>1, <2>4 DEF ThreadInv, ThreadOf
    <3>2. thread[v].task # t
      BY <1>1, <1>2, <1>3, <2>4, RemoteGraphAssumption DEF ThreadInv
    <3> QED BY <1>3, <3>1, <3>2
  <2> QED BY <1>1, <2>1, <2>2, <2>3, <2>4, ThreadKept
<1>6. InputsInv'
  <2> SUFFICES ASSUME NEW u \in Tasks, status'[u] # "waiting", NEW d \in Inputs(u)
               PROVE  released'[Rank[u]][d] # <<>>
    BY DEF InputsInv
  <2>1. status[u] # "waiting"
    BY <1>3
  <2>2. released[Rank[u]][d] # <<>> /\ Rank[u] \in Nodes /\ d \in Data
    BY <1>1, <2>1, RemoteGraphAssumption DEF InputsInv, Inputs
  <2>3. d[1] # t
    <3>1. d = <<d[1], d[2]>> /\ d[2] \in Outputs
      BY <2>2 DEF Data
    <3>2. Accepted(d[1], Rank[u])
      BY <2>2, <3>1 DEF Accepted
    <3> QED BY <1>3, <2>2, <3>2
  <2> QED BY <1>3, <2>2, <2>3
<1>7. RunningInv'
  <2> SUFFICES ASSUME NEW u \in Tasks, status'[u] = "running"
               PROVE  \E v \in Threads : thread'[v].task = u /\ thread'[v].at = "release"
    BY DEF RunningInv
  <2>1. u # t /\ status[u] = "running"
    BY <1>3
  <2>2. PICK v \in Threads : thread[v].task = u /\ thread[v].at = "release"
    BY <1>1, <2>1 DEF RunningInv
  <2>3. v # w
    BY <1>2, <2>1, <2>2
  <2> QED BY <1>4, <2>2, <2>3
<1>8. OnOffInv' /\ ThreadsTogether' /\ LeftInv'
  BY <1>1, <1>2, RoundKept
<1>9. FlyingExact'
  <2>1. \A q \in Nodes : Waiting(q)' = Waiting(q)
    BY <1>3 DEF Waiting
  <2>2. \A q \in Nodes : Flying(q)' = Flying(q)
    BY <1>2, FlyingSame
  <2>3. \A q : Telling(q)' = Telling(q)
    BY <1>1, <1>2, TellingSame
  <2>4. \A q \in Nodes : Untaken(q)' = Untaken(q)
    BY <2>1, <2>3 DEF Untaken
  <2>5. \A q \in Nodes : todo'[q] = Untaken(q)' + Flying(q)'
    BY <1>1, <1>2, <2>2, <2>4, FlyingIs
  <2> QED BY <2>5 DEF FlyingExact, Waiting, Untaken
<1>10. CommType' /\ IsFiniteSet(net)'
  BY <1>1, <1>2 DEF CommType
<1>11. CommandInv' /\ MessageInv' /\ ServingInv'
  BY <1>1, <1>2, CommandKept, MessageKept, ServingKept
<1>12. \A e, q : /\ Queued(e, q)' <=> Queued(e, q)
                 /\ Announced(e, q)' <=> Announced(e, q)
                 /\ Asked(e, q)' <=> Asked(e, q)
                 /\ \A j \in Slots : Serving(e, q, j)' <=> Serving(e, q, j)
  BY <1>2, TokensSame
<1>13. OnePlace'
  BY <1>1, <1>12, OnePlaceKept
<1>14. ReleasedOnce'
  <2> SUFFICES ASSUME NEW q \in Nodes, NEW e \in Data PROVE Len(released'[q][e]) <= 1
    BY DEF ReleasedOnce
  <2>1. CASE q # n \/ e[1] # t
    BY <1>1, <1>3, <2>1 DEF ReleasedOnce
  <2>2. CASE q = n /\ e[1] = t
    <3>1. e = <<t, e[2]>> /\ e[2] \in Outputs
      BY <2>2 DEF Data
    <3>2. released'[n][e] = <<>> \/ released'[n][e] = <<e>>
      BY <1>3, <3>1
    <3>3. Len(<<>>) = 0 /\ \A x : Len(<<x>>) = 1
      OBVIOUS
    <3>4. Len(released'[n][e]) = 0 \/ Len(released'[n][e]) = 1
      BY <3>2, <3>3
    <3> PICK x : x = Len(released'[q][e])
      OBVIOUS
    <3>5. x = 0 \/ x = 1
      BY <2>2, <3>4
    <3> QED BY <3>5, AtMostOne
  <2> QED BY <2>1, <2>2
<1>15. ReceiveInv'
  <2> SUFFICES ASSUME NEW q \in Nodes, NEW i \in Slots, act[q][i].state = "busy"
               PROVE  /\ act[q][i].task \in Tasks
                      /\ act[q][i].from = Rank[act[q][i].task] /\ act[q][i].from # q
                      /\ act[q][i].recv # {} /\ act[q][i].which = act[q][i].recv /\ act[q][i].done = {}
                      /\ act[q][i].recv \subseteq Needed(act[q][i].task, q)
                      /\ \A k \in act[q][i].recv : released'[q][<<act[q][i].task, k>>] = <<>>
                      /\ \A j \in Slots : Receiving(q, j, act[q][i].task) => i = j
    BY <1>2 DEF ReceiveInv, Receiving
  <2>1. act[q][i].task \in Tasks /\ act[q][i].recv \subseteq Needed(act[q][i].task, q)
        /\ \A k \in act[q][i].recv : released[q][<<act[q][i].task, k>>] = <<>>
    BY <1>1 DEF ReceiveInv
  <2>2. act[q][i].task # t
    BY <1>3 DEF Accepted, Receiving
  <2>3. ASSUME NEW k \in act[q][i].recv PROVE released'[q][<<act[q][i].task, k>>] = <<>>
    <3>1. <<act[q][i].task, k>> \in Data
      BY <2>1 DEF Needed, Data
    <3> QED BY <1>3, <2>1, <2>2, <3>1
  <2> QED BY <1>1, <2>3 DEF ReceiveInv
<1>16. AcceptInv'
  <2> SUFFICES ASSUME NEW u \in Tasks, NEW q \in Nodes, Accepted(u, q)'
               PROVE  /\ status'[u] = "done"
                      /\ \A e \in Tasks : q # Rank[u] /\ Live(e)' /\ desc'[e].task = u =>
                            q \in desc'[e].forwarded /\ ~ Queued(e, q) /\ ~ Announced(e, q)
    BY <1>12 DEF AcceptInv
  <2>1. CASE u = t
    <3>1. q = n
      <4>1. \A k \in Outputs : <<t, k>> \in Data
        BY <1>3 DEF Data
      <4> SUFFICES ASSUME q # n PROVE Accepted(t, q)
        BY <1>3
      <4> QED BY <1>2, <1>3, <2>1, <4>1 DEF Accepted, Receiving
    <3> QED BY <1>3, <2>1, <3>1
  <2>2. CASE u # t
    <3>1. Accepted(u, q)
      <4>1. \A k \in Outputs : <<u, k>> \in Data /\ <<u, k>>[1] = u
        BY DEF Data
      <4> QED BY <1>2, <1>3, <2>2, <4>1 DEF Accepted, Receiving
    <3> QED BY <1>1, <1>3, <2>2, <3>1 DEF AcceptInv
  <2> QED BY <2>1, <2>2
<1>17. CommInv'
  BY <1>10, <1>11, <1>13, <1>14, <1>15, <1>16 DEF CommInv
<1> QED BY <1>3, <1>4, <1>5, <1>6, <1>7, <1>8, <1>9, <1>17 DEF TransferInv, LocalInv

\* The loop begins with the first output that has ranks.
FirstLook(here, d, nb, output) == LookAt([here EXCEPT !.deps = d, !.left = nb], output, 0)

LEMMA FirstLookEffect ==
    ASSUME NEW here \in ThreadState, NEW d \in Tasks, NEW nb \in Nat, nb # 0,
           NEW output \in [Outputs -> SUBSET Nodes]
    PROVE  LET s == FirstLook(here, d, nb, output)
           IN  /\ s \in ThreadState /\ s.task = here.task /\ s.deps = d /\ s.left = nb
               /\ \/ s.at = "overrun"
                  \/ /\ s.at = "rank" /\ s.mask = output[s.out] /\ s.mask # {}
                     /\ \A k \in Outputs : output[k] # {} => s.out <= k
<1>1. \E h \in ThreadState : /\ h.task = here.task /\ h.deps = d /\ h.left = nb
                             /\ FirstLook(here, d, nb, output) = LookAt(h, output, 0)
  <2> PICK g : g = [here EXCEPT !.deps = d]
    OBVIOUS
  <2> PICK h : h = [g EXCEPT !.left = nb]
    OBVIOUS
  <2>1. g \in ThreadState /\ g.task = here.task /\ g.deps = d
    BY DEF ThreadState, TaskOrNone
  <2>2. h \in ThreadState
    <3>1. nb \in Int
      OBVIOUS
    <3> QED BY <2>1, <3>1 DEF ThreadState
  <2>3. h.task = here.task /\ h.deps = d /\ h.left = nb
    BY <2>1 DEF ThreadState
  <2>4. FirstLook(here, d, nb, output) = LookAt(h, output, 0)
    BY DEF FirstLook
  <2> QED BY <2>2, <2>3, <2>4
<1>2. PICK h \in ThreadState : /\ h.task = here.task /\ h.deps = d /\ h.left = nb
                              /\ FirstLook(here, d, nb, output) = LookAt(h, output, 0)
  BY <1>1
<1> PICK zero \in Nat : zero = 0
  OBVIOUS
<1> DEFINE s == LookAt(h, output, zero)
<1>3. /\ s \in ThreadState
      /\ s.task = h.task /\ s.deps = h.deps /\ s.left = h.left
      /\ \/ h.left = 0 /\ s.at = "drop"
         \/ h.left # 0 /\ s.at = "overrun"
         \/ /\ h.left # 0 /\ s.at = "rank"
            /\ s.out >= zero /\ s.mask = output[s.out] /\ s.mask # {}
            /\ \A k \in Outputs : k >= zero /\ output[k] # {} => s.out <= k
  BY LookAtEffect
<1>4. \A k \in Outputs : k >= zero
  BY SetsFinite
<1>5. s = FirstLook(here, d, nb, output)
  BY <1>2
<1> HIDE DEF s
<1>6. /\ s \in ThreadState /\ s.task = here.task /\ s.deps = d /\ s.left = nb
      /\ \/ s.at = "overrun"
         \/ /\ s.at = "rank" /\ s.mask = output[s.out] /\ s.mask # {}
            /\ \A k \in Outputs : output[k] # {} => s.out <= k
  BY <1>2, <1>3, <1>4
<1> QED BY <1>5, <1>6

LEMMA ReleaseStep ==
    ASSUME TransferInv, NEW w \in Threads, Release(w)
    PROVE  TransferInv' /\ (InLoop(w)' => Unmet(w)' = Pairs(thread[w].task))
<1> PICK t, n, d : t = thread[w].task /\ n = w[1] /\ d = Allocated(n, t)
  OBVIOUS
<1>1. Finish(w, t, n)
  BY DEF Release, Finish, commVars
<1>2. /\ ThreadType /\ ThreadInv /\ LoopInv /\ FreeInv /\ LiveInv /\ SentInv /\ SingleInv
      /\ DescType /\ CommType /\ CommandInv /\ MessageInv /\ ServingInv /\ ThreadOf(w) /\ thread[w] \in ThreadState
  BY DEF TransferInv, LocalInv, CommInv, ThreadInv, ThreadType
<1>3. /\ t \in Tasks /\ n \in Nodes /\ Rank[t] = n /\ status[t] = "running" /\ status'[t] = "done"
      /\ \A u \in Tasks : u # t => status'[u] = status[u]
      /\ \A q \in Nodes : ~ Accepted(t, q)
      /\ thread[w].at = "release" /\ UNCHANGED <<cmds, get, net>>
  <2>1. thread[w].at = "release" /\ UNCHANGED <<cmds, get, net>>
    BY <1>1 DEF Finish
  <2>2. /\ t \in Tasks /\ n \in Nodes /\ Rank[t] = n /\ status[t] = "running" /\ status'[t] = "done"
        /\ \A u \in Tasks : u # t => status'[u] = status[u]
        /\ \A q \in Nodes : ~ Accepted(t, q)
    BY <1>1, FinishEffect
  <2> QED BY <2>1, <2>2
<1>4. \A e, q : \A k \in Outputs : Waits(e, q, k)' <=> Waits(e, q, k)
  BY <1>3, TokensSame
<1>5. \A e \in Tasks : Live(e) => desc[e].task # t
  BY <1>2, <1>3 DEF LiveInv
<1>6. NbRanks(t, Outputs) = Cardinality(Pairs(t)) /\ Cardinality(Pairs(t)) \in Nat
  BY <1>3, PairsFinite
<1>7. CASE NbRanks(t, Outputs) = 0
  <2> DEFINE s == [thread[w] EXCEPT !.at = "drop"]
  <2>1. thread' = [thread EXCEPT ![w] = s] /\ UNCHANGED <<desc, freelist>>
    BY <1>7 DEF Release, Goto, descVars
  <2>2. s \in ThreadState /\ s.at = "drop" /\ s.task = t
    BY <1>2 DEF ThreadState, Places
  <2> HIDE DEF s
  <2>3. thread'[w] = s
    BY <1>2, <2>1, <2>2, ThreadChange
  <2>4. LoopOf(w)'
    BY <2>2, <2>3 DEF LoopOf, InLoop
  <2>5. LoopInv'
    BY <1>2, <2>1, <2>2, <2>4, LoopKept
  <2>6. \A e \in Tasks : Live(e)' <=> Live(e)
    BY <2>1 DEF Live
  <2>7. DescType' /\ Grows /\ \A e \in Tasks : Live(e)' => Live(e) /\ desc'[e] = desc[e]
    BY <1>2, <2>1, <2>6 DEF DescType, Grows
  <2>8. LiveInv'
    <3>1. \A e \in Tasks : Live(e) => desc[e].task \in Tasks
      BY DEF Live
    <3> QED BY <1>2, <1>3, <1>5, <2>1, <2>6, <3>1 DEF LiveInv
  <2>9. SentInv'
    BY <1>2, <1>4, <2>1, <2>6, DescSame DEF SentInv
  <2>10. SingleInv'
    BY <1>2, <2>1, <2>6 DEF SingleInv
  <2>11. FreeInv'
    <3>1. \A m \in Nodes : \A i \in DOMAIN freelist[m] : freelist[m][i] \in Tasks
      BY <1>2 DEF DescType
    <3>2. \A u \in Tasks : status[u] = "done" => status'[u] = "done"
      BY <1>3
    <3> QED BY <1>2, <2>1, <3>1, <3>2 DEF FreeInv
  <2>12. ~ InLoop(w)'
    BY <2>2, <2>3 DEF InLoop
  <2> QED BY <1>1, <2>1, <2>2, <2>5, <2>7, <2>8, <2>9, <2>10, <2>11, <2>12, FinishStep
<1>8. CASE NbRanks(t, Outputs) # 0
  <2>1. /\ desc' = [desc EXCEPT ![d] = Filled(t, Outputs)] /\ PopFree(n)
        /\ thread' = [thread EXCEPT ![w] =
                         LookAt([@ EXCEPT !.deps = d, !.left = NbRanks(t, Outputs)], RankBits(t, Outputs), 0)]
    BY <1>8 DEF Release
  <2>2. /\ d \in Tasks /\ Rank[d] = n /\ desc[d].task = NoTask /\ (d = t \/ status[d] = "done")
        /\ freelist' \in [Nodes -> Seq(Tasks)]
        /\ \A m \in Nodes : \A i \in DOMAIN freelist'[m] :
              /\ freelist'[m][i] \in Tasks /\ freelist'[m][i] # d
              /\ Rank[freelist'[m][i]] = m
              /\ status[freelist'[m][i]] = "done"
              /\ desc[freelist'[m][i]].task = NoTask
              /\ \A j \in DOMAIN freelist'[m] : freelist'[m][i] = freelist'[m][j] => i = j
    BY <1>2, <1>3, <2>1, AllocatedEffect
  <2>3. /\ Filled(t, Outputs) \in Descriptor
        /\ Filled(t, Outputs).task = t /\ Filled(t, Outputs).output = RankBits(t, Outputs)
        /\ Filled(t, Outputs).count = NbRanks(t, Outputs) /\ Filled(t, Outputs).sent = 0
        /\ Filled(t, Outputs).forwarded = {}
    BY <1>3, FilledType
  <2>4. /\ desc' \in [Tasks -> Descriptor] /\ desc'[d] = Filled(t, Outputs)
        /\ \A e \in Tasks : e # d => desc'[e] = desc[e]
    BY <1>2, <2>1, <2>2, <2>3 DEF DescType
  <2>5. ~ Live(d) /\ Live(d)' /\ \A e \in Tasks : e # d => (Live(e)' <=> Live(e))
    <3>1. desc[d].task = NoTask /\ desc'[d].task = t
      BY <2>2, <2>3, <2>4, BlankType
    <3> QED BY <1>3, <2>2, <2>4, <3>1, RemoteGraphAssumption DEF Live
  <2>6. DescType' /\ Grows
    BY <2>2, <2>4, <2>5 DEF DescType, Grows
  <2>7. LiveInv'
    <3> SUFFICES ASSUME NEW e \in Tasks, Live(e)'
                 PROVE  /\ status'[desc'[e].task] = "done"
                        /\ desc'[e].output = RankBits(desc'[e].task, Outputs)
                        /\ desc'[e].count = Cardinality(Pairs(desc'[e].task))
                        /\ \A q \in desc'[e].forwarded : q # Rank[e] /\ Needed(desc'[e].task, q) # {}
      BY DEF LiveInv
    <3>1. CASE e = d
      BY <1>3, <1>6, <2>3, <2>4, <3>1
    <3>2. CASE e # d
      <4>1. Live(e) /\ desc'[e] = desc[e] /\ desc[e].task \in Tasks
        BY <2>4, <2>5, <3>2 DEF Live
      <4> QED BY <1>2, <1>3, <1>5, <4>1 DEF LiveInv
    <3> QED BY <3>1, <3>2
  <2>8. SentInv'
    <3> SUFFICES ASSUME NEW e \in Tasks, Live(e)' PROVE desc'[e].sent = Cardinality(Served(e)')
      BY DEF SentInv
    <3>1. CASE e = d
      <4>1. Served(d)' = {}
        BY <2>3, <2>4 DEF Served
      <4>2. Cardinality({}) = 0
        BY FS_EmptySet
      <4> QED BY <2>3, <2>4, <3>1, <4>1, <4>2
    <3>2. CASE e # d
      <4>1. Live(e) /\ desc'[e] = desc[e]
        BY <2>4, <2>5, <3>2
      <4>2. Served(e)' = {p \in Pairs(desc[e].task) : p[2] \in desc[e].forwarded /\ ~ Waits(e, p[2], p[1])'}
        BY <4>1 DEF Served
      <4>3. Served(e) = {p \in Pairs(desc[e].task) : p[2] \in desc[e].forwarded /\ ~ Waits(e, p[2], p[1])}
        BY DEF Served
      <4>4. \A p \in Pairs(desc[e].task) : p[1] \in Outputs
        BY DEF Pairs
      <4>5. Served(e)' = Served(e)
        BY <1>4, <4>2, <4>3, <4>4
      <4> QED BY <1>2, <4>1, <4>5 DEF SentInv
    <3> QED BY <3>1, <3>2
  <2>9. SingleInv'
    <3>1. \A e \in Tasks : e # d /\ Live(e)' => desc'[e].task # t
      BY <1>5, <2>4, <2>5
    <3>2. desc'[d].task = t
      BY <2>3, <2>4
    <3> SUFFICES ASSUME NEW e \in Tasks, NEW f \in Tasks, Live(e)', Live(f)', desc'[e].task = desc'[f].task
                 PROVE  e = f
      BY DEF SingleInv
    <3>3. CASE e = d \/ f = d
      BY <3>1, <3>2, <3>3
    <3>4. CASE e # d /\ f # d
      BY <1>2, <2>4, <2>5, <3>4 DEF SingleInv
    <3> QED BY <3>3, <3>4
  <2>10. FreeInv'
    <3>1. \A u \in Tasks : status[u] = "done" => status'[u] = "done"
      BY <1>3
    <3>2. \A e \in Tasks : status'[e] # "done" => desc'[e].task = NoTask
      BY <1>2, <1>3, <2>2, <2>4 DEF FreeInv
    <3>3. \A m \in Nodes : \A i \in DOMAIN freelist'[m] :
             /\ Rank[freelist'[m][i]] = m
             /\ status'[freelist'[m][i]] = "done"
             /\ desc'[freelist'[m][i]].task = NoTask
             /\ \A j \in DOMAIN freelist'[m] : freelist'[m][i] = freelist'[m][j] => i = j
      BY <2>2, <2>4, <3>1
    <3> QED BY <3>2, <3>3 DEF FreeInv
  <2> DEFINE out == RankBits(t, Outputs)
           s == FirstLook(thread[w], d, NbRanks(t, Outputs), out)
  <2>11. thread' = [thread EXCEPT ![w] = s]
    BY <2>1 DEF FirstLook
  <2>12. out \in [Outputs -> SUBSET Nodes] /\ \A k \in Outputs : out[k] = RanksOf(t, k)
    <3>1. RankBits(t, Outputs) \in [Outputs -> SUBSET Nodes]
      BY <1>3, RankBitsType
    <3> QED BY <3>1 DEF RankBits
  <2> HIDE DEF out
  <2>13. NbRanks(t, Outputs) \in Nat
    BY <1>6
  <2>14. /\ s \in ThreadState /\ s.task = t /\ s.deps = d /\ s.left = NbRanks(t, Outputs)
         /\ \/ s.at = "overrun"
            \/ /\ s.at = "rank" /\ s.mask = out[s.out] /\ s.mask # {}
               /\ \A k \in Outputs : out[k] # {} => s.out <= k
    BY <1>2, <1>8, <2>2, <2>12, <2>13, FirstLookEffect
  <2> HIDE DEF s
  <2>15. thread'[w] = s /\ \A v \in Threads : v # w => thread'[v] = thread[v]
    BY <1>2, <2>11, <2>14, ThreadChange
  <2>16. LoopOf(w)' /\ (InLoop(w)' => Unmet(w)' = Pairs(t))
    <3>1. CASE s.at # "rank"
      BY <2>14, <2>15, <3>1 DEF LoopOf, InLoop
    <3>2. CASE s.at = "rank"
      <4>1. Unmet(w)' = Pairs(t)
        <5>1. ASSUME NEW p \in Pairs(t) PROVE p[1] > s.out \/ (p[1] = s.out /\ p[2] \in s.mask)
          <6>1. p[1] \in Outputs /\ p[1] \in Nat /\ p[2] \in out[p[1]]
            BY <2>12, SetsFinite DEF Pairs
          <6>2. s.out <= p[1] /\ s.out \in Nat
            BY <2>14, <3>2, <6>1, SetsFinite DEF ThreadState
          <6> PICK x, y, o, m : x = p[1] /\ y = p[2] /\ o = s.out /\ m = s.mask
            OBVIOUS
          <6>3. x \in Nat /\ o \in Nat /\ o <= x /\ (x = o => y \in m)
            BY <2>14, <3>2, <6>1, <6>2
          <6>4. x > o \/ (x = o /\ y \in m)
            BY <6>3
          <6> QED BY <6>4
        <5>2. Unmet(w)' = {p \in Pairs(t) : p[1] > s.out \/ (p[1] = s.out /\ p[2] \in s.mask)}
          BY <2>14, <2>15 DEF Unmet
        <5> QED BY <5>1, <5>2
      <4>2. s.left = Cardinality(Pairs(t))
        BY <1>6, <2>14
      <4>3. OwnDesc(w)'
        BY <2>3, <2>4, <2>14, <2>15 DEF OwnDesc
      <4>4. s.out \in Outputs
        BY <2>14 DEF ThreadState
      <4>5. s.mask # {} /\ s.mask \subseteq RanksOf(t, s.out)
        BY <2>12, <2>14, <3>2, <4>4
      <4>6. desc'[d].forwarded = {}
        BY <2>3, <2>4
      <4>7. s.deps = d /\ s.task = t
        BY <2>14
      <4> QED BY <1>3, <2>2, <2>15, <3>2, <4>1, <4>2, <4>3, <4>5, <4>6, <4>7 DEF LoopOf, InLoop
    <3> QED BY <3>1, <3>2
  <2>17. LoopInv'
    <3>1. ASSUME NEW v \in Threads, v # w PROVE LoopOf(v)'
      <4>1. thread'[v] = thread[v] /\ LoopOf(v)
        BY <1>2, <2>15, <3>1 DEF LoopInv
      <4>2. CASE InLoop(v)
        <5>1. thread[v].deps \in Tasks /\ thread[v].task \in Tasks
          BY <1>2, <4>1, <4>2 DEF LoopOf, InLoop, ThreadInv, ThreadOf
        <5>2. CASE thread[v].deps = d
          <6>1. thread[v].task # t
            BY <1>2, <1>3, <3>1, RemoteGraphAssumption DEF ThreadInv
          <6>2. ~ OwnDesc(v)
            BY <2>2, <5>1, <5>2, BlankType, RemoteGraphAssumption DEF OwnDesc
          <6>3. desc'[d].task # thread[v].task
            BY <2>3, <2>4, <6>1
          <6> QED BY <4>1, <5>2, <6>2, <6>3, LoopOfKept
        <5>3. CASE thread[v].deps # d
          BY <2>4, <4>1, <5>1, <5>3, LoopOfKept
        <5> QED BY <5>2, <5>3
      <4> QED BY <4>1, <4>2, LoopOfKept
    <3> QED BY <2>16, <3>1 DEF LoopInv
  <2>18. s \in ThreadState /\ s.at \in {"rank", "overrun", "drop"} /\ s.task = t
    BY <2>14
  <2>19. \A e \in Tasks : Live(e)' => desc'[e].task = t \/ (Live(e) /\ desc'[e] = desc[e])
    BY <2>3, <2>4, <2>5
  <2> QED BY <1>1, <2>6, <2>7, <2>8, <2>9, <2>10, <2>11, <2>16, <2>17, <2>18, <2>19, FinishStep
<1> QED BY <1>7, <1>8

-----------------------------------------------------------------------------
(* The arrival of an output.                                               *)

\* A descriptor the reception takes off the free list is lost: no rank sends
\* anything for it.
LEMMA SpoilEffect ==
    ASSUME DescType, FreeInv, NEW n \in Nodes, NEW t \in Tasks, Rank[t] # n,
           NEW ks \in SUBSET Outputs, Spoil(n, t, ks), UNCHANGED status
    PROVE  /\ DescType' /\ FreeInv'
           /\ \A e \in Tasks : Live(e)' <=> Live(e)
           /\ \A e \in Tasks : Live(e) => desc'[e] = desc[e]
           /\ \A e \in Tasks : desc'[e] = desc[e] \/ (Rank[e] = n /\ desc[e].task = NoTask /\ desc'[e].task = t)
<1>1. CASE freelist[n] = <<>>
  <2>1. desc' = [e \in Tasks |-> desc[e]] /\ freelist' = freelist
    BY <1>1 DEF Spoil, PopFree, DescType
  <2>2. desc' = desc
    BY <2>1 DEF DescType
  <2> QED BY <2>1, <2>2 DEF DescType, FreeInv, Live
<1>2. CASE freelist[n] # <<>>
  <2> PICK d : d = Head(freelist[n])
    OBVIOUS
  <2>1. PopFree(n)
    BY DEF Spoil
  <2>2. /\ d \in Tasks /\ Rank[d] = n /\ desc[d].task = NoTask /\ status[d] = "done"
        /\ freelist' \in [Nodes -> Seq(Tasks)]
        /\ \A m \in Nodes : \A i \in DOMAIN freelist'[m] :
              /\ freelist'[m][i] \in Tasks /\ freelist'[m][i] # d
              /\ Rank[freelist'[m][i]] = m
              /\ status[freelist'[m][i]] = "done"
              /\ desc[freelist'[m][i]].task = NoTask
              /\ \A j \in DOMAIN freelist'[m] : freelist'[m][i] = freelist'[m][j] => i = j
    BY <1>2, <2>1, PopEffect
  <2>3. Filled(t, ks) \in Descriptor /\ Filled(t, ks).task = t
    BY FilledType
  <2>4. desc' = [e \in Tasks |-> IF e = d THEN Filled(t, ks) ELSE desc[e]]
    BY <1>2 DEF Spoil
  <2>5. desc' \in [Tasks -> Descriptor] /\ desc'[d].task = t /\ \A e \in Tasks : e # d => desc'[e] = desc[e]
    BY <2>2, <2>3, <2>4 DEF DescType
  <2>6. ~ Live(d) /\ ~ Live(d)'
    BY <2>2, <2>5, BlankType, RemoteGraphAssumption DEF Live
  <2>7. \A e \in Tasks : Live(e)' <=> Live(e)
    BY <2>5, <2>6 DEF Live
  <2>8. FreeInv'
    <3>1. ASSUME NEW e \in Tasks, status[e] # "done" PROVE desc'[e].task = NoTask
      <4>1. e # d
        BY <2>2, <3>1
      <4>2. desc[e].task = NoTask
        BY <3>1 DEF FreeInv
      <4> QED BY <2>5, <4>1, <4>2
    <3>2. \A m \in Nodes : \A i \in DOMAIN freelist'[m] : desc'[freelist'[m][i]].task = NoTask
      BY <2>2, <2>5
    <3> QED BY <2>2, <3>1, <3>2 DEF FreeInv
  <2> QED BY <2>2, <2>5, <2>6, <2>7, <2>8 DEF DescType
<1> QED BY <1>1, <1>2

\* A slot whose output k has been released.
Advanced(slot, k) == AfterRelease([slot EXCEPT !.done = slot.done \cup {k}, !.recv = @ \ {k}])

LEMMA AdvancedEffect ==
    ASSUME NEW slot \in ActSlot, slot.which = slot.recv, slot.done = {}, NEW k \in slot.recv
    PROVE  LET a == Advanced(slot, k)
           IN  /\ a \in ActSlot /\ a.which = slot.recv \ {k} /\ a.recv = slot.recv \ {k} /\ a.done = {}
               /\ a.state = slot.state /\ a.from = slot.from /\ a.task = slot.task
               /\ a.tag = slot.tag /\ a.deps = slot.deps
<1> PICK f : f = [slot EXCEPT !.done = slot.done \cup {k}]
  OBVIOUS
<1> PICK g : g = [f EXCEPT !.recv = f.recv \ {k}]
  OBVIOUS
<1> PICK h : h = [g EXCEPT !.which = SymDiff(g.which, g.done)]
  OBVIOUS
<1>1. k \in Outputs
  BY DEF ActSlot
<1>2. /\ f \in ActSlot /\ f.done = {k} /\ f.which = slot.recv /\ f.recv = slot.recv
      /\ f.state = slot.state /\ f.from = slot.from /\ f.task = slot.task
      /\ f.tag = slot.tag /\ f.deps = slot.deps
  BY <1>1 DEF ActSlot
<1>3. /\ g \in ActSlot /\ g.done = {k} /\ g.which = slot.recv /\ g.recv = slot.recv \ {k}
      /\ g.state = slot.state /\ g.from = slot.from /\ g.task = slot.task
      /\ g.tag = slot.tag /\ g.deps = slot.deps
  BY <1>2 DEF ActSlot
<1>4. SymDiff(g.which, g.done) = slot.recv \ {k}
  BY <1>3 DEF SymDiff
<1>5. slot.recv \ {k} \in SUBSET Outputs
  BY DEF ActSlot
<1>6. /\ h \in ActSlot /\ h.which = slot.recv \ {k} /\ h.recv = slot.recv \ {k}
      /\ h.state = slot.state /\ h.from = slot.from /\ h.task = slot.task
      /\ h.tag = slot.tag /\ h.deps = slot.deps
  <2>1. h = [g EXCEPT !.which = slot.recv \ {k}]
    BY <1>4
  <2> QED BY <1>3, <1>5, <2>1 DEF ActSlot
<1>7. [h EXCEPT !.done = {}] \in ActSlot
  BY <1>6 DEF ActSlot
<1> PICK a : a = [h EXCEPT !.done = {}]
  OBVIOUS
<1>8. /\ a \in ActSlot /\ a.which = slot.recv \ {k} /\ a.recv = slot.recv \ {k} /\ a.done = {}
      /\ a.state = slot.state /\ a.from = slot.from /\ a.task = slot.task
      /\ a.tag = slot.tag /\ a.deps = slot.deps
  BY <1>6, <1>7 DEF ActSlot
<1>9. [slot EXCEPT !.done = slot.done \cup {k}, !.recv = @ \ {k}] = g
  BY <1>2 DEF ActSlot
<1>10. Advanced(slot, k) = a
  BY <1>9 DEF Advanced, AfterRelease
<1> QED BY <1>8, <1>10

\* What an arrival changes besides the descriptors.
Arrived(n, i, k, m) ==
    /\ net' = net \ {m}
    /\ released' = [released EXCEPT ![n] = [d \in Data |->
                       IF d[1] = act[n][i].task /\ d[2] \in act[n][i].done \cup {k}
                       THEN Append(@[d], IF d[2] = k THEN m.data ELSE d) ELSE @[d]]]

LEMMA ArrivedEffect ==
    ASSUME TaskType, NEW n \in Nodes, NEW i \in Slots, NEW k \in Outputs, NEW m, m.data \in Data,
           act[n][i].task \in Tasks, act[n][i].done = {},
           released[n][<<act[n][i].task, k>>] = <<>>, Arrived(n, i, k, m)
    PROVE  /\ released' \in [Nodes -> [Data -> Seq(Data)]]
           /\ \A q \in Nodes, e \in Data : q # n \/ e # <<act[n][i].task, k>> => released'[q][e] = released[q][e]
           /\ released'[n][<<act[n][i].task, k>>] = <<m.data>>
<1> PICK t : t = act[n][i].task
  OBVIOUS
<1> PICK f : f = [d \in Data |-> IF d[1] = t /\ d[2] = k THEN Append(released[n][d], m.data) ELSE released[n][d]]
  OBVIOUS
<1>1. [d \in Data |-> IF d[1] = act[n][i].task /\ d[2] \in act[n][i].done \cup {k}
                      THEN Append(released[n][d], IF d[2] = k THEN m.data ELSE d) ELSE released[n][d]] = f
  OBVIOUS
<1>2. released' = [released EXCEPT ![n] = f]
  BY <1>1 DEF Arrived
<1>3. released[n] \in [Data -> Seq(Data)]
  BY DEF TaskType
<1>4. <<t, k>> \in Data /\ \A e \in Data : e[1] = t /\ e[2] = k => e = <<t, k>>
  BY DEF Data
<1>5. \A e \in Data : e # <<t, k>> => f[e] = released[n][e]
  BY <1>4
<1>6. f[<<t, k>>] = Append(<<>>, m.data)
  BY <1>4
<1>7. \A x : Append(<<>>, x) = <<x>>
  OBVIOUS
<1>8. f \in [Data -> Seq(Data)]
  BY <1>3
<1> HIDE DEF TaskType
<1>9. released' \in [Nodes -> [Data -> Seq(Data)]] /\ released'[n] = f
      /\ \A q \in Nodes : q # n => released'[q] = released[q]
  BY <1>2, <1>8 DEF TaskType
<1>10. released'[n][<<t, k>>] = <<m.data>>
  BY <1>6, <1>7, <1>9
<1>11. ASSUME NEW q \in Nodes, NEW e \in Data, q # n \/ e # <<t, k>>
       PROVE  released'[q][e] = released[q][e]
  <2>1. CASE q = n
    BY <1>5, <1>9, <1>11, <2>1
  <2>2. CASE q # n
    BY <1>9, <2>2
  <2> QED BY <2>1, <2>2
<1> QED BY <1>9, <1>10, <1>11

\* What the arrival of output k of task t in a slot does.
Ends(n, i, k, slot, t) ==
    /\ slot.state = "busy" /\ k \in slot.recv /\ slot \in ActSlot
    /\ t \in Tasks /\ slot.from = Rank[t] /\ Rank[t] # n
    /\ slot.recv \subseteq Needed(t, n)
    /\ \A l \in slot.recv : released[n][<<t, l>>] = <<>>
    /\ \A j \in Slots : Receiving(n, j, t) => i = j
    /\ Spoil(n, t, {k})
    /\ UNCHANGED <<todo, status, freed, thread, cmds, enabled, get, nexttag>>
    /\ act' \in [Nodes -> [Slots -> ActSlot]]
    /\ \A q \in Nodes, j \in Slots : q # n \/ j # i => act'[q][j] = act[q][j]
    /\ \A q \in Nodes : q # n => act'[q] = act[q]
    /\ act'[n][i].state = "busy" =>
          /\ slot.recv \ {k} # {} /\ act'[n][i].which = slot.recv \ {k}
          /\ act'[n][i].recv = slot.recv \ {k} /\ act'[n][i].done = {}
          /\ act'[n][i].from = slot.from /\ act'[n][i].task = t /\ act'[n][i].tag = slot.tag
    /\ slot.recv # {k} => act'[n][i].state = "busy"
    /\ \E m \in net :
          /\ m.type = "put" /\ m.to = n /\ m.tag = slot.tag + k /\ m.data \in Data
          /\ net' = net \ {m}
          /\ released' \in [Nodes -> [Data -> Seq(Data)]]
          /\ \A q \in Nodes, e \in Data : q # n \/ e # <<t, k>> => released'[q][e] = released[q][e]
          /\ released'[n][<<t, k>>] = <<m.data>>

LEMMA DataEndEffect ==
    ASSUME TransferInv, NEW n \in Nodes, NEW i \in Slots, NEW k \in Outputs, DataEnd(n, i, k)
    PROVE  Ends(n, i, k, act[n][i], act[n][i].task)
<1> PICK slot, t : slot = act[n][i] /\ t = slot.task
  OBVIOUS
<1>1. CommType /\ ReceiveInv /\ TaskType
  BY DEF TransferInv, LocalInv, CommInv
<1>2. slot.state = "busy" /\ k \in slot.recv /\ slot \in ActSlot
  BY <1>1 DEF DataEnd, CommType
<1>3. /\ t \in Tasks /\ slot.from = Rank[t] /\ Rank[t] # n
      /\ slot.which = slot.recv /\ slot.done = {} /\ slot.recv \subseteq Needed(t, n)
      /\ \A l \in slot.recv : released[n][<<t, l>>] = <<>>
      /\ \A j \in Slots : Receiving(n, j, t) => i = j
  BY <1>1, <1>2 DEF ReceiveInv
<1> PICK m \in net : /\ m.type = "put" /\ m.to = n /\ m.tag = slot.tag + k
                     /\ Arrived(n, i, k, m)
  BY DEF DataEnd, Arrived
<1>4. m.data \in Data
  BY <1>1, MessageType
<1> DEFINE a == Advanced(slot, k)
           b == IF slot.recv \ {k} = {} THEN Posted(NoActivate) ELSE a
<1>5. /\ a \in ActSlot /\ a.which = slot.recv \ {k} /\ a.recv = slot.recv \ {k} /\ a.done = {}
      /\ a.state = slot.state /\ a.from = slot.from /\ a.task = slot.task
      /\ a.tag = slot.tag /\ a.deps = slot.deps
  BY <1>2, <1>3, AdvancedEffect
<1>6. /\ act' = [act EXCEPT ![n][i] = IF a.which = a.done THEN Posted(NoActivate) ELSE a]
      /\ Spoil(n, t, {k})
      /\ UNCHANGED <<todo, status, freed, thread, cmds, enabled, get, nexttag>>
  BY <1>3 DEF DataEnd, Advanced
<1> HIDE DEF a
<1>7. act' = SetSlot(act, n, i, b)
  BY <1>5, <1>6 DEF SetSlot
<1>8. /\ b \in ActSlot
      /\ b.state = "busy" =>
            /\ slot.recv \ {k} # {} /\ b.which = slot.recv \ {k} /\ b.recv = slot.recv \ {k} /\ b.done = {}
            /\ b.from = slot.from /\ b.task = t /\ b.tag = slot.tag
      /\ slot.recv # {k} => b.state = "busy"
  BY <1>2, <1>5, NothingTypes
<1> HIDE DEF b
<1>9. /\ act' \in [Nodes -> [Slots -> ActSlot]] /\ act'[n][i] = b
      /\ \A q \in Nodes, j \in Slots : q # n \/ j # i => act'[q][j] = act[q][j]
      /\ \A q \in Nodes : q # n => act'[q] = act[q]
  <2>1. act \in [Nodes -> [Slots -> ActSlot]]
    BY <1>1 DEF CommType
  <2> QED BY <1>7, <1>8, <2>1, ActChange
<1>10. /\ released' \in [Nodes -> [Data -> Seq(Data)]]
       /\ \A q \in Nodes, e \in Data : q # n \/ e # <<t, k>> => released'[q][e] = released[q][e]
       /\ released'[n][<<t, k>>] = <<m.data>>
  <2>1. released[n][<<t, k>>] = <<>>
    BY <1>2, <1>3
  <2> QED BY <1>1, <1>3, <1>4, <2>1, ArrivedEffect
<1>11. net' = net \ {m}
  BY DEF Arrived
<1>12. \E o \in net :
         /\ o.type = "put" /\ o.to = n /\ o.tag = slot.tag + k /\ o.data \in Data
         /\ net' = net \ {o}
         /\ released' \in [Nodes -> [Data -> Seq(Data)]]
         /\ \A q \in Nodes, e \in Data : q # n \/ e # <<t, k>> => released'[q][e] = released[q][e]
         /\ released'[n][<<t, k>>] = <<o.data>>
  BY <1>4, <1>10, <1>11
<1> QED BY <1>2, <1>3, <1>6, <1>8, <1>9, <1>12 DEF Ends

LEMMA DataEndStep ==
    ASSUME TransferInv, NEW n \in Nodes, enabled[n], NEW i \in Slots, NEW k \in Outputs, DataEnd(n, i, k)
    PROVE  TransferInv'
<1>1. /\ CommType /\ CommandInv /\ MessageInv /\ OnePlace /\ OnOffInv /\ LiveInv /\ SentInv /\ IsFiniteSet(net)
      /\ AcceptInv /\ ReceiveInv /\ ServingInv /\ DescType /\ SingleInv /\ FreeInv /\ ReleasedOnce
      /\ TaskType /\ LoopInv /\ LeftInv /\ FlyingExact /\ ThreadInv
  BY DEF TransferInv, LocalInv, CommInv
<1> PICK slot, t : slot = act[n][i] /\ t = slot.task
  OBVIOUS
<1>0. Ends(n, i, k, slot, t)
  BY DataEndEffect
<1>2. slot.state = "busy" /\ k \in slot.recv /\ slot \in ActSlot
  BY <1>0 DEF Ends
<1>3. /\ t \in Tasks /\ slot.from = Rank[t] /\ Rank[t] # n
      /\ slot.recv \subseteq Needed(t, n)
      /\ \A l \in slot.recv : released[n][<<t, l>>] = <<>>
      /\ \A j \in Slots : Receiving(n, j, t) => i = j
  BY <1>0 DEF Ends
<1>4. PICK m \in net :
       /\ m.type = "put" /\ m.data \in Data /\ net' = net \ {m}
       /\ released' \in [Nodes -> [Data -> Seq(Data)]]
       /\ \A q \in Nodes, e \in Data : q # n \/ e # <<t, k>> => released'[q][e] = released[q][e]
       /\ released'[n][<<t, k>>] = <<m.data>>
  BY <1>0 DEF Ends
<1> PICK b : b = act'[n][i]
  OBVIOUS
<1>6. Spoil(n, t, {k}) /\ UNCHANGED <<todo, status, freed, thread, cmds, enabled, get, nexttag>>
  BY <1>0 DEF Ends
<1>8. b.state = "busy" =>
         /\ slot.recv \ {k} # {} /\ b.which = slot.recv \ {k} /\ b.recv = slot.recv \ {k} /\ b.done = {}
         /\ b.from = slot.from /\ b.task = t
  BY <1>0 DEF Ends
<1>9. /\ act' \in [Nodes -> [Slots -> ActSlot]] /\ act'[n][i] = b
      /\ \A q \in Nodes, j \in Slots : q # n \/ j # i => act'[q][j] = act[q][j]
      /\ \A q \in Nodes : q # n => act'[q] = act[q]
  BY <1>0 DEF Ends
<1>10. /\ released' \in [Nodes -> [Data -> Seq(Data)]]
       /\ \A q \in Nodes, e \in Data : q # n \/ e # <<t, k>> => released'[q][e] = released[q][e]
       /\ released'[n][<<t, k>>] = <<m.data>>
  BY <1>4
<1>11. /\ DescType' /\ FreeInv'
       /\ \A e \in Tasks : Live(e)' <=> Live(e)
       /\ \A e \in Tasks : Live(e) => desc'[e] = desc[e]
       /\ \A e \in Tasks : desc'[e] = desc[e] \/ (Rank[e] = n /\ desc[e].task = NoTask /\ desc'[e].task = t)
  <2>1. {k} \in SUBSET Outputs
    OBVIOUS
  <2> QED BY <1>1, <1>3, <1>6, <2>1, SpoilEffect
<1>12. Grows
  BY <1>11 DEF Grows
<1>13. net' = net \ {m} /\ m.type = "put"
  BY <1>4
<1>14. \A e, s : /\ Queued(e, s)' <=> Queued(e, s)
                 /\ Announced(e, s)' <=> Announced(e, s)
                 /\ Asked(e, s)' <=> Asked(e, s)
                 /\ \A j \in Slots : Serving(e, s, j)' <=> Serving(e, s, j)
                 /\ \A l \in Outputs : Waits(e, s, l)' <=> Waits(e, s, l)
  <2>1. \A e, s : Queued(e, s)' <=> Queued(e, s)
    BY <1>6 DEF Queued
  <2>2. \A e, s : Announced(e, s)' <=> Announced(e, s)
    BY <1>13 DEF Announced
  <2>3. \A e, s : Asked(e, s)' <=> Asked(e, s)
    BY <1>13 DEF Asked
  <2>4. \A e, s : \A j \in Slots : Serving(e, s, j)' <=> Serving(e, s, j)
    BY <1>6 DEF Serving
  <2>5. \A e, s : \A l \in Outputs : Waits(e, s, l)' <=> Waits(e, s, l)
    BY <1>6, <2>1, <2>2, <2>3, <2>4 DEF Waits
  <2> QED BY <2>1, <2>2, <2>3, <2>4, <2>5
<1>15. CommType' /\ IsFiniteSet(net)'
  <2>1. IsFiniteSet(net \ {m})
    BY <1>1, FS_RemoveElement
  <2>2. IsFiniteSet(net')
    BY <1>13, <2>1
  <2> QED BY <1>1, <1>6, <1>9, <1>13, <2>2 DEF CommType
<1>16. LiveInv'
  BY <1>1, <1>6, <1>11 DEF LiveInv
<1>17. SentInv'
  <2> SUFFICES ASSUME NEW e \in Tasks, Live(e) PROVE desc'[e].sent = Cardinality(Served(e)')
    BY <1>11 DEF SentInv
  <2>1. desc'[e] = desc[e]
    BY <1>11
  <2>2. Served(e)' = {p \in Pairs(desc[e].task) : p[2] \in desc[e].forwarded /\ ~ Waits(e, p[2], p[1])'}
    BY <2>1 DEF Served
  <2>3. Served(e) = {p \in Pairs(desc[e].task) : p[2] \in desc[e].forwarded /\ ~ Waits(e, p[2], p[1])}
    BY DEF Served
  <2>4. \A p \in Pairs(desc[e].task) : p[1] \in Outputs
    BY DEF Pairs
  <2>5. Served(e)' = Served(e)
    BY <1>14, <2>2, <2>3, <2>4
  <2> QED BY <1>1, <2>1, <2>5 DEF SentInv
<1>18. SingleInv'
  BY <1>1, <1>11 DEF SingleInv
<1>19. CommandInv' /\ MessageInv' /\ ServingInv'
  <2>1. net' \subseteq net
    BY <1>13
  <2> QED BY <1>1, <1>6, <1>12, <2>1, CommandKept, MessageLess, ServingKept
<1>20. OnePlace'
  BY <1>1, <1>14, OnePlaceKept
<1>21. ASSUME NEW u \in Tasks, NEW s \in Nodes, Accepted(u, s)' PROVE Accepted(u, s)
  <2>1. Accepted(t, n)
    BY <1>2 DEF Accepted, Receiving
  <2>2. CASE \E j \in Slots : Receiving(s, j, u)'
    <3> PICK j \in Slots : act'[s][j].state = "busy" /\ act'[s][j].task = u
      BY <2>2 DEF Receiving
    <3>1. CASE s = n /\ j = i
      BY <1>8, <1>9, <2>1, <3>1
    <3>2. CASE s # n \/ j # i
      BY <1>9, <3>2 DEF Accepted, Receiving
    <3> QED BY <3>1, <3>2
  <2>3. CASE \E l \in Outputs : released'[s][<<u, l>>] # <<>>
    <3> PICK l \in Outputs : released'[s][<<u, l>>] # <<>>
      BY <2>3
    <3>1. <<u, l>> \in Data
      BY DEF Data
    <3>2. CASE s = n /\ u = t
      BY <2>1, <3>2
    <3>3. CASE s # n \/ u # t
      <4>1. released'[s][<<u, l>>] = released[s][<<u, l>>]
        BY <1>10, <3>1, <3>3
      <4> QED BY <4>1 DEF Accepted
    <3> QED BY <3>2, <3>3
  <2> QED BY <1>21, <2>2, <2>3 DEF Accepted
<1>22. ReceiveInv'
  <2> SUFFICES ASSUME NEW q \in Nodes, NEW j \in Slots, act'[q][j].state = "busy"
        PROVE  /\ act'[q][j].task \in Tasks
               /\ act'[q][j].from = Rank[act'[q][j].task] /\ act'[q][j].from # q
               /\ act'[q][j].recv # {} /\ act'[q][j].which = act'[q][j].recv /\ act'[q][j].done = {}
               /\ act'[q][j].recv \subseteq Needed(act'[q][j].task, q)
               /\ \A l \in act'[q][j].recv : released'[q][<<act'[q][j].task, l>>] = <<>>
               /\ \A h \in Slots : act'[q][h].state = "busy" /\ act'[q][h].task = act'[q][j].task => j = h
    BY DEF ReceiveInv, Receiving
  <2>1. \A h \in Slots : act'[n][h].state = "busy" => act[n][h].state = "busy" /\ act'[n][h].task = act[n][h].task
    BY <1>2, <1>8, <1>9
  <2>2. CASE q = n /\ j = i
    <3>1. /\ slot.recv \ {k} # {} /\ act'[q][j].which = slot.recv \ {k} /\ act'[q][j].recv = slot.recv \ {k}
          /\ act'[q][j].done = {} /\ act'[q][j].from = slot.from /\ act'[q][j].task = t
      BY <1>8, <1>9, <2>2
    <3>2. ASSUME NEW l \in slot.recv \ {k} PROVE released'[n][<<t, l>>] = <<>>
      <4>1. l \in Outputs /\ <<t, l>> \in Data /\ <<t, l>> # <<t, k>>
        BY <1>3 DEF Needed, Data
      <4> QED BY <1>3, <1>10, <4>1
    <3>3. \A h \in Slots : act'[n][h].state = "busy" /\ act'[n][h].task = t => i = h
      BY <1>3, <2>1 DEF Receiving
    <3> QED BY <1>3, <2>2, <3>1, <3>2, <3>3
  <2>3. CASE q # n \/ j # i
    <3>1. act'[q][j] = act[q][j]
      BY <1>9, <2>3
    <3>2. act[q][j].task \in Tasks /\ act[q][j].recv \subseteq Needed(act[q][j].task, q)
          /\ \A l \in act[q][j].recv : released[q][<<act[q][j].task, l>>] = <<>>
      BY <1>1, <3>1 DEF ReceiveInv
    <3>3. q # n \/ act[q][j].task # t
      BY <1>3, <2>3, <3>1 DEF Receiving
    <3>4. ASSUME NEW l \in act[q][j].recv PROVE released'[q][<<act[q][j].task, l>>] = <<>>
      <4>1. l \in Outputs /\ <<act[q][j].task, l>> \in Data
        BY <3>2 DEF Needed, Data
      <4> QED BY <1>10, <3>2, <3>3, <4>1
    <3>5. \A h \in Slots : act'[q][h].state = "busy" => act[q][h].state = "busy" /\ act'[q][h].task = act[q][h].task
      BY <1>9, <2>1
    <3> QED BY <1>1, <3>1, <3>4, <3>5 DEF ReceiveInv, Receiving
  <2> QED BY <2>2, <2>3
<1>23. AcceptInv'
  <2> SUFFICES ASSUME NEW u \in Tasks, NEW s \in Nodes, Accepted(u, s)
               PROVE  /\ status[u] = "done"
                      /\ \A e \in Tasks : s # Rank[u] /\ Live(e) /\ desc'[e].task = u =>
                            s \in desc'[e].forwarded /\ ~ Queued(e, s) /\ ~ Announced(e, s)
    BY <1>6, <1>11, <1>14, <1>21 DEF AcceptInv
  <2> QED BY <1>1, <1>11 DEF AcceptInv
<1>24. ReleasedOnce'
  <2> SUFFICES ASSUME NEW q \in Nodes, NEW e \in Data PROVE Len(released'[q][e]) <= 1
    BY DEF ReleasedOnce
  <2>1. CASE q # n \/ e # <<t, k>>
    BY <1>1, <1>10, <2>1 DEF ReleasedOnce
  <2>2. CASE q = n /\ e = <<t, k>>
    <3>1. \A x : Len(<<x>>) = 1
      OBVIOUS
    <3>2. Len(released'[n][<<t, k>>]) = 1
      BY <1>10, <3>1
    <3> QED BY <2>2, <3>2
  <2> QED BY <2>1, <2>2
<1>25. CommInv'
  BY <1>11, <1>15, <1>16, <1>17, <1>18, <1>19, <1>20, <1>22, <1>23, <1>24 DEF CommInv
<1>26. LoopInv'
  <2> SUFFICES ASSUME NEW v \in Threads PROVE LoopOf(v)'
    BY DEF LoopInv
  <2>1. LoopOf(v) /\ thread'[v] = thread[v]
    BY <1>1, <1>6 DEF LoopInv
  <2>2. CASE ~ InLoop(v)
    BY <2>1, <2>2, LoopOfKept
  <2>3. CASE InLoop(v)
    <3>1. thread[v].deps \in Tasks /\ Rank[thread[v].deps] = v[1]
          /\ thread[v].task \in Tasks /\ Rank[thread[v].task] = v[1]
      BY <1>1, <2>1, <2>3 DEF LoopOf, InLoop, ThreadInv, ThreadOf
    <3>2. CASE desc'[thread[v].deps] = desc[thread[v].deps]
      BY <2>1, <3>2, LoopOfKept
    <3>3. CASE desc'[thread[v].deps] # desc[thread[v].deps]
      <4>1. Rank[thread[v].deps] = n /\ desc[thread[v].deps].task = NoTask /\ desc'[thread[v].deps].task = t
        BY <1>11, <3>1, <3>3
      <4>2. thread[v].task # t
        BY <1>3, <3>1, <4>1
      <4>3. ~ OwnDesc(v)
        BY <3>1, <4>1, BlankType, RemoteGraphAssumption DEF OwnDesc
      <4> QED BY <2>1, <4>1, <4>2, <4>3, LoopOfKept
    <3> QED BY <3>2, <3>3
  <2> QED BY <2>2, <2>3
<1>27. OnOffInv'
  <2>1. \A q \in Nodes : q # n => cmds'[q] = cmds[q] /\ act'[q] = act[q] /\ get'[q] = get[q]
    BY <1>6, <1>9
  <2> QED BY <1>1, <1>6, <2>1, OnOffKept
<1>28. FlyingExact'
  <2>1. ASSUME NEW q \in Nodes PROVE Flying(q)' = Flying(q)
    <3>1. Activations(cmds[q])' = Activations(cmds[q]) /\ BusySlots(q)' = BusySlots(q)
      BY <1>6 DEF Activations, BusySlots
    <3>2. ActsFrom(q)' = ActsFrom(q)
      BY <1>13 DEF ActsFrom
    <3>3. GetsTo(q)' = GetsTo(q)
      BY <1>13 DEF GetsTo
    <3> QED BY <3>1, <3>2, <3>3, FlyingSum
  <2> QED BY <1>1, <1>6, <2>1 DEF FlyingExact, Telling
<1>29. LeftInv' /\ TaskType'
  BY <1>1, <1>6, <1>10 DEF LeftInv, TaskType
<1>30. \A q \in Nodes, e \in Data : released[q][e] # <<>> => released'[q][e] # <<>>
  <2> SUFFICES ASSUME NEW q \in Nodes, NEW e \in Data, released[q][e] # <<>> PROVE released'[q][e] # <<>>
    OBVIOUS
  <2>1. CASE q # n \/ e # <<t, k>>
    BY <1>10, <2>1
  <2>2. CASE q = n /\ e = <<t, k>>
    BY <1>2, <1>3, <2>2
  <2> QED BY <2>1, <2>2
<1>31. UNCHANGED <<thread, status>>
  BY <1>6
<1>32. LocalInv'
  BY <1>26, <1>27, <1>28, <1>29, <1>30, <1>31, LocalKept
<1> QED BY <1>25, <1>32 DEF TransferInv

-----------------------------------------------------------------------------
(* The end of a sending.                                                   *)

\* An activation being served is nowhere else, and waits for the outputs of its
\* slot.
LEMMA Sending ==
    ASSUME TransferInv, NEW n \in Nodes, NEW i \in Slots, NEW slot, slot = get[n][i], slot.state = "busy",
           NEW d, d = slot.deps, NEW r, r = slot.to
    PROVE  /\ slot \in GetSlot /\ d \in Tasks /\ Rank[d] = n /\ Live(d) /\ r \in Nodes
           /\ desc[d].task \in Tasks /\ Rank[desc[d].task] = n
           /\ r \in desc[d].forwarded /\ r # n
           /\ slot.which # {} /\ slot.which \subseteq Needed(desc[d].task, r)
           /\ ~ Queued(d, r) /\ ~ Announced(d, r) /\ ~ Asked(d, r)
           /\ \A j \in Slots : Serving(d, r, j) <=> j = i
           /\ \A l \in Outputs : Waits(d, r, l) <=> l \in slot.which
<1>1. CommType /\ ServingInv /\ OnePlace /\ LiveInv
  BY DEF TransferInv, CommInv
<1>2. /\ d \in Tasks /\ Rank[d] = n /\ Live(d) /\ r \in desc[d].forwarded
      /\ slot.which # {} /\ slot.which \subseteq Needed(desc[d].task, r)
      /\ \A j \in Slots : get[n][j].state = "busy" /\ get[n][j].deps = d /\ get[n][j].to = r => j = i
  BY <1>1 DEF ServingInv
<1>3. slot \in GetSlot /\ r \in Nodes
  BY <1>1 DEF CommType, GetSlot
<1>4. desc[d].task \in Tasks /\ Rank[desc[d].task] = n /\ r # n
  BY <1>1, <1>2 DEF Live, LiveInv
<1>5. \A j \in Slots : Serving(d, r, j) <=> j = i
  BY <1>2 DEF Serving
<1>6. ~ Queued(d, r) /\ ~ Announced(d, r) /\ ~ Asked(d, r)
  BY <1>1, <1>2, <1>3, <1>5 DEF OnePlace
<1>7. \A l \in Outputs : Waits(d, r, l) <=> l \in slot.which
  BY <1>2, <1>5, <1>6 DEF Waits
<1> QED BY <1>2, <1>3, <1>4, <1>5, <1>6, <1>7

\* What has been sent is part of what the task sends.
LEMMA ServedFinite ==
    ASSUME NEW d \in Tasks, desc[d].task \in Tasks
    PROVE  /\ Served(d) \subseteq Pairs(desc[d].task)
           /\ IsFiniteSet(Served(d)) /\ Cardinality(Served(d)) \in Nat
<1>1. Served(d) \in SUBSET Pairs(desc[d].task)
  BY DEF Served
<1>2. IsFiniteSet(Pairs(desc[d].task))
  BY PairsFinite
<1>3. IsFiniteSet(Served(d))
  BY <1>1, <1>2, FS_Subset
<1> QED BY <1>1, <1>3, FS_CardinalityType

\* When the count is reached, the output that ends is the last one of all: no
\* rank waits for the descriptor any more, and every rank was told.
TheLast(slot, d, r, i, k) ==
    /\ slot.which = {k}
    /\ \A s \in Nodes : ~ Queued(d, s) /\ ~ Announced(d, s) /\ ~ Asked(d, s)
    /\ \A s \in Nodes, j \in Slots : Serving(d, s, j) => s = r /\ j = i
    /\ \A p \in Pairs(desc[d].task) : p[2] \in desc[d].forwarded

LEMMA LastSent ==
    ASSUME TransferInv, NEW n \in Nodes, NEW i \in Slots, NEW slot, slot = get[n][i],
           slot.state = "busy", NEW d, d = slot.deps, NEW r, r = slot.to, NEW k \in slot.which,
           desc[d].sent + 1 = desc[d].count
    PROVE  TheLast(slot, d, r, i, k)
<1> PICK t : t = desc[d].task
  OBVIOUS
<1>1. /\ CommType /\ LiveInv /\ SentInv /\ CommandInv /\ MessageInv /\ ServingInv /\ DescType
      /\ LoopInv /\ ThreadInv
  BY DEF TransferInv, LocalInv, CommInv
<1>2. /\ slot \in GetSlot /\ d \in Tasks /\ Rank[d] = n /\ Live(d) /\ r \in Nodes
      /\ t \in Tasks /\ Rank[t] = n
      /\ r \in desc[d].forwarded /\ r # n
      /\ slot.which # {} /\ slot.which \subseteq Needed(t, r)
      /\ ~ Queued(d, r) /\ ~ Announced(d, r) /\ ~ Asked(d, r)
      /\ \A j \in Slots : Serving(d, r, j) <=> j = i
      /\ \A l \in Outputs : Waits(d, r, l) <=> l \in slot.which
  <2>1. /\ slot \in GetSlot /\ d \in Tasks /\ Rank[d] = n /\ Live(d) /\ r \in Nodes
        /\ desc[d].task \in Tasks /\ Rank[desc[d].task] = n
        /\ r \in desc[d].forwarded /\ r # n
        /\ slot.which # {} /\ slot.which \subseteq Needed(desc[d].task, r)
        /\ ~ Queued(d, r) /\ ~ Announced(d, r) /\ ~ Asked(d, r)
        /\ \A j \in Slots : Serving(d, r, j) <=> j = i
        /\ \A l \in Outputs : Waits(d, r, l) <=> l \in slot.which
    <3>1. slot = get[n][i] /\ slot.state = "busy" /\ d = slot.deps /\ r = slot.to
      OBVIOUS
    <3> QED BY <3>1, Sending, Z3
  <2> QED BY <2>1
<1>3. /\ desc[d].sent = Cardinality(Served(d)) /\ desc[d].count = Cardinality(Pairs(t))
      /\ \A s \in desc[d].forwarded : s # n /\ Needed(t, s) # {}
  BY <1>1, <1>2 DEF LiveInv, SentInv
<1>4. <<k, r>> \in Pairs(t) /\ <<k, r>> \notin Served(d)
  <2>1. k \in Outputs /\ r \in RanksOf(t, k) /\ Waits(d, r, k)
    BY <1>2 DEF Needed
  <2> QED BY <1>2, <2>1 DEF Pairs, Served
<1>5. Served(d) \cup {<<k, r>>} = Pairs(t)
  <2>1. Served(d) \subseteq Pairs(t) /\ IsFiniteSet(Served(d)) /\ Cardinality(Served(d)) \in Nat
    BY <1>2, ServedFinite
  <2>2. IsFiniteSet(Pairs(t))
    BY <1>2, PairsFinite
  <2>3. Cardinality(Served(d) \cup {<<k, r>>}) = Cardinality(Served(d)) + 1
    BY <1>4, <2>1, FS_AddElement
  <2>4. Cardinality(Served(d) \cup {<<k, r>>}) = Cardinality(Pairs(t))
    BY <1>3, <2>3
  <2>5. (Served(d) \cup {<<k, r>>}) \in SUBSET Pairs(t)
    BY <1>4, <2>1
  <2> QED BY <2>2, <2>4, <2>5, FS_Subset
<1>6. ASSUME NEW s \in Nodes, NEW l \in Needed(t, s), Waits(d, s, l) PROVE s = r /\ l = k
  <2>1. <<l, s>> \in Pairs(t)
    BY DEF Needed, Pairs
  <2>2. <<l, s>> \notin Served(d)
    BY <1>6 DEF Served
  <2> QED BY <1>5, <2>1, <2>2
<1>7. ASSUME NEW s \in Nodes, Queued(d, s) \/ Announced(d, s) \/ Asked(d, s) PROVE FALSE
  <2>1. s \in desc[d].forwarded
    <3>1. CASE Queued(d, s)
      <4> PICK j \in DOMAIN cmds[n] : cmds[n][j] = TheActivation(s, d)
        BY <1>2, <3>1 DEF Queued, TheActivation
      <4>1. cmds[n][j].action = "activate" /\ cmds[n][j].deps = d /\ cmds[n][j].rank = s
        BY DEF TheActivation
      <4> QED BY <1>1, <4>1 DEF CommandInv
    <3>2. CASE Announced(d, s)
      BY <1>1, <3>2 DEF Announced, MessageInv
    <3>3. CASE Asked(d, s)
      BY <1>1, <3>3 DEF Asked, MessageInv
    <3> QED BY <1>7, <3>1, <3>2, <3>3
  <2>2. PICK l : l \in Needed(t, s)
    BY <1>3, <2>1
  <2>3. Waits(d, s, l)
    BY <1>7 DEF Waits
  <2> QED BY <1>2, <1>6, <1>7, <2>2, <2>3
<1>8. ASSUME NEW s \in Nodes, NEW j \in Slots, Serving(d, s, j) PROVE s = r /\ j = i
  <2>1. get[n][j].state = "busy" /\ get[n][j].deps = d /\ get[n][j].to = s
    BY <1>2, <1>8 DEF Serving
  <2>2. get[n][j].which # {} /\ get[n][j].which \subseteq Needed(t, s)
    BY <1>1, <2>1 DEF ServingInv
  <2>3. PICK l : l \in get[n][j].which
    BY <2>2
  <2>4. Waits(d, s, l) /\ l \in Needed(t, s)
    BY <1>2, <1>8, <2>2, <2>3 DEF Waits
  <2> QED BY <1>2, <1>6, <1>8, <2>4
<1>9. slot.which = {k}
  <2>1. ASSUME NEW l \in slot.which PROVE l = k
    <3>1. l \in Needed(t, r) /\ l \in Outputs
      BY <1>2 DEF Needed
    <3> QED BY <1>2, <1>6, <3>1
  <2> QED BY <2>1
<1>10. \A p \in Pairs(t) : p[2] \in desc[d].forwarded
  <2> SUFFICES ASSUME NEW p \in Pairs(t) PROVE p[2] \in desc[d].forwarded
    OBVIOUS
  <2>1. CASE p = <<k, r>>
    BY <1>2, <2>1
  <2>2. CASE p # <<k, r>>
    BY <1>5, <2>2 DEF Served
  <2> QED BY <2>1, <2>2
<1> QED BY <1>7, <1>8, <1>9, <1>10 DEF TheLast

\* If the tasks are such, the loop of the task has then met every rank.
LEMMA LoopIsOver ==
    ASSUME LoopOutlivesSends, TransferInv, NEW d \in Tasks, Live(d),
           \A p \in Pairs(desc[d].task) : p[2] \in desc[d].forwarded,
           NEW v \in Threads, InLoop(v), thread[v].deps = d, OwnDesc(v)
    PROVE  thread[v].left = 0
<1> PICK t, n : t = desc[d].task /\ n = Rank[d]
  OBVIOUS
<1>1. t \in Tasks /\ Rank[t] = n /\ n \in Nodes
  BY RemoteGraphAssumption DEF Live
<1>2. LoopInv /\ \A s \in desc[d].forwarded : s # n
  BY DEF TransferInv, LocalInv, CommInv, LiveInv
<1> SUFFICES ASSUME thread[v].left # 0 PROVE FALSE
  OBVIOUS
<1>3. /\ thread[v].task = t /\ thread[v].left = Cardinality(Unmet(v))
      /\ \A s \in desc[d].forwarded : \E p \in Pairs(t) \ Unmet(v) : p[2] = s
  BY <1>2 DEF LoopInv, LoopOf, OwnDesc
<1>4. Unmet(v) # {}
  <2>1. Cardinality({}) = 0
    BY FS_EmptySet
  <2> QED BY <1>3, <2>1
<1>5. PICK q : q \in Unmet(v)
  BY <1>4
<1>6. q \in Pairs(t)
  BY <1>3, <1>5 DEF Unmet
<1>7. PICK p \in Pairs(t) \ Unmet(v) : p[2] = q[2]
  BY <1>3, <1>6
<1>8. CASE \E l \in Outputs : Rank[t] \in RanksOf(t, l)
  <2>1. PICK l \in Outputs : n \in RanksOf(t, l)
    BY <1>1, <1>8
  <2>2. <<l, n>> \in Pairs(t)
    BY <1>1, <2>1 DEF Pairs
  <2>3. n \in desc[d].forwarded
    BY <2>2
  <2> QED BY <1>2, <2>3
<1>9. CASE \A s \in Nodes : \A l, h \in Needed(t, s) : l = h
  <2>1. p[1] \in Needed(t, p[2]) /\ q[1] \in Needed(t, q[2]) /\ q[2] \in Nodes
    BY <1>6 DEF Pairs, Needed
  <2>2. p[1] = q[1]
    BY <1>7, <1>9, <2>1
  <2>3. p = q
    BY <1>6, <1>7, <2>2 DEF Pairs
  <2> QED BY <1>5, <2>3
<1> QED BY <1>1, <1>8, <1>9 DEF LoopOutlivesSends

\* A slot whose output k has been sent.
Shrunk(slot, k) ==
    IF slot.which \ {k} = {} THEN Posted(NoGet) ELSE [slot EXCEPT !.which = slot.which \ {k}]

LEMMA ShrunkEffect ==
    ASSUME NEW slot \in GetSlot, slot.state = "busy", NEW k \in slot.which
    PROVE  LET b == Shrunk(slot, k)
           IN  /\ b \in GetSlot
               /\ slot.which = {k} => b.state = "posted"
               /\ slot.which # {k} =>
                     /\ b.state = "busy" /\ b.deps = slot.deps /\ b.to = slot.to
                     /\ b.which = slot.which \ {k} /\ b.which # {}
<1>1. CASE slot.which = {k}
  <2>1. slot.which \ {k} = {}
    BY <1>1
  <2> QED BY <1>1, <2>1, NothingTypes DEF Shrunk
<1>2. CASE slot.which # {k}
  <2>1. slot.which \ {k} # {} /\ slot.which \ {k} \in SUBSET Outputs
    BY <1>2 DEF GetSlot
  <2> PICK b : b = [slot EXCEPT !.which = slot.which \ {k}]
    OBVIOUS
  <2>2. b \in GetSlot /\ b.state = "busy" /\ b.deps = slot.deps /\ b.to = slot.to /\ b.which = slot.which \ {k}
    BY <2>1 DEF GetSlot
  <2>3. Shrunk(slot, k) = b
    BY <2>1 DEF Shrunk
  <2> QED BY <1>2, <2>1, <2>2, <2>3
<1> QED BY <1>1, <1>2

\* What the end of a sending changes besides the descriptors.
SentOne(n, i, k) ==
    /\ get' = SetSlot(get, n, i, Shrunk(get[n][i], k))
    /\ todo' = [todo EXCEPT ![n] = IF get[n][i].which = {k} THEN @ - 1 ELSE @]
    /\ freed' \subseteq Received
    /\ UNCHANGED <<status, released, thread, cmds, enabled, act, nexttag, net>>

\* The activation stops flying with its last output.
LEMMA SentOneFlying ==
    ASSUME TransferInv, NEW n \in Nodes, NEW i \in Slots, NEW k \in get[n][i].which,
           get[n][i].state = "busy", SentOne(n, i, k)
    PROVE  FlyingExact' /\ LeftInv' /\ TaskType' /\ CommType' /\ OnOffInv'
<1>1. CommType /\ IsFiniteSet(net) /\ TaskType /\ FlyingExact /\ LeftInv /\ OnOffInv
  BY DEF TransferInv, LocalInv, CommInv
<1> PICK slot, b : slot = get[n][i] /\ b = Shrunk(slot, k)
  OBVIOUS
<1>2. slot \in GetSlot
  BY <1>1 DEF CommType
<1>3. /\ b \in GetSlot
      /\ slot.which = {k} => b.state = "posted"
      /\ slot.which # {k} => b.state = "busy"
  BY <1>2, ShrunkEffect
<1>4. /\ get' \in [Nodes -> [Slots -> GetSlot]] /\ get'[n][i] = b
      /\ \A q \in Nodes, j \in Slots : q # n \/ j # i => get'[q][j] = get[q][j]
      /\ \A q \in Nodes : q # n => get'[q] = get[q]
  <2>1. get \in [Nodes -> [Slots -> GetSlot]] /\ get' = SetSlot(get, n, i, b)
    BY <1>1 DEF CommType, SentOne
  <2> QED BY <1>3, <2>1, GetChange
<1>5. UNCHANGED <<status, released, thread, cmds, enabled, act, nexttag, net>>
  BY DEF SentOne
<1>6. /\ todo' \in [Nodes -> Int] /\ \A q \in Nodes : q # n => todo'[q] = todo[q]
      /\ slot.which = {k} => todo'[n] = todo[n] - 1
      /\ slot.which # {k} => todo'[n] = todo[n]
  BY <1>1 DEF SentOne, TaskType
<1>7. TaskType' /\ CommType'
  BY <1>1, <1>4, <1>5, <1>6 DEF TaskType, CommType, SentOne
<1>8. \A q \in Nodes : Untaken(q)' = Untaken(q)
  BY <1>5 DEF Untaken, Waiting, Telling
<1>9. \A q \in Nodes : /\ Activations(cmds[q])' = Activations(cmds[q])
                       /\ ActsFrom(q)' = ActsFrom(q) /\ GetsTo(q)' = GetsTo(q)
  BY <1>5 DEF Activations, ActsFrom, GetsTo
<1>10. todo[n] = Untaken(n) + Flying(n) /\ \A q \in Nodes : todo[q] = Untaken(q) + Flying(q)
  BY <1>1, FlyingIs
<1>11. i \in BusySlots(n)
  BY DEF BusySlots
<1>12. /\ IsFiniteSet(BusySlots(n)) /\ Cardinality(BusySlots(n)) \in Nat /\ Untaken(n) \in Nat
       /\ Cardinality(Activations(cmds[n])) \in Nat /\ Cardinality(ActsFrom(n)) \in Nat
       /\ Cardinality(GetsTo(n)) \in Nat /\ Flying(n) \in Nat
  BY <1>1, FlyingParts, UntakenType
<1>13. Cardinality(BusySlots(n)) # 0
  BY <1>11, <1>12, FS_EmptySet
<1>14. ASSUME NEW q \in Nodes PROVE todo'[q] = Untaken(q)' + Flying(q)'
  <2>1. CASE q # n \/ slot.which # {k}
    <3>1. BusySlots(q)' = BusySlots(q)
      BY <1>3, <1>4, <1>11, <2>1 DEF BusySlots
    <3>2. Flying(q)' = Flying(q)
      BY <1>9, <3>1, FlyingSum
    <3> QED BY <1>6, <1>8, <1>10, <2>1, <3>2
  <2>2. CASE q = n /\ slot.which = {k}
    <3>1. BusySlots(n)' = BusySlots(n) \ {i}
      BY <1>3, <1>4, <2>2 DEF BusySlots
    <3>2. Cardinality(BusySlots(n) \ {i}) = Cardinality(BusySlots(n)) - 1
      BY <1>11, <1>12, FS_RemoveElement
    <3>3. Cardinality(BusySlots(n)') = Cardinality(BusySlots(n)) - 1
      BY <3>1, <3>2
    <3>pick. PICK u, x, y, z, f : /\ u = Untaken(n) /\ x = Cardinality(Activations(cmds[n]))
                                 /\ y = Cardinality(ActsFrom(n)) /\ z = Cardinality(GetsTo(n))
                                 /\ f = Cardinality(BusySlots(n))
      OBVIOUS
    <3>4. u \in Nat /\ x \in Nat /\ y \in Nat /\ z \in Nat /\ f \in Nat
      BY <3>pick, <1>12
    <3>5. Flying(n) = x + y + z + f
      BY <3>pick, FlyingSum
    <3>6. Flying(n)' = x + y + z + (f - 1)
      <4>1. /\ Cardinality(Activations(cmds[n])') = x /\ Cardinality(ActsFrom(n)') = y
            /\ Cardinality(GetsTo(n)') = z /\ Cardinality(BusySlots(n)') = f - 1
        BY <3>pick, <1>9, <3>3
      <4> QED BY <4>1, FlyingSum
    <3>7. todo[n] = u + Flying(n) /\ todo'[n] = todo[n] - 1
      BY <3>pick, <1>6, <1>10, <2>2
    <3>8. Untaken(n)' = u
      BY <3>pick, <1>8
    <3>9. todo'[n] = u + (x + y + z + (f - 1))
      BY <3>4, <3>5, <3>7
    <3> QED BY <2>2, <3>6, <3>8, <3>9
  <2> QED BY <2>1, <2>2
<1>15. FlyingExact'
  BY <1>14 DEF FlyingExact, Waiting, Untaken
<1>16. LeftInv'
  <2>1. todo[n] # 0
    <3>pick. PICK u, x, y, z, f : /\ u = Untaken(n) /\ x = Cardinality(Activations(cmds[n]))
                                 /\ y = Cardinality(ActsFrom(n)) /\ z = Cardinality(GetsTo(n))
                                 /\ f = Cardinality(BusySlots(n))
      OBVIOUS
    <3>1. f # 0
      BY <3>pick, <1>13
    <3>2. u \in Nat /\ x \in Nat /\ y \in Nat /\ z \in Nat /\ f \in Nat
      BY <3>pick, <1>12
    <3>3. Flying(n) = x + y + z + f
      BY <3>pick, FlyingSum
    <3>4. todo[n] = u + Flying(n)
      BY <3>pick, <1>10
    <3>5. u + (x + y + z + f) # 0
      BY <3>1, <3>2
    <3>6. todo[n] = u + (x + y + z + f)
      BY <3>3, <3>4
    <3> QED BY <3>5, <3>6
  <2> QED BY <1>1, <1>5, <1>6, <2>1 DEF LeftInv
<1>17. OnOffInv'
  <2>1. enabled[n]
    BY <1>1 DEF OnOffInv
  <2>2. \A q \in Nodes : q # n => cmds'[q] = cmds[q] /\ act'[q] = act[q] /\ get'[q] = get[q]
    BY <1>4, <1>5
  <2> QED BY <1>1, <1>5, <2>1, <2>2, OnOffKept
<1> QED BY <1>7, <1>15, <1>16, <1>17

\* A descriptor that is cleaned belongs to no task, and goes to the head of the
\* free list.
Recycled(d) == [Blank EXCEPT !.forwarded = desc[d].forwarded]

LEMMA RecycledType ==
    ASSUME DescType, NEW d \in Tasks
    PROVE  Recycled(d) \in Descriptor /\ Recycled(d).task = NoTask
BY BlankType DEF DescType, Recycled, Descriptor, Blank

Cleaned(n, d) ==
    /\ DescType' /\ FreeInv' /\ ~ Live(d)'
    /\ \A e \in Tasks : e # d => desc'[e] = desc[e]

LEMMA CleanedEffect ==
    ASSUME DescType, FreeInv, NEW n \in Nodes, NEW d \in Tasks, Rank[d] = n, status[d] = "done",
           desc[d].task # NoTask, UNCHANGED status,
           desc' = [desc EXCEPT ![d] = Recycled(d)], freelist' = [freelist EXCEPT ![n] = <<d>> \o @]
    PROVE  Cleaned(n, d)
<1>1. /\ desc' \in [Tasks -> Descriptor] /\ desc'[d].task = NoTask
      /\ \A e \in Tasks : e # d => desc'[e] = desc[e]
  BY RecycledType DEF DescType
<1>2. ~ Live(d)'
  BY <1>1, RemoteGraphAssumption DEF Live
<1> PICK q, p : q = freelist[n] /\ p = <<d>> \o q
  OBVIOUS
<1>3. q \in Seq(Tasks) /\ <<d>> \in Seq(Tasks) /\ Len(<<d>>) = 1 /\ <<d>>[1] = d
  BY DEF DescType
<1>4. /\ p \in Seq(Tasks) /\ Len(q) \in Nat /\ DOMAIN q = 1..Len(q) /\ DOMAIN p = 1..(Len(q) + 1)
      /\ p[1] = d /\ \A i \in DOMAIN q : p[i + 1] = q[i]
  BY <1>3
<1>5. freelist' \in [Nodes -> Seq(Tasks)] /\ freelist'[n] = p /\ \A m \in Nodes : m # n => freelist'[m] = freelist[m]
  BY <1>4 DEF DescType
<1>6. ASSUME NEW m \in Nodes, NEW i \in DOMAIN freelist[m]
      PROVE  /\ freelist[m][i] \in Tasks /\ freelist[m][i] # d
             /\ Rank[freelist[m][i]] = m
             /\ status[freelist[m][i]] = "done"
             /\ desc'[freelist[m][i]].task = NoTask
             /\ \A j \in DOMAIN freelist[m] : freelist[m][i] = freelist[m][j] => i = j
  BY <1>1 DEF FreeInv, DescType
<1>7. ASSUME NEW i \in DOMAIN p
      PROVE  /\ Rank[p[i]] = n /\ status[p[i]] = "done" /\ desc'[p[i]].task = NoTask
             /\ \A j \in DOMAIN p : p[i] = p[j] => i = j
  <2>1. ASSUME NEW j \in DOMAIN p, j # 1
        PROVE  j - 1 \in DOMAIN q /\ p[j] = q[j - 1] /\ j \in Nat
    <3>1. j \in Nat /\ j - 1 \in DOMAIN q /\ (j - 1) + 1 = j
      BY <1>4, <2>1
    <3>2. p[(j - 1) + 1] = q[j - 1]
      BY <1>4, <3>1
    <3> QED BY <3>1, <3>2
  <2>2. CASE i = 1
    <3>1. \A j \in DOMAIN p : p[j] = d => j = 1
      BY <1>6, <2>1
    <3> QED BY <1>1, <1>4, <2>2, <3>1
  <2>3. CASE i # 1
    <3>1. i - 1 \in DOMAIN q /\ p[i] = q[i - 1] /\ i \in Nat
      BY <2>1, <2>3
    <3>2. /\ q[i - 1] # d /\ Rank[q[i - 1]] = n /\ status[q[i - 1]] = "done" /\ desc'[q[i - 1]].task = NoTask
          /\ \A j \in DOMAIN q : q[i - 1] = q[j] => i - 1 = j
      BY <1>6, <3>1
    <3>3. ASSUME NEW j \in DOMAIN p, p[i] = p[j] PROVE i = j
      <4>1. j # 1
        BY <1>4, <3>1, <3>2, <3>3
      <4>2. j - 1 \in DOMAIN q /\ p[j] = q[j - 1] /\ j \in Nat
        BY <2>1, <4>1
      <4>3. i - 1 = j - 1
        BY <3>1, <3>2, <3>3, <4>2
      <4> QED BY <3>1, <4>2, <4>3
    <3> QED BY <3>1, <3>2, <3>3
  <2> QED BY <2>2, <2>3
<1>8. FreeInv'
  <2>1. \A e \in Tasks : status'[e] # "done" => desc'[e].task = NoTask
    BY <1>1 DEF FreeInv
  <2>2. ASSUME NEW m \in Nodes, NEW i \in DOMAIN freelist'[m]
        PROVE  /\ Rank[freelist'[m][i]] = m
               /\ status'[freelist'[m][i]] = "done"
               /\ desc'[freelist'[m][i]].task = NoTask
               /\ \A j \in DOMAIN freelist'[m] : freelist'[m][i] = freelist'[m][j] => i = j
    <3>1. CASE m = n
      BY <1>5, <1>7, <2>2, <3>1
    <3>2. CASE m # n
      BY <1>5, <1>6, <2>2, <3>2
    <3> QED BY <3>1, <3>2
  <2> QED BY <2>1, <2>2 DEF FreeInv
<1> QED BY <1>1, <1>2, <1>5, <1>8 DEF Cleaned, DescType

\* A descriptor that has sent one more output.
CountOne(d) == desc' = [desc EXCEPT ![d].sent = @ + 1]

LEMMA CountOneEffect ==
    ASSUME DescType, NEW d \in Tasks, CountOne(d)
    PROVE  /\ desc' \in [Tasks -> Descriptor]
           /\ \A e \in Tasks : e # d => desc'[e] = desc[e]
           /\ desc'[d].task = desc[d].task /\ desc'[d].output = desc[d].output
           /\ desc'[d].count = desc[d].count /\ desc'[d].sent = desc[d].sent + 1
           /\ desc'[d].forwarded = desc[d].forwarded
<1>1. desc[d] \in Descriptor
  BY DEF DescType
<1>2. [desc[d] EXCEPT !.sent = desc[d].sent + 1] \in Descriptor
  BY <1>1 DEF Descriptor
<1>3. desc' \in [Tasks -> Descriptor]
  BY <1>2 DEF CountOne, DescType
<1>4. \A e \in Tasks : e # d => desc'[e] = desc[e]
  BY DEF CountOne, DescType
<1>5. /\ desc'[d].task = desc[d].task /\ desc'[d].output = desc[d].output
      /\ desc'[d].count = desc[d].count /\ desc'[d].sent = desc[d].sent + 1
      /\ desc'[d].forwarded = desc[d].forwarded
  BY <1>1 DEF CountOne, DescType, Descriptor
<1> QED BY <1>3, <1>4, <1>5

\* An activation waits for one output less.
LEMMA SentOneTokens ==
    ASSUME TransferInv, NEW n \in Nodes, NEW i \in Slots, NEW slot, slot = get[n][i], slot.state = "busy",
           NEW d, d = slot.deps, NEW r, r = slot.to, NEW k \in slot.which, SentOne(n, i, k)
    PROVE  /\ \A e, s : /\ Queued(e, s)' <=> Queued(e, s)
                        /\ Announced(e, s)' <=> Announced(e, s)
                        /\ Asked(e, s)' <=> Asked(e, s)
           /\ get'[n][i].state = "busy" =>
                 /\ slot.which # {k} /\ get'[n][i].deps = d /\ get'[n][i].to = r
                 /\ get'[n][i].which = slot.which \ {k} /\ get'[n][i].which # {}
           /\ slot.which # {k} => get'[n][i].state = "busy"
           /\ \A q \in Nodes, j \in Slots : q # n \/ j # i => get'[q][j] = get[q][j]
           /\ \A e \in Tasks, s \in Nodes : \A j \in Slots : Serving(e, s, j)' => Serving(e, s, j)
           /\ \A e \in Tasks, s \in Nodes : \A l \in Outputs :
                 Waits(e, s, l)' <=> Waits(e, s, l) /\ ~ (e = d /\ s = r /\ l = k)
<1>1. CommType
  BY DEF TransferInv, CommInv
<1> PICK b : b = Shrunk(slot, k)
  OBVIOUS
<1>2. slot \in GetSlot
  BY <1>1 DEF CommType
<1>3. /\ b \in GetSlot
      /\ slot.which = {k} => b.state = "posted"
      /\ slot.which # {k} => /\ b.state = "busy" /\ b.deps = slot.deps /\ b.to = slot.to
                             /\ b.which = slot.which \ {k} /\ b.which # {}
  BY <1>2, ShrunkEffect
<1>4. /\ get' \in [Nodes -> [Slots -> GetSlot]] /\ get'[n][i] = b
      /\ \A q \in Nodes, j \in Slots : q # n \/ j # i => get'[q][j] = get[q][j]
  <2>1. get \in [Nodes -> [Slots -> GetSlot]] /\ get' = SetSlot(get, n, i, b)
    BY <1>1 DEF CommType, SentOne
  <2> QED BY <1>3, <2>1, GetChange
<1>5. \A e, s : /\ Queued(e, s)' <=> Queued(e, s)
                /\ Announced(e, s)' <=> Announced(e, s)
                /\ Asked(e, s)' <=> Asked(e, s)
  BY DEF SentOne, Queued, Announced, Asked
<1>6. /\ get'[n][i].state = "busy" =>
            /\ slot.which # {k} /\ get'[n][i].deps = d /\ get'[n][i].to = r
            /\ get'[n][i].which = slot.which \ {k} /\ get'[n][i].which # {}
      /\ slot.which # {k} => get'[n][i].state = "busy"
  BY <1>3, <1>4
<1>7. ASSUME NEW e \in Tasks, NEW s \in Nodes, NEW j \in Slots
      PROVE  /\ Serving(e, s, j)' => Serving(e, s, j)
             /\ \A l \in Outputs :
                   Serving(e, s, j)' /\ l \in get'[Rank[e]][j].which
                     <=> Serving(e, s, j) /\ l \in get[Rank[e]][j].which /\ ~ (Rank[e] = n /\ j = i /\ l = k)
  <2>1. Rank[e] \in Nodes
    BY RemoteGraphAssumption
  <2>2. CASE Rank[e] = n /\ j = i
    BY <1>3, <1>4, <2>2 DEF Serving
  <2>3. CASE Rank[e] # n \/ j # i
    <3>1. get'[Rank[e]][j] = get[Rank[e]][j]
      BY <1>4, <2>1, <2>3
    <3> QED BY <2>3, <3>1 DEF Serving
  <2> QED BY <2>2, <2>3
<1>8. /\ Rank[d] = n /\ d \in Tasks /\ r \in Nodes
      /\ ~ Queued(d, r) /\ ~ Announced(d, r) /\ ~ Asked(d, r)
      /\ \A j \in Slots : Serving(d, r, j) <=> j = i
  BY Sending
<1>9. ASSUME NEW e \in Tasks, NEW s \in Nodes, NEW l \in Outputs
      PROVE  Waits(e, s, l)' <=> Waits(e, s, l) /\ ~ (e = d /\ s = r /\ l = k)
  <2>1. CASE e = d /\ s = r
    <3>1. Waits(d, r, l)' <=> \E j \in Slots : Serving(d, r, j)' /\ l \in get'[Rank[d]][j].which
      BY <1>5, <1>8 DEF Waits
    <3>2. Waits(d, r, l) <=> \E j \in Slots : Serving(d, r, j) /\ l \in get[Rank[d]][j].which
      BY <1>8 DEF Waits
    <3>3. \A j \in Slots : Serving(d, r, j)' /\ l \in get'[Rank[d]][j].which
             <=> Serving(d, r, j) /\ l \in get[Rank[d]][j].which /\ ~ (j = i /\ l = k)
      BY <1>7, <1>8
    <3>4. \A j \in Slots : Serving(d, r, j) /\ l \in get[Rank[d]][j].which /\ ~ (j = i /\ l = k)
             <=> Serving(d, r, j) /\ l \in get[Rank[d]][j].which /\ l # k
      BY <1>8
    <3> QED BY <2>1, <3>1, <3>2, <3>3, <3>4
  <2>2. CASE ~ (e = d /\ s = r)
    <3>1. \A j \in Slots : Serving(e, s, j)' /\ l \in get'[Rank[e]][j].which
             <=> Serving(e, s, j) /\ l \in get[Rank[e]][j].which
      <4>1. ~ (Rank[e] = n /\ Serving(e, s, i))
        BY <2>2 DEF Serving
      <4> QED BY <1>7, <4>1
    <3> QED BY <1>5, <2>2, <3>1 DEF Waits
  <2> QED BY <2>1, <2>2
<1>10. \A e \in Tasks, s \in Nodes : \A j \in Slots : Serving(e, s, j)' => Serving(e, s, j)
  BY <1>7
<1> QED BY <1>4, <1>5, <1>6, <1>9, <1>10

LEMMA SentOneRest ==
    ASSUME TransferInv, NEW n \in Nodes, NEW i \in Slots, NEW slot, slot = get[n][i], slot.state = "busy",
           NEW d, d = slot.deps, NEW k \in slot.which, SentOne(n, i, k),
           DescType', FreeInv', SentInv', LoopInv',
           \A e \in Tasks : e # d => desc'[e] = desc[e],
           Live(d)' => /\ desc'[d].task = desc[d].task /\ desc'[d].output = desc[d].output
                       /\ desc'[d].count = desc[d].count /\ desc'[d].forwarded = desc[d].forwarded,
           Live(d)' \/ /\ \A s \in Nodes : ~ Queued(d, s) /\ ~ Announced(d, s) /\ ~ Asked(d, s)
                       /\ slot.which = {k} /\ \A s \in Nodes, j \in Slots : Serving(d, s, j) => j = i
    PROVE  TransferInv'
<1> PICK r : r = slot.to
  OBVIOUS
<1>1. /\ CommType /\ LiveInv /\ SingleInv /\ CommandInv /\ MessageInv /\ ServingInv /\ OnePlace
      /\ ReceiveInv /\ AcceptInv /\ ReleasedOnce /\ IsFiniteSet(net)
  BY DEF TransferInv, CommInv
<1>2. UNCHANGED <<status, released, thread, cmds, enabled, act, nexttag, net>>
  BY DEF SentOne
<1>3. FlyingExact' /\ LeftInv' /\ TaskType' /\ CommType' /\ OnOffInv'
  BY SentOneFlying
<1>4. LocalInv'
  <2>1. \A q \in Nodes, e \in Data : released[q][e] # <<>> => released'[q][e] # <<>>
    BY <1>2
  <2> QED BY <1>2, <1>3, <2>1, LocalKept
<1>5. d \in Tasks /\ Rank[d] = n /\ Live(d) /\ r \in Nodes
  BY Sending
<1>6. /\ \A e, s : /\ Queued(e, s)' <=> Queued(e, s)
                   /\ Announced(e, s)' <=> Announced(e, s)
                   /\ Asked(e, s)' <=> Asked(e, s)
      /\ get'[n][i].state = "busy" =>
            /\ slot.which # {k} /\ get'[n][i].deps = d /\ get'[n][i].to = r
            /\ get'[n][i].which = slot.which \ {k} /\ get'[n][i].which # {}
      /\ \A q \in Nodes, j \in Slots : q # n \/ j # i => get'[q][j] = get[q][j]
      /\ \A e \in Tasks, s \in Nodes : \A j \in Slots : Serving(e, s, j)' => Serving(e, s, j)
  BY SentOneTokens
<1>7. \A e \in Tasks : Live(e)' => /\ Live(e) /\ desc'[e].task = desc[e].task /\ desc'[e].output = desc[e].output
                                   /\ desc'[e].count = desc[e].count /\ desc'[e].forwarded = desc[e].forwarded
  BY <1>5 DEF Live
<1>8. \A e \in Tasks : e # d /\ Live(e) => Live(e)'
  BY DEF Live
<1>9. LiveInv'
  BY <1>1, <1>2, <1>7 DEF LiveInv
<1>10. SingleInv'
  BY <1>1, <1>7 DEF SingleInv
<1>11. CommandInv'
  <2> SUFFICES ASSUME NEW q \in Nodes, NEW j \in DOMAIN cmds[q], cmds[q][j].action = "activate"
               PROVE  /\ Rank[cmds[q][j].deps] = q
                      /\ desc'[cmds[q][j].deps].task \in Tasks
                      /\ Rank[desc'[cmds[q][j].deps].task] = Rank[cmds[q][j].deps]
                      /\ cmds[q][j].rank \in desc'[cmds[q][j].deps].forwarded
                      /\ \A h \in DOMAIN cmds[q] : cmds[q][j] = cmds[q][h] => j = h
    BY <1>2 DEF CommandInv, Live
  <2>1. cmds[q][j] \in Command
    BY <1>1 DEF CommType
  <2> PICK e, s : e = cmds[q][j].deps /\ s = cmds[q][j].rank
    OBVIOUS
  <2>2. e \in Tasks /\ s \in Nodes /\ cmds[q][j] = [action |-> "activate", rank |-> s, deps |-> e]
    BY <2>1 DEF Command
  <2>3. Rank[e] = q /\ Live(e) /\ s \in desc[e].forwarded
        /\ \A h \in DOMAIN cmds[q] : cmds[q][j] = cmds[q][h] => j = h
    BY <1>1 DEF CommandInv
  <2>4. Queued(e, s)
    BY <2>2, <2>3 DEF Queued
  <2>5. Live(e)'
    BY <1>8, <2>2, <2>3, <2>4
  <2>6. desc'[e].task \in Tasks /\ Rank[desc'[e].task] = Rank[e] /\ s \in desc'[e].forwarded
    BY <1>7, <2>2, <2>3, <2>5 DEF Live
  <2> QED BY <2>3, <2>6
<1>12. \A m \in net : m.type = "activate" \/ m.type = "get" => Live(m.deps)' /\ m.deps \in Tasks
  <2> SUFFICES ASSUME NEW m \in net, m.type = "activate" \/ m.type = "get" PROVE Live(m.deps)' /\ m.deps \in Tasks
    OBVIOUS
  <2>1. m.deps \in Tasks /\ m.from \in Nodes /\ m.to \in Nodes
    BY <1>1, MessageType
  <2>2. Live(m.deps)
    BY <1>1 DEF MessageInv
  <2>3. Announced(m.deps, m.to) \/ Asked(m.deps, m.from)
    BY DEF Announced, Asked
  <2> QED BY <1>8, <2>1, <2>2, <2>3
<1>13. MessageInv'
  BY <1>1, <1>2, <1>7, <1>12 DEF MessageInv
<1>14. ServingInv'
  <2> SUFFICES ASSUME NEW q \in Nodes, NEW j \in Slots, get'[q][j].state = "busy"
               PROVE  /\ get'[q][j].deps \in Tasks /\ Rank[get'[q][j].deps] = q
                      /\ desc'[get'[q][j].deps].task \in Tasks
                      /\ Rank[desc'[get'[q][j].deps].task] = Rank[get'[q][j].deps]
                      /\ get'[q][j].to \in desc'[get'[q][j].deps].forwarded
                      /\ get'[q][j].which # {}
                      /\ get'[q][j].which \subseteq Needed(desc'[get'[q][j].deps].task, get'[q][j].to)
                      /\ \A h \in Slots : get'[q][h].state = "busy" /\ get'[q][h].deps = get'[q][j].deps
                             /\ get'[q][h].to = get'[q][j].to => h = j
    BY DEF ServingInv, Live
  <2>1. \A h \in Slots : get'[q][h].state = "busy" =>
           /\ get[q][h].state = "busy" /\ get'[q][h].deps = get[q][h].deps /\ get'[q][h].to = get[q][h].to
           /\ get'[q][h].which \subseteq get[q][h].which /\ get'[q][h].which # {}
    BY <1>1, <1>6 DEF ServingInv
  <2> PICK e, s : e = get[q][j].deps /\ s = get[q][j].to
    OBVIOUS
  <2>2. /\ e \in Tasks /\ Rank[e] = q /\ Live(e) /\ s \in desc[e].forwarded
        /\ get[q][j].which \subseteq Needed(desc[e].task, s)
        /\ \A h \in Slots : get[q][h].state = "busy" /\ get[q][h].deps = e /\ get[q][h].to = s => h = j
    BY <1>1, <2>1 DEF ServingInv
  <2>3. Live(e)'
    <3>1. CASE e # d
      BY <1>8, <2>2, <3>1
    <3>2. CASE e = d
      <4>1. s \in Nodes
        BY <1>1 DEF CommType, GetSlot
      <4>2. Serving(d, s, j)
        <5>1. get[q][j].state = "busy" /\ get[q][j].deps = d /\ get[q][j].to = s /\ q = Rank[d]
          BY <2>1, <2>2, <3>2
        <5> QED BY <5>1 DEF Serving
      <4>3. j = i => slot.which # {k}
        BY <1>5, <1>6, <2>2, <3>2
      <4> QED BY <3>2, <4>1, <4>2, <4>3
    <3> QED BY <3>1, <3>2
  <2>4. /\ get'[q][j].deps = e /\ get'[q][j].to = s
        /\ get'[q][j].which # {} /\ get'[q][j].which \subseteq Needed(desc[e].task, s)
    BY <2>1, <2>2
  <2>5. \A h \in Slots : get'[q][h].state = "busy" /\ get'[q][h].deps = e /\ get'[q][h].to = s => h = j
    BY <2>1, <2>2
  <2>6. desc'[e].task \in Tasks /\ Rank[desc'[e].task] = Rank[e] /\ s \in desc'[e].forwarded
        /\ desc'[e].task = desc[e].task
    BY <1>7, <2>2, <2>3 DEF Live
  <2> QED BY <2>2, <2>4, <2>5, <2>6
<1>15. OnePlace'
  BY <1>1, <1>6, OnePlaceKept
<1>16. ReceiveInv' /\ ReleasedOnce'
  BY <1>1, <1>2 DEF ReceiveInv, Receiving, ReleasedOnce
<1>17. AcceptInv'
  <2>1. \A u, s : Accepted(u, s)' <=> Accepted(u, s)
    BY <1>2 DEF Accepted, Receiving
  <2> QED BY <1>1, <1>2, <1>6, <1>7, <2>1 DEF AcceptInv
<1>18. IsFiniteSet(net)'
  BY <1>1, <1>2
<1>19. CommInv'
  BY <1>3, <1>9, <1>10, <1>11, <1>13, <1>14, <1>15, <1>16, <1>17, <1>18 DEF CommInv
<1> QED BY <1>4, <1>19 DEF TransferInv

LEMMA PutEndStep ==
    ASSUME TransferInv, LoopOwnsDesc', NEW n \in Nodes, NEW i \in Slots, NEW k \in Outputs, PutEnd(n, i, k)
    PROVE  TransferInv'
<1> PICK slot, d, r, t : slot = get[n][i] /\ d = slot.deps /\ r = slot.to /\ t = desc[d].task
  OBVIOUS
<1>1. slot.state = "busy" /\ k \in slot.which /\ Cleanup(n, d)
  BY DEF PutEnd
<1>2. SentOne(n, i, k)
  <2>1. get' = SetSlot(get, n, i, Shrunk(get[n][i], k))
    BY DEF PutEnd, SetSlot, Shrunk
  <2>2. todo' = [todo EXCEPT ![n] = IF get[n][i].which = {k} THEN @ - 1 ELSE @]
    BY DEF PutEnd, LastOutput
  <2>3. freed' \subseteq Received
    BY DEF PutEnd, Unref, TransferInv, LocalInv, TaskType
  <2> QED BY <2>1, <2>2, <2>3 DEF PutEnd, SentOne
<1>3. DescType /\ LiveInv /\ SentInv /\ FreeInv /\ LoopInv /\ ThreadInv
  BY DEF TransferInv, LocalInv, CommInv
<1>4. /\ d \in Tasks /\ Rank[d] = n /\ Live(d) /\ r \in Nodes
      /\ t \in Tasks /\ Rank[t] = n
      /\ r \in desc[d].forwarded
      /\ slot.which # {} /\ slot.which \subseteq Needed(t, r)
      /\ \A l \in Outputs : Waits(d, r, l) <=> l \in slot.which
  <2>1. /\ slot \in GetSlot /\ d \in Tasks /\ Rank[d] = n /\ Live(d) /\ r \in Nodes
        /\ desc[d].task \in Tasks /\ Rank[desc[d].task] = n
        /\ r \in desc[d].forwarded /\ r # n
        /\ slot.which # {} /\ slot.which \subseteq Needed(desc[d].task, r)
        /\ ~ Queued(d, r) /\ ~ Announced(d, r) /\ ~ Asked(d, r)
        /\ \A j \in Slots : Serving(d, r, j) <=> j = i
        /\ \A l \in Outputs : Waits(d, r, l) <=> l \in slot.which
    <3>1. slot.state = "busy"
      BY <1>1
    <3>2. slot = get[n][i] /\ d = slot.deps /\ r = slot.to
      OBVIOUS
    <3> QED BY <3>1, <3>2, Sending
  <2> QED BY <2>1
<1>5. \A e \in Tasks, s \in Nodes : \A l \in Outputs :
         Waits(e, s, l)' <=> Waits(e, s, l) /\ ~ (e = d /\ s = r /\ l = k)
  BY <1>1, <1>2, SentOneTokens
<1>6. desc[d].task # NoTask /\ status[d] = "done"
  BY <1>3, <1>4, BlankType, RemoteGraphAssumption DEF FreeInv, Live
<1>7. UNCHANGED <<status, thread>>
  BY <1>2 DEF SentOne
<1>8. ASSUME NEW e \in Tasks, e # d, Live(e), desc'[e] = desc[e]
      PROVE  desc'[e].sent = Cardinality(Served(e)')
  <2>1. Served(e)' = {p \in Pairs(desc[e].task) : p[2] \in desc[e].forwarded /\ ~ Waits(e, p[2], p[1])'}
    BY <1>8 DEF Served
  <2>2. Served(e) = {p \in Pairs(desc[e].task) : p[2] \in desc[e].forwarded /\ ~ Waits(e, p[2], p[1])}
    BY DEF Served
  <2>3. \A p \in Pairs(desc[e].task) : p[1] \in Outputs /\ p[2] \in Nodes
    BY DEF Pairs
  <2>4. Served(e)' = Served(e)
    BY <1>5, <1>8, <2>1, <2>2, <2>3
  <2> QED BY <1>3, <1>8, <2>4 DEF SentInv
<1>9. CASE desc[d].sent + 1 # desc[d].count
  <2>1. CountOne(d) /\ freelist' = freelist
    BY <1>1, <1>9 DEF Cleanup, CountOne
  <2>2. /\ desc' \in [Tasks -> Descriptor]
        /\ \A e \in Tasks : e # d => desc'[e] = desc[e]
        /\ desc'[d].task = desc[d].task /\ desc'[d].output = desc[d].output
        /\ desc'[d].count = desc[d].count /\ desc'[d].sent = desc[d].sent + 1
        /\ desc'[d].forwarded = desc[d].forwarded
    BY <1>3, <1>4, <2>1, CountOneEffect
  <2>3. DescType' /\ FreeInv'
    <3>1. \A e \in Tasks : status[e] # "done" => desc'[e].task = NoTask
      BY <1>3, <1>6, <2>2 DEF FreeInv
    <3>2. \A m \in Nodes : \A j \in DOMAIN freelist[m] : freelist[m][j] \in Tasks /\ freelist[m][j] # d
      BY <1>3, <1>6 DEF FreeInv, DescType
    <3> QED BY <1>3, <1>7, <2>1, <2>2, <3>1, <3>2 DEF FreeInv, DescType
  <2>4. Live(d)' /\ \A e \in Tasks : Live(e)' <=> Live(e)
    BY <1>4, <2>2 DEF Live
  <2>5. SentInv'
    <3>1. Served(d)' = Served(d) \cup {<<k, r>>} /\ <<k, r>> \notin Served(d)
      <4>1. Served(d)' = {p \in Pairs(t) : p[2] \in desc[d].forwarded /\ ~ Waits(d, p[2], p[1])'}
        BY <2>2 DEF Served
      <4>2. Served(d) = {p \in Pairs(t) : p[2] \in desc[d].forwarded /\ ~ Waits(d, p[2], p[1])}
        BY DEF Served
      <4>3. \A p \in Pairs(t) : p[1] \in Outputs /\ p[2] \in Nodes /\ (p[2] = r /\ p[1] = k => p = <<k, r>>)
        BY DEF Pairs
      <4>4. <<k, r>> \in Pairs(t) /\ Waits(d, r, k)
        BY <1>1, <1>4 DEF Pairs, Needed
      <4>5. \A p \in Pairs(t) : Waits(d, p[2], p[1])' <=> Waits(d, p[2], p[1]) /\ p # <<k, r>>
        BY <1>4, <1>5, <4>3
      <4>6. <<k, r>>[2] = r /\ <<k, r>>[1] = k
        OBVIOUS
      <4>7. <<k, r>> \notin Served(d)
        BY <4>2, <4>4, <4>6
      <4>8. \A p \in Pairs(t) : p \in Served(d)' <=> p \in Served(d) \/ p = <<k, r>>
        BY <1>4, <4>1, <4>2, <4>5, <4>6
      <4> QED BY <4>1, <4>2, <4>4, <4>7, <4>8
    <3>2. IsFiniteSet(Served(d))
      BY <1>4, ServedFinite
    <3>3. Cardinality(Served(d) \cup {<<k, r>>}) = Cardinality(Served(d)) + 1
      BY <3>1, <3>2, FS_AddElement
    <3>4. desc'[d].sent = Cardinality(Served(d)')
      BY <1>3, <1>4, <2>2, <3>1, <3>3 DEF SentInv
    <3> QED BY <1>8, <2>2, <2>4, <3>4 DEF SentInv
  <2>6. LoopInv'
    <3> SUFFICES ASSUME NEW v \in Threads PROVE LoopOf(v)'
      BY DEF LoopInv
    <3>1. LoopOf(v) /\ thread'[v] = thread[v]
      BY <1>3, <1>7 DEF LoopInv
    <3>2. InLoop(v) => thread[v].deps \in Tasks
      BY <3>1 DEF LoopOf
    <3>3. \A e \in Tasks : desc'[e].task = desc[e].task /\ desc'[e].forwarded = desc[e].forwarded
      BY <2>2
    <3> QED BY <3>1, <3>2, <3>3, LoopOfKept
  <2> QED BY <1>1, <1>2, <2>2, <2>3, <2>4, <2>5, <2>6, SentOneRest
<1>10. CASE desc[d].sent + 1 = desc[d].count
  <2>1. /\ slot.which = {k}
        /\ \A s \in Nodes : ~ Queued(d, s) /\ ~ Announced(d, s) /\ ~ Asked(d, s)
        /\ \A s \in Nodes, j \in Slots : Serving(d, s, j) => s = r /\ j = i
    <3>1. slot.state = "busy" /\ k \in slot.which /\ desc[d].sent + 1 = desc[d].count
      BY <1>1, <1>10
    <3>2. slot = get[n][i] /\ d = slot.deps /\ r = slot.to
      OBVIOUS
    <3>3. TheLast(slot, d, r, i, k)
      BY <3>1, <3>2, LastSent
    <3> QED BY <3>3 DEF TheLast
  <2>2. desc' = [desc EXCEPT ![d] = Recycled(d)] /\ freelist' = [freelist EXCEPT ![n] = <<d>> \o @]
    BY <1>1, <1>10 DEF Cleanup, Recycled
  <2>3. DescType' /\ FreeInv' /\ ~ Live(d)' /\ \A e \in Tasks : e # d => desc'[e] = desc[e]
    <3>1. DescType /\ FreeInv /\ Rank[d] = n /\ status[d] = "done" /\ desc[d].task # NoTask /\ UNCHANGED status
      BY <1>3, <1>4, <1>6, <1>7
    <3>2. Cleaned(n, d)
      BY <1>4, <2>2, <3>1, CleanedEffect
    <3> QED BY <3>2 DEF Cleaned
  <2>4. \A e \in Tasks : Live(e)' => e # d /\ Live(e)
    BY <2>3 DEF Live
  <2>5. SentInv'
    BY <1>8, <2>3, <2>4 DEF SentInv
  <2>6. LoopInv'
    <3> SUFFICES ASSUME NEW v \in Threads PROVE LoopOf(v)'
      BY DEF LoopInv
    <3>1. LoopOf(v) /\ thread'[v] = thread[v]
      BY <1>3, <1>7 DEF LoopInv
    <3>2. InLoop(v) => thread[v].deps \in Tasks /\ thread[v].task \in Tasks
      BY <1>3, <3>1 DEF LoopOf, InLoop, ThreadInv, ThreadOf
    <3>3. CASE ~ InLoop(v)
      BY <3>1, <3>3, LoopOfKept
    <3>4. CASE InLoop(v) /\ thread[v].deps # d
      <4>1. desc'[thread[v].deps] = desc[thread[v].deps]
        BY <2>3, <3>2, <3>4
      <4> QED BY <3>1, <4>1, LoopOfKept
    <3>5. CASE InLoop(v) /\ thread[v].deps = d
      <4>1. desc'[d].task # thread[v].task
        <5>1. Recycled(d).task = NoTask
          BY <1>3, <1>4, RecycledType
        <5> QED BY <1>3, <1>4, <2>2, <3>2, <3>5, <5>1, RemoteGraphAssumption DEF DescType
      <4>2. thread[v].left = 0
        BY <3>1, <3>5, <4>1 DEF LoopOwnsDesc, InLoop, OwnDesc
      <4> QED BY <3>1, <3>5, <4>1, <4>2, LoopOfKept
    <3> QED BY <3>3, <3>4, <3>5
  <2> QED BY <1>1, <1>2, <2>1, <2>3, <2>5, <2>6, SentOneRest
<1> QED BY <1>9, <1>10

-----------------------------------------------------------------------------
(* The invariant.                                                          *)

LEMMA InitTypes ==
    ASSUME Init
    PROVE  ThreadType /\ TaskType /\ DescType /\ CommType /\ IsFiniteSet(net)
<1>1. Idle \in ThreadState
  <2>1. 0 \in Outputs
    BY SizeAssumption DEF Outputs
  <2> QED BY <2>1 DEF Idle, ThreadState, Places, TaskOrNone
<1>2. ThreadType
  BY <1>1 DEF Init, MpiInit, ThreadType
<1>3. \A n \in Nodes : Cardinality({t \in Tasks : Rank[t] = n}) \in Nat
  <2> SUFFICES ASSUME NEW n \in Nodes PROVE Cardinality({t \in Tasks : Rank[t] = n}) \in Nat
    OBVIOUS
  <2>1. {t \in Tasks : Rank[t] = n} \in SUBSET Tasks
    OBVIOUS
  <2>2. IsFiniteSet({t \in Tasks : Rank[t] = n})
    BY <2>1, SetsFinite, FS_Subset
  <2> QED BY <2>2, FS_CardinalityType
<1>4. TaskType
  <2>1. todo \in [Nodes -> Int]
    BY <1>3 DEF Init, MpiInit
  <2> QED BY <2>1 DEF Init, MpiInit, TaskType
<1>5. DescType
  BY BlankType DEF Init, MpiInit, DescType
<1>6. CommType /\ IsFiniteSet(net)
  <2>1. \A n \in Nodes : cmds[n] = <<>>
    BY DEF Init, MpiInit
  <2>2. cmds \in [Nodes -> Seq(Command)]
    BY DEF Init, MpiInit
  <2>3. act \in [Nodes -> [Slots -> ActSlot]]
    BY NothingTypes DEF Init, MpiInit
  <2>4. get \in [Nodes -> [Slots -> GetSlot]]
    BY NothingTypes DEF Init, MpiInit
  <2>5. nexttag \in [Nodes -> Nat]
    BY DEF Init, MpiInit, FirstTag
  <2>6. IsFiniteSet(net)
    BY FS_EmptySet DEF Init, MpiInit
  <2> QED BY <2>2, <2>3, <2>4, <2>5, <2>6 DEF Init, MpiInit, CommType
<1> QED BY <1>2, <1>4, <1>5, <1>6

LEMMA TransferInit ==
    ASSUME Init
    PROVE  TransferInv
<1>1. ThreadType /\ TaskType /\ DescType /\ CommType /\ IsFiniteSet(net)
  BY InitTypes
<1>2. /\ \A w \in Threads : thread[w].at = "start" /\ thread[w].task = NoTask
      /\ \A t \in Tasks : status[t] = "waiting"
      /\ \A d \in Tasks : desc[d].task = NoTask
      /\ \A n \in Nodes : freelist[n] = <<>> /\ cmds[n] = <<>> /\ ~ enabled[n]
      /\ \A n \in Nodes, i \in Slots : act[n][i].state = "null" /\ get[n][i].state = "null"
      /\ \A n \in Nodes, e \in Data : released[n][e] = <<>>
      /\ net = {}
  <2>1. \A d \in Tasks : desc[d].task = NoTask
    BY BlankType DEF Init, MpiInit
  <2> QED BY <2>1 DEF Init, MpiInit, Idle, NoActivate, NoGet
<1>3. ThreadInv /\ LoopInv /\ InputsInv /\ RunningInv /\ ThreadsTogether
  <2>1. ThreadInv
    BY <1>2 DEF ThreadInv, ThreadOf
  <2>2. LoopInv
    BY <1>2 DEF LoopInv, LoopOf, InLoop
  <2> QED BY <1>2, <2>1, <2>2 DEF InputsInv, RunningInv, ThreadsTogether
<1>4. OnOffInv
  BY <1>2 DEF OnOffInv
<1>5. LeftInv
  <2> SUFFICES ASSUME NEW n \in Nodes PROVE \E w \in Threads : w[1] = n /\ thread[w].at = "start"
    BY DEF LeftInv
  <2>1. <<n, 0>> \in Threads
    BY SizeAssumption DEF Threads
  <2> QED BY <1>2, <2>1
<1>6. FlyingExact
  <2> SUFFICES ASSUME NEW n \in Nodes PROVE todo[n] = Untaken(n) + Flying(n)
    BY FlyingIs
  <2>1. Waiting(n) = {t \in Tasks : Rank[t] = n}
    BY <1>2 DEF Waiting
  <2>2. todo[n] = Cardinality({t \in Tasks : Rank[t] = n})
    BY DEF Init, MpiInit
  <2>3. todo[n] = Cardinality(Waiting(n)) /\ todo[n] \in Int
    BY <1>1, <2>1, <2>2 DEF TaskType
  <2>4. Activations(cmds[n]) = {} /\ ActsFrom(n) = {} /\ GetsTo(n) = {} /\ BusySlots(n) = {}
    BY <1>2 DEF Activations, ActsFrom, GetsTo, BusySlots
  <2>5. Cardinality({}) = 0
    BY FS_EmptySet
  <2>6. Flying(n) = 0 + 0 + 0 + 0
    BY <2>4, <2>5, FlyingSum
  <2>7. Telling(n) = {}
    BY <1>2 DEF Telling
  <2>8. Untaken(n) = Cardinality(Waiting(n)) + 0
    BY <2>5, <2>7 DEF Untaken
  <2> QED BY <2>3, <2>6, <2>8
<1>7. \A d \in Tasks : ~ Live(d)
  BY <1>2, BlankType, RemoteGraphAssumption DEF Live
<1>8. LiveInv /\ SentInv /\ SingleInv /\ FreeInv
  BY <1>2, <1>7 DEF LiveInv, SentInv, SingleInv, FreeInv
<1>9. CommandInv /\ MessageInv /\ ServingInv
  BY <1>2 DEF CommandInv, MessageInv, ServingInv
<1>10. OnePlace
  <2>1. \A d \in Tasks, r \in Nodes : ~ Queued(d, r) /\ ~ Announced(d, r) /\ ~ Asked(d, r)
    BY <1>2, RemoteGraphAssumption DEF Queued, Announced, Asked
  <2> QED BY <2>1 DEF OnePlace
<1>11. ReceiveInv
  BY <1>2 DEF ReceiveInv
<1>12. AcceptInv
  <2>1. \A t \in Tasks, n \in Nodes : ~ Accepted(t, n)
    <3>1. \A t \in Tasks, k \in Outputs : <<t, k>> \in Data
      BY DEF Data
    <3> QED BY <1>2, <3>1 DEF Accepted, Receiving
  <2> QED BY <2>1 DEF AcceptInv
<1>13. ReleasedOnce
  <2>1. Len(<<>>) = 0 /\ 0 <= 1
    OBVIOUS
  <2> QED BY <1>2, <2>1 DEF ReleasedOnce
<1> QED BY <1>1, <1>3, <1>4, <1>5, <1>6, <1>8, <1>9, <1>10, <1>11, <1>12, <1>13 DEF TransferInv, LocalInv, CommInv

LEMMA TransferStutter ==
    ASSUME TransferInv, UNCHANGED vars
    PROVE  TransferInv'
<1>1. /\ UNCHANGED <<todo, status, released, freed, thread, cmds, desc, freelist>>
      /\ UNCHANGED <<enabled, act, get, nexttag, net>>
  BY DEF vars, taskVars, descVars, commVars
<1>2. TaskType /\ LoopInv /\ OnOffInv /\ LeftInv /\ FlyingExact /\ CommInv
  BY DEF TransferInv, LocalInv
<1>3. TaskType' /\ LeftInv'
  BY <1>1, <1>2 DEF TaskType, LeftInv
<1>4. LoopInv'
  BY <1>1, <1>2, LoopUntouched
<1>5. OnOffInv'
  BY <1>1, <1>2 DEF OnOffInv, Left
<1>6. FlyingExact'
  <2>1. \A n : Telling(n)' = Telling(n)
    BY <1>1 DEF Telling
  <2> QED BY <1>1, <1>2, <2>1, FlyingKept
<1>7. \A n \in Nodes, d \in Data : released[n][d] # <<>> => released'[n][d] # <<>>
  BY <1>1
<1>8. LocalInv'
  BY <1>1, <1>3, <1>4, <1>5, <1>6, <1>7, LocalKept
<1>9. CommInv'
  BY <1>1, <1>2, CommKept
<1> QED BY <1>8, <1>9 DEF TransferInv

\* Every step but the end of a sending keeps the invariant.
SendingEnds == \E n \in Nodes, i \in Slots, k \in Outputs : PutEnd(n, i, k)

LEMMA TransferOther ==
    ASSUME TransferInv, [Next]_vars, ~ SendingEnds
    PROVE  TransferInv'
<1>1. ASSUME NEW w \in Threads, Thread(w) PROVE TransferInv'
  <2>1. CASE Run(w)
    BY <2>1, RunStep
  <2>2. CASE Release(w)
    BY <2>2, ReleaseStep
  <2>3. CASE NextRank(w)
    BY <2>3, NextRankStep
  <2>4. CASE SendRank(w)
    BY <2>4, SendRankStep
  <2>5. CASE Counted(w)
    BY <2>5, CountedStep
  <2>6. CASE Drop(w)
    BY <2>6, DropStep
  <2>7. CASE Leave(w)
    BY <2>7, LeaveStep
  <2> QED BY <1>1, <2>1, <2>2, <2>3, <2>4, <2>5, <2>6, <2>7 DEF Thread
<1>2. ASSUME NEW n \in Nodes, Comm(n) PROVE TransferInv'
  <2>1. CASE MpiOn(n)
    BY <2>1, MpiOnStep
  <2>2. CASE MpiOff(n)
    BY <2>2, MpiOffStep
  <2>3. CASE SendActivate(n)
    BY <2>3, SendActivateStep
  <2>4. ASSUME enabled[n], NEW i \in Slots, Progress(n, i) PROVE TransferInv'
    <3>1. CASE GetData(n, i)
      BY <2>4, <3>1, GetDataStep
    <3>2. CASE PutData(n, i)
      BY <2>4, <3>2, PutDataStep
    <3>3. ASSUME NEW k \in Outputs, DataEnd(n, i, k) PROVE TransferInv'
      BY <2>4, <3>3, DataEndStep
    <3> QED BY <2>4, <3>1, <3>2, <3>3 DEF Progress, SendingEnds
  <2> QED BY <1>2, <2>1, <2>2, <2>3, <2>4 DEF Comm
<1>3. ASSUME NEW n \in Nodes, WaitBegins(n) PROVE TransferInv'
  BY <1>3, WaitBeginsStep
<1>4. ASSUME NEW n \in Nodes, WaitReturns(n) PROVE TransferInv'
  BY <1>4, WaitReturnsStep
<1>5. CASE UNCHANGED vars
  BY <1>5, TransferStutter
<1> QED BY <1>1, <1>2, <1>3, <1>4, <1>5 DEF Next

\* So does the end of a sending, if the loop that reads the descriptor is over.
LEMMA TransferNext ==
    ASSUME TransferInv, [Next]_vars, LoopOwnsDesc'
    PROVE  TransferInv'
<1>1. CASE SendingEnds
  BY <1>1, PutEndStep DEF SendingEnds
<1>2. CASE ~ SendingEnds
  BY <1>2, TransferOther
<1> QED BY <1>1, <1>2

LEMMA TransferCorrect == Spec /\ []LoopOwnsDesc => []TransferInv
<1>1. Init => TransferInv
  BY TransferInit
<1>2. TransferInv /\ [Next]_vars /\ LoopOwnsDesc' => TransferInv'
  BY TransferNext
<1> QED BY <1>1, <1>2, PTL DEF Spec

\* The graphs of LoopOutlivesSends give no other runs.
LEMMA OwnsNext ==
    ASSUME LoopOutlivesSends, TransferInv, [Next]_vars
    PROVE  LoopOwnsDesc'
<1>1. CASE ~ SendingEnds
  <2>1. TransferInv'
    BY <1>1, TransferOther
  <2>2. LoopInv'
    BY <2>1 DEF TransferInv, LocalInv
  <2> QED BY <2>2 DEF LoopOwnsDesc, LoopInv, LoopOf
<1>2. ASSUME NEW n \in Nodes, NEW i \in Slots, NEW k \in Outputs, PutEnd(n, i, k)
      PROVE  LoopOwnsDesc'
  <2> PICK slot, d : slot = get[n][i] /\ d = slot.deps
    OBVIOUS
  <2>1. slot.state = "busy" /\ k \in slot.which /\ Cleanup(n, d) /\ UNCHANGED thread
    BY <1>2 DEF PutEnd
  <2>2. DescType /\ LoopInv
    BY DEF TransferInv, LocalInv, CommInv
  <2>3. d \in Tasks /\ Live(d)
    BY <2>1, Sending
  <2> SUFFICES ASSUME NEW v \in Threads, InLoop(v), thread[v].left # 0 PROVE OwnDesc(v)'
    BY <2>1 DEF LoopOwnsDesc, InLoop
  <2>4. OwnDesc(v) /\ thread[v].deps \in Tasks
    BY <2>2 DEF LoopInv, LoopOf
  <2>5. CASE desc[d].sent + 1 # desc[d].count
    <3>1. CountOne(d)
      BY <2>1, <2>5 DEF Cleanup, CountOne
    <3>2. \A e \in Tasks : desc'[e].task = desc[e].task
      BY <2>2, <2>3, <3>1, CountOneEffect
    <3> QED BY <2>1, <2>4, <3>2 DEF OwnDesc
  <2>6. CASE desc[d].sent + 1 = desc[d].count
    <3>1. TheLast(slot, d, slot.to, i, k)
      BY <2>1, <2>6, LastSent
    <3>2. \A p \in Pairs(desc[d].task) : p[2] \in desc[d].forwarded
      BY <3>1 DEF TheLast
    <3>3. thread[v].deps # d
      BY <2>3, <2>4, <3>2, LoopIsOver
    <3>4. desc' = [desc EXCEPT ![d] = Recycled(d)]
      BY <2>1, <2>6 DEF Cleanup, Recycled
    <3>5. desc'[thread[v].deps] = desc[thread[v].deps]
      BY <2>2, <2>4, <3>3, <3>4 DEF DescType
    <3> QED BY <2>1, <2>4, <3>5 DEF OwnDesc
  <2> QED BY <2>5, <2>6
<1> QED BY <1>1, <1>2 DEF SendingEnds

\* If every task keeps an output on its own node, or needs no rank for two
\* outputs, no descriptor is recycled while dague_remote_dep_activate has ranks
\* to meet in it.
THEOREM LoopOwnsDescCorrect ==
    ASSUME LoopOutlivesSends
    PROVE  Spec => []LoopOwnsDesc
<1>1. Init => TransferInv
  BY TransferInit
<1>2. TransferInv /\ [Next]_vars => TransferInv'
  BY OwnsNext, TransferNext
<1>3. TransferInv => LoopOwnsDesc
  BY DEF TransferInv, LocalInv, LoopInv, LoopOf, LoopOwnsDesc
<1> QED BY <1>1, <1>2, <1>3, PTL DEF Spec

\* As long as no descriptor is recycled while dague_remote_dep_activate still
\* has ranks to meet in it, a datum releases the dependencies of its
\* consumers on a node once (remote_dep_mpi_progress and
\* dague_release_local_OUT_dependencies), however its outputs are spread over
\* activations and arrivals.
THEOREM ReleasedOnceCorrect == Spec /\ []LoopOwnsDesc => []ReleasedOnce
<1>1. TransferInv => ReleasedOnce
  BY DEF TransferInv, CommInv
<1> QED BY <1>1, TransferCorrect, PTL

\* Under the same condition taskstodo counts the tasks no thread has taken and
\* the activations that are not served yet, those about to be queued included:
\* remote_dep_inc_flying_messages and its decrement balance.
THEOREM FlyingCorrect == Spec /\ []LoopOwnsDesc => []FlyingExact
<1>1. TransferInv => FlyingExact
  BY DEF TransferInv, LocalInv
<1> QED BY <1>1, TransferCorrect, PTL

-----------------------------------------------------------------------------
(* The promise of TaskGraph.                                               *)

\* The values of enqueued and waited.
Started == IF \A w \in Threads : thread[w].at = "start" THEN 0 ELSE 1
Returned == IF \A n \in Nodes : Left(n) THEN 1 ELSE 0

\* While a thread of some node is in its round, the object is enqueued and
\* dague_wait has not returned everywhere.
LEMMA InRound ==
    ASSUME NEW w \in Threads, thread[w].at \notin {"start", "ended"}
    PROVE  Started = 1 /\ Returned = 0
<1>1. w[1] \in Nodes /\ ~ Left(w[1])
  BY DEF Threads, Left
<1> QED BY <1>1 DEF Started, Returned

LEMMA SameThreads ==
    ASSUME UNCHANGED thread
    PROVE  Started' = Started /\ Returned' = Returned
BY DEF Started, Returned, Left

LEMMA StutterStep ==
    ASSUME UNCHANGED status, Started' = Started, Returned' = Returned
    PROVE  [Promise!Next]_(Promise!vars)
BY DEF Promise!vars, Started, Returned

\* When every node has left, every task is done.
AllLeft == \A n \in Nodes : Left(n)
AllDone == \A t \in Tasks : status[t] = "done"

LEMMA LeftDone == TransferInv /\ AllLeft => AllDone
<1> SUFFICES ASSUME TransferInv, \A n \in Nodes : Left(n), NEW t \in Tasks, status[t] # "done"
             PROVE  FALSE
  BY DEF AllLeft, AllDone
<1>1. status[t] \in {"waiting", "running", "done"} /\ Rank[t] \in Nodes /\ RunningInv
  BY RemoteGraphAssumption DEF TransferInv, LocalInv, TaskType
<1>2. CASE status[t] = "waiting"
  <2>1. Waiting(Rank[t]) = {}
    BY <1>1, LeftServed
  <2> QED BY <1>1, <1>2, <2>1 DEF Waiting
<1>3. CASE status[t] = "running"
  <2>1. PICK w \in Threads : thread[w].at = "release"
    BY <1>1, <1>3 DEF RunningInv
  <2>2. w[1] \in Nodes
    BY DEF Threads
  <2> QED BY <2>1, <2>2 DEF Left
<1> QED BY <1>1, <1>2, <1>3

\* The inputs of a task that is ready come from finished tasks.
LEMMA ReadyPreds ==
    ASSUME TransferInv, NEW t \in Tasks, AllReleased(t)
    PROVE  \A p \in Preds(t) : status[p] = "done"
<1> SUFFICES ASSUME NEW p \in Tasks, NEW k \in Outputs, t \in Out[p][k] PROVE status[p] = "done"
  BY DEF Preds
<1>1. <<p, k>> \in Inputs(t)
  BY DEF Inputs, Data
<1>2. released[Rank[t]][<<p, k>>] # <<>> /\ Rank[t] \in Nodes
  BY <1>1, RemoteGraphAssumption DEF AllReleased
<1>3. Accepted(p, Rank[t])
  BY <1>2 DEF Accepted
<1> QED BY <1>2, <1>3 DEF TransferInv, CommInv, AcceptInv

LEMMA PromiseRun ==
    ASSUME TransferInv, NEW w \in Threads, Run(w)
    PROVE  [Promise!Next]_(Promise!vars)
<1> PICK t \in Tasks :
        /\ Rank[t] = w[1] /\ status[t] = "waiting" /\ AllReleased(t)
        /\ status' = [status EXCEPT ![t] = "running"]
        /\ thread' = [thread EXCEPT ![w].at = "release", ![w].task = t]
  BY DEF Run
<1>1. thread[w].at = "loop" /\ thread \in [Threads -> ThreadState]
  BY DEF Run, TransferInv, LocalInv, ThreadType
<1>2. thread'[w].at = "release"
  BY <1>1 DEF ThreadState
<1>3. Started = 1 /\ Returned = 0 /\ Started' = 1 /\ Returned' = 0
  <2>1. Started = 1 /\ Returned = 0
    BY <1>1, InRound
  <2>2. Started' = 1 /\ Returned' = 0
    BY <1>2 DEF Started, Returned, Left, Threads
  <2> QED BY <2>1, <2>2
<1>4. \A p \in Preds(t) : status[p] = "done"
  BY ReadyPreds
<1>5. Promise!Start(t)
  <2>1. t \in Promise!EnqueuedTasks
    BY <1>3 DEF Promise!EnqueuedTasks, Started
  <2> QED BY <1>3, <1>4, <2>1 DEF Promise!Start, Started, Returned
<1> QED BY <1>5 DEF Promise!Next

LEMMA PromiseRelease ==
    ASSUME TransferInv, TransferInv', NEW w \in Threads, Release(w)
    PROVE  [Promise!Next]_(Promise!vars)
<1> PICK t : t = thread[w].task
  OBVIOUS
<1>1. /\ ThreadOf(w) /\ thread[w].at = "release" /\ status' = [status EXCEPT ![t] = "done"]
      /\ thread' \in [Threads -> ThreadState]
  BY DEF Release, TransferInv, LocalInv, ThreadInv, ThreadType
<1>2. t \in Tasks /\ status[t] = "running"
  BY <1>1 DEF ThreadOf
<1>3. status'[t] = "done"
  BY <1>1, <1>2 DEF TransferInv, LocalInv, TaskType
<1>4. thread'[w].at \notin {"start", "ended"}
  <2>1. thread'[w].task = t
    <3>1. CASE NbRanks(t, Outputs) = 0
      BY <1>1, <3>1 DEF Release, Goto, TransferInv, LocalInv, ThreadType, ThreadState
    <3>2. CASE NbRanks(t, Outputs) # 0
      <4>1. thread' = [thread EXCEPT ![w] = FirstLook(thread[w], Allocated(w[1], t), NbRanks(t, Outputs), RankBits(t, Outputs))]
        BY <3>2 DEF Release, FirstLook
      <4>2. FirstLook(thread[w], Allocated(w[1], t), NbRanks(t, Outputs), RankBits(t, Outputs)).task = t
        <5>1. Allocated(w[1], t) \in Tasks
          BY <1>1, <1>2 DEF Allocated, TransferInv, CommInv, DescType, Threads
        <5>2. thread[w] \in ThreadState /\ NbRanks(t, Outputs) \in Nat /\ RankBits(t, Outputs) \in [Outputs -> SUBSET Nodes]
          BY <1>2, NbRanksType, RankBitsType DEF TransferInv, LocalInv, ThreadType
        <5> QED BY <3>2, <5>1, <5>2, FirstLookEffect
      <4> QED BY <4>1, <4>2 DEF TransferInv, LocalInv, ThreadType
    <3> QED BY <3>1, <3>2
  <2>2. ThreadOf(w)'
    BY DEF TransferInv, LocalInv, ThreadInv
  <2> QED BY <1>2, <2>1, <2>2, RemoteGraphAssumption DEF ThreadOf
<1>5. Started = 1 /\ Returned = 0 /\ Started' = 1 /\ Returned' = 0
  <2>1. Started = 1 /\ Returned = 0
    BY <1>1, InRound
  <2>2. Started' = 1 /\ Returned' = 0
    BY <1>4 DEF Started, Returned, Left, Threads
  <2> QED BY <2>1, <2>2
<1>6. Promise!Finish(t)
  BY <1>1, <1>2, <1>5 DEF Promise!Finish, Started, Returned
<1> QED BY <1>2, <1>6 DEF Promise!Next

\* A step of one thread within its round.
LEMMA PromiseRound ==
    ASSUME TransferInv, TransferInv', NEW w \in Threads,
           NextRank(w) \/ SendRank(w) \/ Counted(w) \/ Drop(w) \/ Leave(w)
    PROVE  [Promise!Next]_(Promise!vars)
<1>1. thread \in [Threads -> ThreadState] /\ ThreadOf(w)
  BY DEF TransferInv, LocalInv, ThreadType, ThreadInv
<1>2. UNCHANGED status /\ thread[w].at \notin {"start", "ended"}
  BY DEF NextRank, SendRank, Counted, Drop, Leave, taskVars
<1>3. thread'[w].at \notin {"start", "ended"}
  <2>1. CASE NextRank(w) \/ SendRank(w)
    BY <1>1, <2>1 DEF NextRank, SendRank, NextBit, Goto, ThreadState
  <2>2. CASE Counted(w)
    <3> PICK here : here = thread[w]
      OBVIOUS
    <3> PICK output : output = desc[here.deps].output
      OBVIOUS
    <3>1. thread' = [thread EXCEPT ![w] =
                        IF here.count < Cardinality(output[here.out])
                        THEN [here EXCEPT !.at = "overrun"]
                        ELSE LookAt(here, output, here.out + 1)]
      BY <2>2 DEF Counted
    <3>2. [here EXCEPT !.at = "overrun"].at = "overrun"
      BY <1>1 DEF ThreadState
    <3>3. LookAt(here, output, here.out + 1).at \in {"drop", "overrun", "rank"}
      BY <1>1 DEF LookAt, ThreadState
    <3> QED BY <1>1, <3>1, <3>2, <3>3
  <2>3. CASE Drop(w)
    BY <1>1, <2>3 DEF Drop, Idle
  <2>4. CASE Leave(w)
    BY <1>1, <2>4 DEF Leave, Goto, ThreadState
  <2> QED BY <2>1, <2>2, <2>3, <2>4
<1>4. Started = 1 /\ Returned = 0
  BY <1>2, InRound
<1>5. Started' = 1 /\ Returned' = 0
  BY <1>3 DEF Started, Returned, Left, Threads
<1> QED BY <1>2, <1>4, <1>5, StutterStep

\* dague_wait begins or returns on a node.
LEMMA PromiseBegins ==
    ASSUME TransferInv, NEW n \in Nodes, WaitBegins(n)
    PROVE  [Promise!Next]_(Promise!vars)
<1>1. thread \in [Threads -> ThreadState] /\ UNCHANGED status
  BY DEF TransferInv, LocalInv, ThreadType, WaitBegins, DequeueOn, taskVars
<1> PICK w \in Threads : w[1] = n
  <2>1. <<n, 0>> \in Threads /\ <<n, 0>>[1] = n
    BY SizeAssumption DEF Threads
  <2> QED BY <2>1
<1>2. thread[w].at = "start" /\ thread'[w].at = "loop"
  BY <1>1 DEF WaitBegins, DequeueOn, ThreadState
<1>3. ~ Left(n) /\ Returned = 0
  BY <1>2 DEF Left, Returned
<1>4. Started' = 1 /\ Returned' = 0
  BY <1>2 DEF Started, Returned, Left
<1>5. CASE Started = 0
  <2>1. Promise!Enqueue
    BY <1>1, <1>3, <1>4, <1>5 DEF Promise!Enqueue, Started, Returned
  <2> QED BY <2>1 DEF Promise!Next
<1>6. CASE Started # 0
  <2>1. Started = 1
    BY <1>6 DEF Started
  <2> QED BY <1>1, <1>3, <1>4, <2>1, StutterStep
<1> QED BY <1>5, <1>6

LEMMA PromiseReturns ==
    ASSUME TransferInv, TransferInv', NEW n \in Nodes, WaitReturns(n)
    PROVE  [Promise!Next]_(Promise!vars)
<1>1. thread \in [Threads -> ThreadState] /\ UNCHANGED status
  BY DEF TransferInv, LocalInv, ThreadType, WaitReturns, DequeueOff, taskVars
<1> PICK w \in Threads : w[1] = n
  <2>1. <<n, 0>> \in Threads /\ <<n, 0>>[1] = n
    BY SizeAssumption DEF Threads
  <2> QED BY <2>1
<1>2. thread[w].at = "left" /\ thread'[w].at = "ended"
  BY <1>1 DEF WaitReturns, DequeueOff, ThreadState
<1>3. Started = 1 /\ Returned = 0
  BY <1>2, InRound
<1>4. Started' = 1
  BY <1>2 DEF Started
<1>5. CASE Returned' = 0
  BY <1>1, <1>3, <1>4, <1>5, StutterStep
<1>6. CASE Returned' # 0
  <2>1. AllLeft'
    BY <1>6 DEF AllLeft, Returned
  <2>2. AllDone'
    BY <2>1, LeftDone, PTL
  <2>3. \A t \in Tasks : status[t] = "done"
    BY <1>1, <2>2 DEF AllDone
  <2>4. Returned' = 1
    BY <1>6 DEF Returned
  <2>5. Promise!WaitReturns
    BY <1>1, <1>3, <1>4, <2>3, <2>4 DEF Promise!WaitReturns, Promise!EnqueuedTasks, Started, Returned
  <2> QED BY <2>5 DEF Promise!Next
<1> QED BY <1>5, <1>6

LEMMA PromiseComm ==
    ASSUME NEW n \in Nodes, Comm(n)
    PROVE  [Promise!Next]_(Promise!vars)
<1>1. MpiOn(n) \/ MpiOff(n) \/ SendActivate(n) => UNCHANGED <<status, thread>>
  BY DEF MpiOn, MpiOff, SendActivate, SendDep, taskVars
<1>2. ASSUME NEW i \in Slots, Progress(n, i) PROVE UNCHANGED <<status, thread>>
  <2>1. CASE GetData(n, i) \/ PutData(n, i)
    BY <2>1 DEF GetData, PutData, taskVars
  <2>2. ASSUME NEW k \in Outputs, PutEnd(n, i, k) \/ DataEnd(n, i, k) PROVE UNCHANGED <<status, thread>>
    BY <2>2 DEF PutEnd, DataEnd, taskVars
  <2> QED BY <1>2, <2>1, <2>2 DEF Progress
<1>3. UNCHANGED <<status, thread>>
  BY <1>1, <1>2 DEF Comm
<1> QED BY <1>3, SameThreads, StutterStep

\* As long as no descriptor is recycled under a loop that still has ranks to meet
\* in it, the nodes together keep the promise of TaskGraph: whatever crosses the
\* nodes through the activations, requests and data of remote_dep_mpi.c, a task
\* runs once, after its predecessors, and when dague_wait has returned on every
\* node all the tasks are done.
THEOREM RemoteDepImplements == Spec /\ []LoopOwnsDesc => ImplementsTaskGraph
<1>1. Init => Promise!Init
  <2> SUFFICES ASSUME Init PROVE Promise!Init
    OBVIOUS
  <2>1. Started = 0
    BY DEF Init, MpiInit, Idle, Started
  <2>2. Returned = 0
    <3>1. <<0, 0>> \in Threads /\ <<0, 0>>[1] \in Nodes /\ thread[<<0, 0>>].at = "start"
      BY SizeAssumption DEF Threads, Nodes, Init, MpiInit, Idle
    <3> QED BY <3>1 DEF Returned, Left
  <2> QED BY <2>1, <2>2 DEF Init, MpiInit, Promise!Init, Started, Returned
<1>2. TransferInv /\ TransferInv' /\ [Next]_vars => [Promise!Next]_(Promise!vars)
  <2> SUFFICES ASSUME TransferInv, TransferInv', [Next]_vars PROVE [Promise!Next]_(Promise!vars)
    OBVIOUS
  <2>1. ASSUME NEW w \in Threads, Thread(w) PROVE [Promise!Next]_(Promise!vars)
    <3>1. CASE Run(w)
      BY <3>1, PromiseRun
    <3>2. CASE Release(w)
      BY <3>2, PromiseRelease
    <3>3. CASE NextRank(w) \/ SendRank(w) \/ Counted(w) \/ Drop(w) \/ Leave(w)
      BY <3>3, PromiseRound
    <3> QED BY <2>1, <3>1, <3>2, <3>3 DEF Thread
  <2>2. ASSUME NEW n \in Nodes, WaitBegins(n) \/ WaitReturns(n) \/ Comm(n) PROVE [Promise!Next]_(Promise!vars)
    BY <2>2, PromiseBegins, PromiseReturns, PromiseComm
  <2>3. CASE UNCHANGED vars
    <3>1. UNCHANGED <<status, thread>>
      BY <2>3 DEF vars, taskVars
    <3> QED BY <3>1, SameThreads, StutterStep
  <2> QED BY <2>1, <2>2, <2>3 DEF Next
<1> QED BY <1>1, <1>2, TransferCorrect, PTL DEF Spec, ImplementsTaskGraph, Promise!Spec

-----------------------------------------------------------------------------
(* The data: the tags of the transfers tell them apart, so what is         *)
(* received in the memory of an output is that output, and every transfer  *)
(* of a node is over before its requests are cancelled.                    *)

\* The tasks that send to a node, and those whose activation it has accepted.
Senders(n) == {t \in Tasks : Rank[t] # n /\ Needed(t, n) # {}}
AcceptedBy(n) == {t \in Senders(n) : Accepted(t, n)}

\* INC_NEXT_TAG wraps and does not look at the tags in use. When a node may accept
\* an activation, the block of tags it will give out is not in use.
FreshTags ==
    \A m \in net, i, j \in Slots :
       m.type = "activate" /\ Listening(act[m.to], j) /\ act[m.to][i].state = "busy" =>
          \/ act[m.to][i].tag + MaxParamCount <= nexttag[m.to]
          \/ nexttag[m.to] + MaxParamCount <= act[m.to][i].tag

\* That is so if the tags do not wrap at all: there is room for FirstTag and one
\* block of MAX_PARAM_COUNT for each remote task that sends to a node.
TagsSuffice == \A n \in Nodes : FirstTag + MaxParamCount * Cardinality(Senders(n)) <= MaxTag

\* The blocks of tags of two slots of a node that receive are disjoint; if the tags
\* suffice, the next block is above them as long as an activation is to come.
NextTagInv(n) ==
    TagsSuffice /\ AcceptedBy(n) # Senders(n) =>
       /\ nexttag[n] = FirstTag + MaxParamCount * Cardinality(AcceptedBy(n))
       /\ \A i \in Slots : act[n][i].state = "busy" => act[n][i].tag + MaxParamCount <= nexttag[n]
Apart(n) ==
    \A i, j \in Slots : act[n][i].state = "busy" /\ act[n][j].state = "busy" /\ i # j =>
       \/ act[n][i].tag + MaxParamCount <= act[n][j].tag
       \/ act[n][j].tag + MaxParamCount <= act[n][i].tag
TagInv == \A n \in Nodes : NextTagInv(n) /\ Apart(n)

\* A request comes from a slot that waits for all its outputs.
AskedBy(m, i) ==
    /\ Receiving(m.from, i, desc[m.deps].task)
    /\ act[m.from][i].tag = m.tag /\ act[m.from][i].recv = m.which
AskedInv ==
    \A m \in net : m.type = "get" =>
       /\ \E i \in Slots : AskedBy(m, i)
       /\ \A o \in net : o.type = "put" /\ o.to = m.from => o.data[1] # desc[m.deps].task

\* A datum goes to the slot that waits for it, and a slot that waits has asked
\* or is sent all that it misses.
ThePut(n, tag, t, k) ==
    [type |-> "put", from |-> Rank[t], to |-> n, tag |-> tag + k, data |-> <<t, k>>]
AwaitedBy(m, i) ==
    /\ Receiving(m.to, i, m.data[1]) /\ m.data[2] \in act[m.to][i].recv
    /\ m.tag = act[m.to][i].tag + m.data[2]
PutInv ==
    \A m \in net : m.type = "put" =>
       m.from = Rank[m.data[1]] /\ \E i \in Slots : AwaitedBy(m, i)
HasAsked(n, i) ==
    \E m \in net : m.type = "get" /\ m.from = n /\ m.to = act[n][i].from /\ m.tag = act[n][i].tag
IsSent(n, i) == \A k \in act[n][i].recv : ThePut(n, act[n][i].tag, act[n][i].task, k) \in net
WaitInv ==
    \A n \in Nodes, i \in Slots : act[n][i].state = "busy" => HasAsked(n, i) \/ IsSent(n, i)

DataInv == TagInv /\ AskedInv /\ PutInv /\ WaitInv /\ RightData

-----------------------------------------------------------------------------
(* Steps that leave the transfers alone.                                   *)

LEMMA SendersFinite ==
    ASSUME NEW n \in Nodes
    PROVE  /\ IsFiniteSet(Senders(n)) /\ Cardinality(Senders(n)) \in Nat
           /\ IsFiniteSet(AcceptedBy(n)) /\ Cardinality(AcceptedBy(n)) \in Nat
<1>1. Senders(n) \in SUBSET Tasks /\ AcceptedBy(n) \in SUBSET Tasks
  BY DEF Senders, AcceptedBy
<1>2. IsFiniteSet(Senders(n)) /\ IsFiniteSet(AcceptedBy(n))
  BY <1>1, SetsFinite, FS_Subset
<1> QED BY <1>2, FS_CardinalityType

\* What tells whether the outputs of a remote task have been released.
HasReleased(t, n) == \E k \in Outputs : released[n][<<t, k>>] # <<>>
RemoteSame == \A n \in Nodes : \A t \in Senders(n) : HasReleased(t, n)' <=> HasReleased(t, n)

\* The messages that carry data or ask for them.
DataMessages == {m \in net : m.type \in {"get", "put"}}

\* A slot listens or receives as before.
SlotsSame ==
    \A n \in Nodes, i \in Slots :
       /\ act'[n][i].state = "busy" <=> act[n][i].state = "busy"
       /\ act[n][i].state = "busy" => act'[n][i] = act[n][i]
TasksSame == \A d \in Tasks : Live(d) /\ Live(d)' => desc'[d].task = desc[d].task

LEMMA AskedIsLive ==
    ASSUME TransferInv, NEW m \in net, m.type = "get"
    PROVE  /\ m.deps \in Tasks /\ Live(m.deps) /\ m.from \in Nodes /\ m.to = Rank[m.deps]
           /\ m.which = Needed(desc[m.deps].task, m.from) /\ m.tag \in Nat
BY MessageType DEF TransferInv, CommInv, MessageInv

LEMMA DataKept ==
    ASSUME TransferInv, TransferInv', TagInv, AskedInv, PutInv, WaitInv,
           SlotsSame, nexttag' = nexttag, DataMessages' = DataMessages, RemoteSame, TasksSame
    PROVE  TagInv' /\ AskedInv' /\ PutInv' /\ WaitInv'
<1>1. \A n \in Nodes, i \in Slots : \A t : Receiving(n, i, t)' <=> Receiving(n, i, t)
  BY DEF SlotsSame, Receiving
<1>2. \A n \in Nodes : AcceptedBy(n)' = AcceptedBy(n)
  BY <1>1 DEF AcceptedBy, Accepted, RemoteSame, HasReleased
<1>3. \A m : m \in net' /\ m.type \in {"get", "put"} <=> m \in net /\ m.type \in {"get", "put"}
  BY DEF DataMessages
<1>4. TagInv'
  BY <1>2 DEF TagInv, NextTagInv, Apart, SlotsSame
<1>5. AskedInv'
  <2> SUFFICES ASSUME NEW m \in net', m.type = "get"
               PROVE  /\ \E i \in Slots : AskedBy(m, i)'
                      /\ \A o \in net' : o.type = "put" /\ o.to = m.from => o.data[1] # desc'[m.deps].task
    BY DEF AskedInv
  <2>1. m \in net /\ m.deps \in Tasks /\ m.from \in Nodes /\ Live(m.deps)
    BY <1>3, AskedIsLive
  <2>2. Live(m.deps)'
    BY DEF TransferInv, CommInv, MessageInv
  <2>3. desc'[m.deps].task = desc[m.deps].task
    BY <2>1, <2>2 DEF TasksSame
  <2>4. PICK i \in Slots : AskedBy(m, i)
    BY <2>1 DEF AskedInv
  <2>5. AskedBy(m, i)'
    BY <1>1, <2>1, <2>3, <2>4 DEF AskedBy, SlotsSame, Receiving
  <2>6. \A o \in net' : o.type = "put" => o \in net
    BY <1>3
  <2> QED BY <2>1, <2>3, <2>5, <2>6 DEF AskedInv
<1>6. PutInv'
  <2> SUFFICES ASSUME NEW m \in net', m.type = "put"
               PROVE  m.from = Rank[m.data[1]] /\ \E i \in Slots : AwaitedBy(m, i)'
    BY DEF PutInv
  <2>1. m \in net /\ m.to \in Nodes
    BY <1>3, MessageType DEF TransferInv, CommInv
  <2>2. PICK i \in Slots : AwaitedBy(m, i)
    BY <2>1 DEF PutInv
  <2>3. AwaitedBy(m, i)'
    BY <1>1, <2>1, <2>2 DEF AwaitedBy, SlotsSame, Receiving
  <2> QED BY <2>1, <2>3 DEF PutInv
<1>7. WaitInv'
  <2> SUFFICES ASSUME NEW n \in Nodes, NEW i \in Slots, act'[n][i].state = "busy"
               PROVE  HasAsked(n, i)' \/ IsSent(n, i)'
    BY DEF WaitInv
  <2>1. act[n][i].state = "busy" /\ act'[n][i] = act[n][i]
    BY DEF SlotsSame
  <2>2. CASE HasAsked(n, i)
    BY <1>3, <2>1, <2>2 DEF HasAsked
  <2>3. CASE IsSent(n, i)
    <3>1. \A o, tag, t, k : o = ThePut(n, tag, t, k) => o.type = "put"
      BY DEF ThePut
    <3> QED BY <1>3, <2>1, <2>3, <3>1 DEF IsSent
  <2> QED BY <2>1, <2>2, <2>3 DEF WaitInv
<1> QED BY <1>4, <1>5, <1>6, <1>7

\* The steps of the threads of a node, and its commands.
LEMMA NothingReceived ==
    ASSUME UNCHANGED <<act, nexttag>>, UNCHANGED released, UNCHANGED net
    PROVE  SlotsSame /\ nexttag' = nexttag /\ DataMessages' = DataMessages /\ RemoteSame
BY DEF SlotsSame, DataMessages, RemoteSame, HasReleased

LEMMA SameReleased ==
    ASSUME RightData, UNCHANGED released
    PROVE  RightData'
BY DEF RightData

\* A descriptor keeps its task, or belongs to no task before or after.
LEMMA SameTasks ==
    ASSUME NEW d \in Tasks, desc \in [Tasks -> Descriptor], NEW r \in Descriptor,
           desc' = [desc EXCEPT ![d] = r],
           r.task = desc[d].task \/ r.task = NoTask \/ desc[d].task = NoTask
    PROVE  TasksSame
BY RemoteGraphAssumption DEF TasksSame, Live

LEMMA ThreadData ==
    ASSUME TransferInv, TransferInv', DataInv, NEW w \in Threads,
           Run(w) \/ NextRank(w) \/ SendRank(w) \/ Counted(w) \/ Drop(w) \/ Leave(w)
    PROVE  DataInv'
<1>1. UNCHANGED <<act, nexttag>> /\ UNCHANGED released /\ UNCHANGED net
  BY DEF Run, NextRank, SendRank, Counted, Drop, Leave, commVars, taskVars
<1>2. TasksSame
  <2>1. CASE SendRank(w)
    <3>1. PICK d, r : desc' = [desc EXCEPT ![d].forwarded = @ \cup {r}]
      BY <2>1 DEF SendRank
    <3>2. \A e \in Tasks : desc[e] \in Descriptor
      BY DEF TransferInv, CommInv, DescType
    <3>3. \A e \in Tasks : desc'[e].task = desc[e].task
      BY <3>1, <3>2 DEF TransferInv, CommInv, DescType, Descriptor
    <3> QED BY <3>3 DEF TasksSame
  <2>2. CASE Run(w) \/ NextRank(w) \/ Counted(w) \/ Drop(w) \/ Leave(w)
    BY <2>2 DEF Run, NextRank, Counted, Drop, Leave, descVars, TasksSame
  <2> QED BY <2>1, <2>2
<1>3. SlotsSame /\ nexttag' = nexttag /\ DataMessages' = DataMessages /\ RemoteSame
  BY <1>1, NothingReceived
<1> QED BY <1>1, <1>2, <1>3, DataKept, SameReleased DEF DataInv

LEMMA RoundData ==
    ASSUME TransferInv, TransferInv', DataInv, NEW n \in Nodes,
           WaitBegins(n) \/ WaitReturns(n) \/ UNCHANGED vars
    PROVE  DataInv'
<1>1. UNCHANGED <<act, nexttag>> /\ UNCHANGED released /\ UNCHANGED net /\ UNCHANGED desc
  BY DEF WaitBegins, WaitReturns, DequeueOn, DequeueOff, vars, commVars, taskVars, descVars
<1>2. TasksSame
  BY <1>1 DEF TasksSame
<1>3. SlotsSame /\ nexttag' = nexttag /\ DataMessages' = DataMessages /\ RemoteSame
  BY <1>1, NothingReceived
<1> QED BY <1>1, <1>2, <1>3, DataKept, SameReleased DEF DataInv

\* A task releases its own outputs on its own node, and its descriptor
\* belonged to no task.
LEMMA ReleaseData ==
    ASSUME TransferInv, TransferInv', DataInv, NEW w \in Threads, Release(w)
    PROVE  DataInv'
<1> PICK t, n, d : t = thread[w].task /\ n = w[1] /\ d = Allocated(n, t)
  OBVIOUS
<1>1. Finish(w, t, n)
  BY DEF Release, Finish, commVars
<1>2. /\ t \in Tasks /\ n \in Nodes /\ Rank[t] = n /\ status[t] = "running"
      /\ \A q \in Nodes, e \in Data : q # n \/ e[1] # t => released'[q][e] = released[q][e]
  BY <1>1, FinishEffect
<1>3. UNCHANGED <<act, nexttag, net>>
  BY <1>1 DEF Finish
<1>4. RemoteSame
  <2> SUFFICES ASSUME NEW q \in Nodes, NEW u \in Senders(q) PROVE HasReleased(u, q)' <=> HasReleased(u, q)
    BY DEF RemoteSame
  <2>1. u \in Tasks /\ (q # n \/ u # t)
    BY <1>2 DEF Senders
  <2>2. \A k \in Outputs : <<u, k>> \in Data /\ <<u, k>>[1] = u
    BY <2>1 DEF Data
  <2>3. \A k \in Outputs : released'[q][<<u, k>>] = released[q][<<u, k>>]
    BY <1>2, <2>1, <2>2
  <2> QED BY <2>3 DEF HasReleased
<1>5. TasksSame
  <2>1. CASE NbRanks(t, Outputs) = 0
    BY <2>1 DEF Release, descVars, TasksSame
  <2>2. CASE NbRanks(t, Outputs) # 0
    <3>1. desc' = [desc EXCEPT ![d] = Filled(t, Outputs)] /\ PopFree(n)
      BY <2>2 DEF Release
    <3>2. DescType /\ FreeInv
      BY DEF TransferInv, CommInv
    <3>3. d \in Tasks /\ desc[d].task = NoTask
      <4>1. d = Allocated(n, t) /\ Rank[t] = n /\ status[t] # "done" /\ t \in Tasks /\ n \in Nodes
        BY <1>2
      <4> QED BY <3>1, <3>2, <4>1, AllocatedEffect
    <3>4. Filled(t, Outputs) \in Descriptor
      BY <1>2, FilledType
    <3> QED BY <3>1, <3>2, <3>3, <3>4, BlankType, SameTasks DEF DescType
  <2> QED BY <2>1, <2>2
<1>6. SlotsSame /\ nexttag' = nexttag /\ DataMessages' = DataMessages
  BY <1>3 DEF SlotsSame, DataMessages
<1>7. TagInv' /\ AskedInv' /\ PutInv' /\ WaitInv'
  BY <1>4, <1>5, <1>6, DataKept DEF DataInv
<1>8. RightData'
  <2> SUFFICES ASSUME NEW q \in Nodes, NEW e \in Data, NEW i \in DOMAIN released'[q][e]
               PROVE  released'[q][e][i] = e
    BY DEF RightData
  <2>1. TaskType /\ released[q][e] \in Seq(Data)
    BY DEF TransferInv, LocalInv, TaskType
  <2>2. \A j \in DOMAIN released[q][e] : released[q][e][j] = e
    BY DEF DataInv, RightData
  <2>3. released'[q][e] = released[q][e] \/ released'[q][e] = Append(released[q][e], e)
    BY <1>1, <2>1 DEF Finish, TaskType
  <2>4. CASE released'[q][e] = released[q][e]
    BY <2>2, <2>4
  <2>5. CASE released'[q][e] = Append(released[q][e], e)
    <3> PICK s \in Seq(Data) : s = released[q][e]
      BY <2>1
    <3>1. i \in 1..(Len(s) + 1) /\ \A j \in 1..Len(s) : s[j] = e
      BY <2>2, <2>5
    <3>2. Append(s, e)[i] = e
      BY <3>1
    <3> QED BY <2>5, <3>2
  <2> QED BY <2>3, <2>4, <2>5
<1> QED BY <1>7, <1>8 DEF DataInv

\* The network is switched on and off when no slot is in use.
LEMMA SwitchData ==
    ASSUME TransferInv, TransferInv', DataInv, NEW n \in Nodes, MpiOn(n) \/ MpiOff(n)
    PROVE  DataInv'
<1>1. CommType /\ OnOffInv
  BY DEF TransferInv, LocalInv, CommInv
<1>2. /\ UNCHANGED <<released, desc, nexttag, net>> /\ cmds[n] # <<>>
      /\ Head(cmds[n]).action = "on" \/ Head(cmds[n]).action = "off"
      /\ cmds' = [cmds EXCEPT ![n] = Tail(@)]
      /\ \A i \in Slots : act'[n][i].state # "busy"
      /\ \A q \in Nodes : q # n => act'[q] = act[q]
  <2>1. CASE MpiOn(n)
    BY <1>1, <2>1, NothingTypes DEF MpiOn, PopCommand, taskVars, descVars, CommType
  <2>2. CASE MpiOff(n)
    BY <1>1, <2>2, NothingTypes DEF MpiOff, PopCommand, taskVars, descVars, CommType
  <2> QED BY <2>1, <2>2
<1>3. 1 \in DOMAIN cmds[n] /\ (cmds[n][1].action = "on" \/ cmds[n][1].action = "off")
  BY <1>1, <1>2, TailCommand
<1>4. \A i \in Slots : act[n][i].state # "busy"
  <2>1. CASE cmds[n][1].action = "on"
    BY <1>1, <1>3, <2>1 DEF OnOffInv
  <2>2. CASE cmds[n][1].action = "off"
    <3>1. Left(n)
      BY <1>1, <1>3, <2>2 DEF OnOffInv
    <3> QED BY <3>1, LeftIsQuiet DEF Quiet
  <2> QED BY <1>3, <2>1, <2>2
<1>5. SlotsSame
  BY <1>2, <1>4 DEF SlotsSame
<1>6. nexttag' = nexttag /\ DataMessages' = DataMessages /\ RemoteSame /\ TasksSame
  BY <1>2 DEF DataMessages, RemoteSame, HasReleased, TasksSame
<1> QED BY <1>2, <1>5, <1>6, DataKept, SameReleased DEF DataInv

LEMMA SendActivateData ==
    ASSUME TransferInv, TransferInv', DataInv, NEW n \in Nodes, SendActivate(n)
    PROVE  DataInv'
<1>1. UNCHANGED <<act, nexttag, released, desc>>
  BY DEF SendActivate, SendDep, taskVars, descVars, commVars
<1>2. \E a : a.type = "activate" /\ net' = net \cup {a}
  BY DEF SendActivate, SendDep
<1>3. DataMessages' = DataMessages
  BY <1>2 DEF DataMessages
<1>4. SlotsSame /\ RemoteSame /\ TasksSame
  BY <1>1 DEF SlotsSame, RemoteSame, HasReleased, TasksSame
<1> QED BY <1>1, <1>3, <1>4, DataKept, SameReleased DEF DataInv

LEMMA PutEndData ==
    ASSUME TransferInv, TransferInv', DataInv, NEW n \in Nodes, NEW i \in Slots, NEW k \in Outputs,
           PutEnd(n, i, k)
    PROVE  DataInv'
<1>1. UNCHANGED <<act, nexttag, released, net>>
  BY DEF PutEnd
<1>2. TasksSame
  <2> PICK d : d = get[n][i].deps
    OBVIOUS
  <2>1. get[n][i].state = "busy" /\ Cleanup(n, d)
    BY DEF PutEnd
  <2>2. d \in Tasks /\ DescType
    BY <2>1 DEF TransferInv, CommInv, ServingInv
  <2>3. CASE desc' = [desc EXCEPT ![d] = Recycled(d)]
    BY <2>2, <2>3, RecycledType, SameTasks DEF DescType
  <2>4. CASE desc' = [desc EXCEPT ![d].sent = @ + 1]
    <3>1. \A e \in Tasks : desc'[e].task = desc[e].task
      BY <2>2, <2>4 DEF DescType, Descriptor
    <3> QED BY <3>1 DEF TasksSame
  <2> QED BY <2>1, <2>3, <2>4 DEF Cleanup, Recycled
<1>3. SlotsSame /\ nexttag' = nexttag /\ DataMessages' = DataMessages /\ RemoteSame
  BY <1>1, NothingReceived
<1> QED BY <1>1, <1>2, <1>3, DataKept, SameReleased DEF DataInv

-----------------------------------------------------------------------------
(* A transfer.                                                             *)

\* One more activation is accepted, and the tags are still below MAX_MPI_TAG.
LEMMA NextBlock ==
    ASSUME TagsSuffice, NEW n \in Nodes, NEW t \in Senders(n), NEW u \in Senders(n),
           t \notin AcceptedBy(n), u \notin AcceptedBy(n) \cup {t},
           NEW tag, tag = FirstTag + MaxParamCount * Cardinality(AcceptedBy(n))
    PROVE  IncNextTag(tag) = FirstTag + MaxParamCount * Cardinality(AcceptedBy(n) \cup {t})
<1>1. /\ IsFiniteSet(Senders(n)) /\ Cardinality(Senders(n)) \in Nat
      /\ IsFiniteSet(AcceptedBy(n)) /\ Cardinality(AcceptedBy(n)) \in Nat
  BY SendersFinite
<1>2. IsFiniteSet(AcceptedBy(n) \cup {t}) /\ Cardinality(AcceptedBy(n) \cup {t}) = Cardinality(AcceptedBy(n)) + 1
  BY <1>1, FS_AddElement
<1>3. Cardinality((AcceptedBy(n) \cup {t}) \cup {u}) = Cardinality(AcceptedBy(n) \cup {t}) + 1
  BY <1>2, FS_AddElement
<1>4. (AcceptedBy(n) \cup {t}) \cup {u} \in SUBSET Senders(n)
  BY DEF AcceptedBy
<1>5. Cardinality((AcceptedBy(n) \cup {t}) \cup {u}) <= Cardinality(Senders(n))
  BY <1>1, <1>4, FS_Subset
<1> PICK c, s, M : c = Cardinality(AcceptedBy(n)) /\ s = Cardinality(Senders(n)) /\ M = MaxParamCount
  OBVIOUS
<1>6. c \in Nat /\ s \in Nat /\ c + 2 <= s /\ M \in Nat \ {0} /\ MaxTag \in Nat
  BY <1>1, <1>2, <1>3, <1>5, SizeAssumption
<1>7. 4 + M * s <= MaxTag
  BY DEF TagsSuffice, FirstTag
<1>8. M * (c + 1) = M * c + M /\ M * (c + 2) = M * c + 2 * M
  BY <1>6
<1>9. M * (c + 2) <= M * s
  BY <1>6
<1>10. M * c \in Nat /\ M * s \in Nat
  BY <1>6
<1>11. tag < MaxTag - M
  <2> PICK x, y : x = M * c /\ y = M * s
    OBVIOUS
  <2>1. x \in Nat /\ y \in Nat /\ x + 2 * M <= y /\ 4 + y <= MaxTag
    BY <1>7, <1>8, <1>9, <1>10
  <2>2. tag = 4 + x
    BY DEF FirstTag
  <2> QED BY <1>6, <2>1, <2>2
<1>12. IncNextTag(tag) = tag + M
  BY <1>11 DEF IncNextTag
<1>13. tag + M = 4 + M * (c + 1)
  BY <1>6, <1>8, <1>10 DEF FirstTag
<1> QED BY <1>2, <1>12, <1>13 DEF FirstTag

LEMMA GetDataData ==
    ASSUME FreshTags, TransferInv, DataInv, NEW n \in Nodes, NEW i \in Slots, GetData(n, i)
    PROVE  DataInv'
<1>1. /\ CommType /\ MessageInv /\ LiveInv /\ AcceptInv /\ ReceiveInv
      /\ TagInv /\ AskedInv /\ PutInv /\ WaitInv
  BY DEF TransferInv, CommInv, DataInv
<1>2. PICK m \in net : m.type = "activate" /\ m.to = n /\ Fetched(n, i, m)
  BY DEF GetData, Fetched
<1>3. /\ act[n][i].state = "posted"
      /\ nexttag' = [nexttag EXCEPT ![n] = IncNextTag(@)]
      /\ UNCHANGED <<released, desc>>
  BY DEF GetData, Listening, taskVars, descVars
<1> PICK d, t, p : d = m.deps /\ t = m.task /\ p = m.from
  OBVIOUS
<1>4. /\ d \in Tasks /\ p \in Nodes /\ p = Rank[d] /\ Live(d) /\ t = desc[d].task
      /\ m.which = Needed(t, n) /\ n \in desc[d].forwarded
  BY <1>1, <1>2, MessageType DEF MessageInv
<1>5. /\ t \in Tasks /\ Rank[t] = p /\ n # p /\ Needed(t, n) # {}
  BY <1>1, <1>4 DEF Live, LiveInv
<1>6. t \in Senders(n) /\ ~ Accepted(t, n)
  <2>1. Announced(d, n)
    BY <1>2 DEF Announced
  <2> QED BY <1>1, <1>4, <1>5, <2>1 DEF AcceptInv, Senders
<1> DEFINE g == [type |-> "get", from |-> n, to |-> p, deps |-> d, which |-> Needed(t, n), tag |-> nexttag[n]]
           b == [state |-> "busy", from |-> p, deps |-> d, task |-> t, which |-> Needed(t, n),
                 done |-> {}, recv |-> Needed(t, n), tag |-> nexttag[n]]
<1>7. net' = (net \ {m}) \cup {g} /\ act' = SetSlot(act, n, i, b)
  BY <1>2, <1>4 DEF Fetched, SetSlot
<1>8. nexttag[n] \in Nat /\ \A q \in Nodes : q # n => nexttag'[q] = nexttag[q]
  BY <1>1, <1>3 DEF CommType
<1>9. /\ g.type = "get" /\ g.from = n /\ g.to = p /\ g.deps = d
      /\ g.which = Needed(t, n) /\ g.tag = nexttag[n]
      /\ b \in ActSlot /\ b.state = "busy" /\ b.from = p /\ b.task = t
      /\ b.recv = Needed(t, n) /\ b.tag = nexttag[n]
  BY <1>4, <1>5, <1>8 DEF ActSlot, Needed, TaskOrNone
<1> HIDE DEF g, b
<1>10. /\ act'[n][i] = b
       /\ \A q \in Nodes, j \in Slots : q # n \/ j # i => act'[q][j] = act[q][j]
  <2>1. act \in [Nodes -> [Slots -> ActSlot]]
    BY <1>1 DEF CommType
  <2> QED BY <1>7, <1>9, <2>1, ActChange
<1>11. \A q \in Nodes, j \in Slots : act[q][j].state = "busy" => (q # n \/ j # i) /\ act'[q][j] = act[q][j]
  BY <1>3, <1>10
<1>12. /\ AcceptedBy(n)' = AcceptedBy(n) \cup {t} /\ t \notin AcceptedBy(n)
       /\ \A q \in Nodes : q # n => AcceptedBy(q)' = AcceptedBy(q)
  <2>1. \A q \in Nodes, u \in Tasks : Accepted(u, q)' <=> Accepted(u, q) \/ (q = n /\ u = t)
    <3>1. ASSUME NEW q \in Nodes, NEW u \in Tasks, Accepted(u, q)' PROVE Accepted(u, q) \/ (q = n /\ u = t)
      BY <1>3, <1>9, <1>10, <3>1 DEF Accepted, Receiving
    <3>2. ASSUME NEW q \in Nodes, NEW u \in Tasks, Accepted(u, q) PROVE Accepted(u, q)'
      BY <1>3, <1>11, <3>2 DEF Accepted, Receiving
    <3>3. Accepted(t, n)'
      BY <1>9, <1>10 DEF Accepted, Receiving
    <3> QED BY <3>1, <3>2, <3>3
  <2>2. \A q \in Nodes : \A u \in Senders(q) : u \in Tasks
    BY DEF Senders
  <2> QED BY <1>6, <2>1, <2>2 DEF AcceptedBy
<1>13. \A j \in Slots : act[n][j].state = "busy" =>
          \/ act[n][j].tag + MaxParamCount <= nexttag[n]
          \/ nexttag[n] + MaxParamCount <= act[n][j].tag
  <2>1. Listening(act[n], i)
    BY DEF GetData
  <2> QED BY <1>2, <2>1 DEF FreshTags
<1>14. TagInv'
  <2>1. ASSUME NEW q \in Nodes, q # n PROVE NextTagInv(q)' /\ Apart(q)'
    BY <1>1, <1>8, <1>10, <1>12, <2>1 DEF TagInv, NextTagInv, Apart
  <2>2. NextTagInv(n)'
    <3> SUFFICES ASSUME TagsSuffice, AcceptedBy(n)' # Senders(n)
                 PROVE  /\ nexttag'[n] = FirstTag + MaxParamCount * Cardinality(AcceptedBy(n)')
                        /\ \A j \in Slots : act'[n][j].state = "busy" =>
                              act'[n][j].tag + MaxParamCount <= nexttag'[n]
      BY DEF NextTagInv
    <3>below. /\ nexttag[n] = FirstTag + MaxParamCount * Cardinality(AcceptedBy(n))
              /\ \A j \in Slots : act[n][j].state = "busy" => act[n][j].tag + MaxParamCount <= nexttag[n]
      BY <1>1, <1>6, <1>12 DEF TagInv, NextTagInv
    <3>1. PICK u \in Senders(n) : u \notin AcceptedBy(n) \cup {t}
      BY <1>6, <1>12 DEF AcceptedBy
    <3>2. nexttag'[n] = IncNextTag(nexttag[n])
      BY <1>1, <1>3 DEF CommType
    <3>3. IncNextTag(nexttag[n]) = FirstTag + MaxParamCount * Cardinality(AcceptedBy(n) \cup {t})
      <4> PICK tag : tag = nexttag[n]
        OBVIOUS
      <4>1. tag = FirstTag + MaxParamCount * Cardinality(AcceptedBy(n))
        BY <3>below
      <4>2. IncNextTag(tag) = FirstTag + MaxParamCount * Cardinality(AcceptedBy(n) \cup {t})
        BY <1>6, <1>12, <3>1, <4>1, NextBlock
      <4> QED BY <4>2
    <3>4. nexttag'[n] = nexttag[n] + MaxParamCount
      <4>1. Cardinality(AcceptedBy(n) \cup {t}) = Cardinality(AcceptedBy(n)) + 1 /\ Cardinality(AcceptedBy(n)) \in Nat
        BY <1>12, SendersFinite, FS_AddElement
      <4> PICK c, M : c = Cardinality(AcceptedBy(n)) /\ M = MaxParamCount
        OBVIOUS
      <4>2. c \in Nat /\ M \in Nat /\ nexttag[n] = 4 + M * c /\ nexttag'[n] = 4 + M * (c + 1)
        BY <3>below, <3>2, <3>3, <4>1, SizeAssumption DEF FirstTag
      <4>3. M * (c + 1) = M * c + M /\ M * c \in Nat
        BY <4>2
      <4>4. nexttag'[n] = nexttag[n] + M
        BY <4>2, <4>3
      <4> QED BY <4>4
    <3>5. ASSUME NEW j \in Slots, act'[n][j].state = "busy"
          PROVE  act'[n][j].tag + MaxParamCount <= nexttag'[n]
      <4>1. MaxParamCount \in Nat
        BY SizeAssumption
      <4>2. CASE j = i
        BY <1>8, <1>9, <1>10, <3>4, <4>1, <4>2
      <4>3. CASE j # i
        <5>1. act'[n][j] = act[n][j] /\ act[n][j].tag \in Nat
          BY <1>1, <1>10, <4>3 DEF CommType, ActSlot
        <5>2. act[n][j].tag + MaxParamCount <= nexttag[n]
          BY <3>below, <3>5, <5>1
        <5> QED BY <1>8, <3>4, <4>1, <5>1, <5>2
      <4> QED BY <4>2, <4>3
    <3> QED BY <1>12, <3>2, <3>3, <3>5
  <2>3. Apart(n)'
    <3> SUFFICES ASSUME NEW j \in Slots, NEW l \in Slots,
                        act'[n][j].state = "busy", act'[n][l].state = "busy", j # l
                 PROVE  \/ act'[n][j].tag + MaxParamCount <= act'[n][l].tag
                        \/ act'[n][l].tag + MaxParamCount <= act'[n][j].tag
      BY DEF Apart
    <3>1. CASE j = i
      <4>1. /\ act'[n][l] = act[n][l]
            /\ \/ act[n][l].tag + MaxParamCount <= nexttag[n]
               \/ nexttag[n] + MaxParamCount <= act[n][l].tag
        BY <1>10, <1>13, <3>1
      <4> QED BY <1>9, <1>10, <3>1, <4>1
    <3>2. CASE l = i
      <4>1. /\ act'[n][j] = act[n][j]
            /\ \/ act[n][j].tag + MaxParamCount <= nexttag[n]
               \/ nexttag[n] + MaxParamCount <= act[n][j].tag
        BY <1>10, <1>13, <3>2
      <4> QED BY <1>9, <1>10, <3>2, <4>1
    <3>3. CASE j # i /\ l # i
      <4>1. act'[n][j] = act[n][j] /\ act'[n][l] = act[n][l]
        BY <1>10, <3>3
      <4> QED BY <1>1, <4>1 DEF TagInv, Apart
    <3> QED BY <3>1, <3>2, <3>3
  <2> QED BY <2>1, <2>2, <2>3 DEF TagInv
<1>15. AskedInv'
  <2> SUFFICES ASSUME NEW o \in net', o.type = "get"
               PROVE  /\ \E j \in Slots : AskedBy(o, j)'
                      /\ \A q \in net' : q.type = "put" /\ q.to = o.from => q.data[1] # desc[o.deps].task
    BY <1>3 DEF AskedInv
  <2>1. \A q \in net' : q.type = "put" => q \in net
    BY <1>7, <1>9
  <2>2. CASE o = g
    <3>1. AskedBy(o, i)'
      BY <1>3, <1>4, <1>9, <1>10, <2>2 DEF AskedBy, Receiving
    <3>2. ASSUME NEW q \in net, q.type = "put", q.to = n, q.data[1] = t PROVE FALSE
      <4>1. PICK j \in Slots : AwaitedBy(q, j)
        BY <1>1, <3>2 DEF PutInv
      <4> QED BY <1>6, <3>2, <4>1 DEF AwaitedBy, Accepted
    <3> QED BY <1>4, <1>9, <2>1, <2>2, <3>1, <3>2
  <2>3. CASE o \in net
    <3>1. PICK j \in Slots : AskedBy(o, j)
      BY <1>1, <2>3 DEF AskedInv
    <3>2. o.from \in Nodes
      BY <2>3, AskedIsLive
    <3>3. AskedBy(o, j)'
      BY <1>3, <1>11, <3>1, <3>2 DEF AskedBy, Receiving
    <3> QED BY <1>1, <2>1, <2>3, <3>3 DEF AskedInv
  <2> QED BY <1>7, <2>2, <2>3
<1>16. PutInv'
  <2> SUFFICES ASSUME NEW o \in net', o.type = "put"
               PROVE  o.from = Rank[o.data[1]] /\ \E j \in Slots : AwaitedBy(o, j)'
    BY DEF PutInv
  <2>1. o \in net /\ o.to \in Nodes
    BY <1>1, <1>7, <1>9, MessageType
  <2>2. PICK j \in Slots : AwaitedBy(o, j)
    BY <1>1, <2>1 DEF PutInv
  <2>3. AwaitedBy(o, j)'
    BY <1>11, <2>1, <2>2 DEF AwaitedBy, Receiving
  <2> QED BY <1>1, <2>1, <2>3 DEF PutInv
<1>17. WaitInv'
  <2> SUFFICES ASSUME NEW q \in Nodes, NEW j \in Slots, act'[q][j].state = "busy"
               PROVE  HasAsked(q, j)' \/ IsSent(q, j)'
    BY DEF WaitInv
  <2>1. CASE q = n /\ j = i
    <3>1. g \in net'
      BY <1>7
    <3> QED BY <1>9, <1>10, <2>1, <3>1 DEF HasAsked
  <2>2. CASE q # n \/ j # i
    <3>1. act'[q][j] = act[q][j]
      BY <1>10, <2>2
    <3>2. CASE HasAsked(q, j)
      BY <1>2, <1>7, <3>1, <3>2 DEF HasAsked
    <3>3. CASE IsSent(q, j)
      <4>1. \A o, tag, u, k : o = ThePut(q, tag, u, k) => o.type = "put"
        BY DEF ThePut
      <4>2. \A o \in net : o.type = "put" => o \in net'
        BY <1>2, <1>7
      <4> QED BY <3>1, <3>3, <4>1, <4>2 DEF IsSent
    <3> QED BY <1>1, <2>2, <3>1, <3>2, <3>3 DEF WaitInv
  <2> QED BY <2>1, <2>2
<1>18. RightData'
  BY <1>3 DEF DataInv, RightData
<1> QED BY <1>14, <1>15, <1>16, <1>17, <1>18 DEF DataInv

LEMMA ThePutIs ==
    ASSUME NEW n, NEW tag, NEW t, NEW k
    PROVE  /\ ThePut(n, tag, t, k).type = "put" /\ ThePut(n, tag, t, k).from = Rank[t]
           /\ ThePut(n, tag, t, k).to = n /\ ThePut(n, tag, t, k).tag = tag + k
           /\ ThePut(n, tag, t, k).data = <<t, k>>
BY DEF ThePut

LEMMA PutDataData ==
    ASSUME TransferInv, DataInv, NEW n \in Nodes, NEW i \in Slots, PutData(n, i)
    PROVE  DataInv'
<1>1. /\ CommType /\ MessageInv /\ LiveInv /\ SingleInv /\ ReceiveInv
      /\ TagInv /\ AskedInv /\ PutInv /\ WaitInv
  BY DEF TransferInv, CommInv, DataInv
<1>2. PICK m \in net : m.type = "get" /\ m.to = n /\ Answered(n, i, m)
  BY DEF PutData, Answered, Puts
<1>3. UNCHANGED <<released, desc, act, nexttag>>
  BY DEF PutData, taskVars, descVars
<1> PICK d, t, r : d = m.deps /\ t = desc[d].task /\ r = m.from
  OBVIOUS
<1>4. /\ d \in Tasks /\ r \in Nodes /\ n = Rank[d] /\ Live(d)
      /\ m.which = Needed(t, r) /\ m.tag \in Nat
      /\ \A o \in net : o.type = "get" /\ o.deps = d /\ o.from = r => o = m
  BY <1>1, <1>2, MessageType DEF MessageInv
<1>5. t \in Tasks /\ Rank[t] = n
  BY <1>4 DEF Live
<1>6. \A k \in Needed(t, r) :
         ThePut(r, m.tag, t, k) = [type |-> "put", from |-> n, to |-> r, tag |-> m.tag + k, data |-> <<t, k>>]
  BY <1>5 DEF ThePut
<1> DEFINE puts == {ThePut(r, m.tag, t, k) : k \in Needed(t, r)}
<1>7. net' = (net \ {m}) \cup puts
  <2>1. net' = (net \ {m}) \cup Puts(n, r, m.tag, t, Needed(t, r))
    BY <1>2, <1>4 DEF Answered
  <2>2. Puts(n, r, m.tag, t, Needed(t, r)) = puts
    <3> DEFINE f(k) == [type |-> "put", from |-> n, to |-> r, tag |-> m.tag + k, data |-> <<t, k>>]
    <3>1. \A k \in Needed(t, r) : ThePut(r, m.tag, t, k) = f(k)
      BY <1>6
    <3>2. Puts(n, r, m.tag, t, Needed(t, r)) = {f(k) : k \in Needed(t, r)}
      BY DEF Puts
    <3> HIDE DEF f
    <3> QED BY <3>1, <3>2
  <2> QED BY <2>1, <2>2
<1>8. /\ \A k \in Needed(t, r) : ThePut(r, m.tag, t, k) \in puts
      /\ \A o \in puts : \E k \in Needed(t, r) : o = ThePut(r, m.tag, t, k)
  OBVIOUS
<1> HIDE DEF puts
<1>9. \A o \in puts : o.type = "put"
  BY <1>8, ThePutIs
<1>10. PICK j \in Slots : AskedBy(m, j)
  BY <1>1, <1>2 DEF AskedInv
<1>11. Receiving(r, j, t) /\ act[r][j].tag = m.tag /\ act[r][j].recv = Needed(t, r)
  BY <1>4, <1>10 DEF AskedBy
<1>12. \A q \in Nodes : AcceptedBy(q)' = AcceptedBy(q)
  BY <1>3 DEF AcceptedBy, Accepted, Receiving
<1>13. TagInv'
  BY <1>1, <1>3, <1>12 DEF TagInv, NextTagInv, Apart
<1>14. AskedInv'
  <2> SUFFICES ASSUME NEW o \in net', o.type = "get"
               PROVE  /\ \E l \in Slots : AskedBy(o, l)
                      /\ \A q \in net' : q.type = "put" /\ q.to = o.from => q.data[1] # desc[o.deps].task
    BY <1>3 DEF AskedInv, AskedBy, Receiving
  <2>1. o \in net /\ o # m
    BY <1>7, <1>9
  <2>2. o.deps \in Tasks /\ Live(o.deps)
    BY <2>1, AskedIsLive
  <2>3. ASSUME NEW q \in puts, q.to = o.from, q.data[1] = desc[o.deps].task PROVE FALSE
    <3>1. PICK k \in Needed(t, r) : q = ThePut(r, m.tag, t, k)
      BY <1>8
    <3>2. o.from = r /\ desc[o.deps].task = t
      BY <2>3, <3>1, ThePutIs
    <3>3. o.deps = d
      BY <1>1, <1>4, <2>2, <3>2 DEF SingleInv
    <3> QED BY <1>4, <2>1, <3>2, <3>3
  <2> QED BY <1>1, <1>7, <2>1, <2>3 DEF AskedInv
<1>15. PutInv'
  <2> SUFFICES ASSUME NEW o \in net', o.type = "put"
               PROVE  o.from = Rank[o.data[1]] /\ \E l \in Slots : AwaitedBy(o, l)
    BY <1>3 DEF PutInv, AwaitedBy, Receiving
  <2>1. CASE o \in net
    BY <1>1, <2>1 DEF PutInv
  <2>2. CASE o \in puts
    <3>1. PICK k \in Needed(t, r) : o = ThePut(r, m.tag, t, k)
      BY <1>8, <2>2
    <3>2. AwaitedBy(o, j)
      BY <1>11, <3>1, ThePutIs DEF AwaitedBy
    <3> QED BY <3>1, <3>2, ThePutIs
  <2> QED BY <1>7, <2>1, <2>2
<1>16. WaitInv'
  <2> SUFFICES ASSUME NEW q \in Nodes, NEW l \in Slots, act[q][l].state = "busy"
               PROVE  HasAsked(q, l)' \/ IsSent(q, l)'
    BY <1>3 DEF WaitInv
  <2>1. CASE q = r /\ l = j
    <3>1. act[q][l].task = t
      BY <1>11, <2>1 DEF Receiving
    <3> QED BY <1>3, <1>7, <1>8, <1>11, <2>1, <3>1 DEF IsSent
  <2>2. CASE ~ (q = r /\ l = j)
    <3>1. CASE HasAsked(q, l)
      <4>1. PICK o \in net : o.type = "get" /\ o.from = q /\ o.to = act[q][l].from /\ o.tag = act[q][l].tag
        BY <3>1 DEF HasAsked
      <4>2. ASSUME o = m PROVE FALSE
        <5>1. q = r /\ l # j /\ act[r][l].state = "busy" /\ act[r][j].state = "busy"
          BY <1>11, <2>2, <4>1, <4>2 DEF Receiving
        <5>2. act[r][l].tag = act[r][j].tag /\ act[r][j].tag \in Nat /\ MaxParamCount \in Nat \ {0}
          BY <1>4, <1>11, <4>1, <4>2, <5>1, SizeAssumption
        <5>3. \/ act[r][l].tag + MaxParamCount <= act[r][j].tag
              \/ act[r][j].tag + MaxParamCount <= act[r][l].tag
          BY <1>1, <1>4, <5>1 DEF TagInv, Apart
        <5> QED BY <5>2, <5>3
      <4>3. o \in net'
        BY <1>7, <4>2
      <4> QED BY <1>3, <4>1, <4>3 DEF HasAsked
    <3>2. CASE IsSent(q, l)
      <4>1. \A o \in net : o.type = "put" => o \in net'
        BY <1>2, <1>7
      <4> QED BY <1>3, <3>2, <4>1, ThePutIs DEF IsSent
    <3> QED BY <1>1, <3>1, <3>2 DEF WaitInv
  <2> QED BY <2>1, <2>2
<1>17. RightData'
  BY <1>3 DEF DataInv, RightData
<1> QED BY <1>13, <1>14, <1>15, <1>16, <1>17 DEF DataInv

\* What a slot receives with the tag of output k is output k.
LEMMA ArrivalIs ==
    ASSUME TransferInv, DataInv, NEW n \in Nodes, NEW i \in Slots, NEW k \in Outputs, NEW m \in net,
           act[n][i].state = "busy", m.type = "put", m.to = n, m.tag = act[n][i].tag + k
    PROVE  m.data = <<act[n][i].task, k>> /\ m.from = Rank[act[n][i].task]
<1>1. CommType /\ TagInv /\ PutInv
  BY DEF TransferInv, CommInv, DataInv
<1>2. PICK j \in Slots : AwaitedBy(m, j)
  BY <1>1 DEF PutInv
<1> PICK t, l : t = m.data[1] /\ l = m.data[2]
  OBVIOUS
<1>3. t \in Tasks /\ l \in Outputs /\ m.data = <<t, l>> /\ m.from = Rank[t]
  <2>1. m.data \in Data
    BY <1>1, MessageType
  <2> QED BY <1>1, <2>1 DEF Data, PutInv
<1>4. act[n][j].state = "busy" /\ act[n][j].task = t /\ m.tag = act[n][j].tag + l
  BY <1>2 DEF AwaitedBy, Receiving
<1>5. act[n][i].tag \in Nat /\ act[n][j].tag \in Nat
  BY <1>1 DEF CommType, ActSlot
<1>6. k \in 0..(MaxParamCount - 1) /\ l \in 0..(MaxParamCount - 1) /\ MaxParamCount \in Nat
  BY <1>3, SizeAssumption DEF Outputs
<1>7. i = j
  <2> SUFFICES ASSUME i # j PROVE FALSE
    OBVIOUS
  <2>1. \/ act[n][i].tag + MaxParamCount <= act[n][j].tag
        \/ act[n][j].tag + MaxParamCount <= act[n][i].tag
    BY <1>1, <1>4 DEF TagInv, Apart
  <2> PICK x, y, M : x = act[n][i].tag /\ y = act[n][j].tag /\ M = MaxParamCount
    OBVIOUS
  <2>2. x \in Nat /\ y \in Nat /\ (x + M <= y \/ y + M <= x) /\ x + k = y + l
    BY <1>4, <1>5, <2>1
  <2>3. k \in 0..(M - 1) /\ l \in 0..(M - 1) /\ M \in Nat
    BY <1>6
  <2> QED BY <2>2, <2>3
<1>8. k = l
  <2> PICK x : x = act[n][i].tag
    OBVIOUS
  <2>1. x \in Nat /\ x + k = x + l
    BY <1>4, <1>5, <1>7
  <2> QED BY <1>6, <2>1
<1> QED BY <1>3, <1>4, <1>7, <1>8

LEMMA DataEndData ==
    ASSUME TransferInv, DataInv, NEW n \in Nodes, NEW i \in Slots, NEW k \in Outputs, DataEnd(n, i, k)
    PROVE  DataInv'
<1>1. /\ CommType /\ MessageInv /\ ReceiveInv /\ DescType /\ FreeInv
      /\ TagInv /\ AskedInv /\ PutInv /\ WaitInv
  BY DEF TransferInv, CommInv, DataInv
<1> PICK slot, t : slot = act[n][i] /\ t = slot.task
  OBVIOUS
<1>2. Ends(n, i, k, slot, t)
  BY DataEndEffect
<1>3. /\ slot.state = "busy" /\ k \in slot.recv /\ slot \in ActSlot
      /\ t \in Tasks /\ slot.from = Rank[t] /\ Rank[t] # n
      /\ slot.recv \subseteq Needed(t, n)
      /\ released[n][<<t, k>>] = <<>>
      /\ Spoil(n, t, {k}) /\ UNCHANGED <<status, nexttag>>
  BY <1>2 DEF Ends
<1>4. /\ \A q \in Nodes, j \in Slots : q # n \/ j # i => act'[q][j] = act[q][j]
      /\ act'[n][i].state = "busy" =>
            act'[n][i].recv = slot.recv \ {k} /\ act'[n][i].from = slot.from
            /\ act'[n][i].task = t /\ act'[n][i].tag = slot.tag
      /\ slot.recv # {k} => act'[n][i].state = "busy"
  BY <1>2 DEF Ends
<1>5. PICK m \in net :
         /\ m.type = "put" /\ m.to = n /\ m.tag = slot.tag + k
         /\ net' = net \ {m}
         /\ \A q \in Nodes, e \in Data : q # n \/ e # <<t, k>> => released'[q][e] = released[q][e]
         /\ released'[n][<<t, k>>] = <<m.data>>
  BY <1>2 DEF Ends
<1>6. m.data = <<t, k>>
  <2>1. act[n][i].state = "busy" /\ m.tag = act[n][i].tag + k
    BY <1>3, <1>5
  <2>2. m.data = <<act[n][i].task, k>>
    BY <1>5, <2>1, ArrivalIs
  <2> QED BY <2>2
<1>7. /\ \A e \in Tasks : Live(e)' <=> Live(e)
      /\ \A e \in Tasks : Live(e) => desc'[e] = desc[e]
  <2>1. {k} \in SUBSET Outputs
    OBVIOUS
  <2> QED BY <1>1, <1>3, <2>1, SpoilEffect
<1>8. \A q \in Nodes, j \in Slots : act'[q][j].state = "busy" =>
         /\ act[q][j].state = "busy" /\ act'[q][j].task = act[q][j].task
         /\ act'[q][j].tag = act[q][j].tag /\ act'[q][j].from = act[q][j].from
         /\ act'[q][j].recv = IF q = n /\ j = i THEN slot.recv \ {k} ELSE act[q][j].recv
  <2> SUFFICES ASSUME NEW q \in Nodes, NEW j \in Slots, act'[q][j].state = "busy"
               PROVE  /\ act[q][j].state = "busy" /\ act'[q][j].task = act[q][j].task
                      /\ act'[q][j].tag = act[q][j].tag /\ act'[q][j].from = act[q][j].from
                      /\ act'[q][j].recv = IF q = n /\ j = i THEN slot.recv \ {k} ELSE act[q][j].recv
    OBVIOUS
  <2>1. CASE q = n /\ j = i
    BY <1>3, <1>4, <2>1
  <2>2. CASE q # n \/ j # i
    <3>1. act'[q][j] = act[q][j] /\ ~ (q = n /\ j = i)
      BY <1>4, <2>2
    <3> QED BY <3>1
  <2> QED BY <2>1, <2>2
<1>9. \A q \in Nodes : AcceptedBy(q)' = AcceptedBy(q)
  <2> SUFFICES ASSUME NEW q \in Nodes, NEW u \in Tasks PROVE Accepted(u, q)' <=> Accepted(u, q)
    BY DEF AcceptedBy, Senders
  <2>1. \A l \in Outputs : <<u, l>> \in Data
    BY DEF Data
  <2>2. CASE q = n /\ u = t
    <3>1. Accepted(t, n)
      BY <1>3 DEF Accepted, Receiving
    <3>2. released'[n][<<t, k>>] # <<>>
      BY <1>5
    <3>3. Accepted(t, n)'
      BY <3>2 DEF Accepted
    <3> QED BY <2>2, <3>1, <3>3
  <2>3. CASE ~ (q = n /\ u = t)
    <3>1. \A l \in Outputs : released'[q][<<u, l>>] = released[q][<<u, l>>]
      BY <1>5, <2>1, <2>3
    <3>2. \A j \in Slots : Receiving(q, j, u)' <=> Receiving(q, j, u)
      <4> SUFFICES ASSUME NEW j \in Slots PROVE Receiving(q, j, u)' <=> Receiving(q, j, u)
        OBVIOUS
      <4>1. CASE q = n /\ j = i
        BY <1>3, <1>4, <2>3, <4>1 DEF Receiving
      <4>2. CASE q # n \/ j # i
        BY <1>4, <4>2 DEF Receiving
      <4> QED BY <4>1, <4>2
    <3> QED BY <3>1, <3>2 DEF Accepted
  <2> QED BY <2>2, <2>3
<1>10. TagInv'
  BY <1>1, <1>3, <1>8, <1>9 DEF TagInv, NextTagInv, Apart
<1>11. AskedInv'
  <2> SUFFICES ASSUME NEW o \in net', o.type = "get"
               PROVE  /\ \E j \in Slots : AskedBy(o, j)'
                      /\ \A q \in net' : q.type = "put" /\ q.to = o.from => q.data[1] # desc'[o.deps].task
    BY DEF AskedInv
  <2>1. o \in net /\ \A q \in net' : q \in net
    BY <1>5
  <2>2. o.deps \in Tasks /\ o.from \in Nodes /\ desc'[o.deps].task = desc[o.deps].task
    BY <1>7, <2>1, AskedIsLive
  <2>3. PICK j \in Slots : AskedBy(o, j)
    BY <1>1, <2>1 DEF AskedInv
  <2>4. ~ (o.from = n /\ j = i)
    <3> SUFFICES ASSUME o.from = n, j = i PROVE FALSE
      OBVIOUS
    <3>1. desc[o.deps].task = t
      BY <2>3 DEF AskedBy, Receiving
    <3>2. m.data[1] = t
      BY <1>6
    <3> QED BY <1>1, <1>5, <2>1, <3>1, <3>2 DEF AskedInv
  <2>5. AskedBy(o, j)'
    BY <1>4, <2>2, <2>3, <2>4 DEF AskedBy, Receiving
  <2> QED BY <1>1, <2>1, <2>2, <2>5 DEF AskedInv
<1>12. PutInv'
  <2> SUFFICES ASSUME NEW o \in net', o.type = "put"
               PROVE  o.from = Rank[o.data[1]] /\ \E j \in Slots : AwaitedBy(o, j)'
    BY DEF PutInv
  <2>1. o \in net /\ o # m /\ o.to \in Nodes /\ o \in PutMessage /\ m \in PutMessage
    BY <1>1, <1>5, MessageType
  <2>2. PICK j \in Slots : AwaitedBy(o, j)
    BY <1>1, <2>1 DEF PutInv
  <2>3. CASE o.to = n /\ j = i
    <3> PICK l : l = o.data[2]
      OBVIOUS
    <3>1. o.data \in Data /\ o.data = <<t, l>> /\ l \in slot.recv /\ o.tag = slot.tag + l
      <4>1. o.data \in Data
        BY <2>1 DEF PutMessage
      <4> QED BY <2>2, <2>3, <4>1 DEF AwaitedBy, Receiving, Data
    <3>2. o.from = Rank[t] /\ m.from = Rank[t]
      <4>1. o.data[1] = t /\ m.data[1] = t
        BY <1>6, <3>1
      <4>2. o.from = Rank[o.data[1]] /\ m.from = Rank[m.data[1]]
        BY <1>1, <1>5, <2>1 DEF PutInv
      <4> QED BY <4>1, <4>2
    <3>3. l # k
      <4> SUFFICES ASSUME l = k PROVE FALSE
        OBVIOUS
      <4>1. o.type = m.type /\ o.from = m.from /\ o.to = m.to /\ o.tag = m.tag /\ o.data = m.data
        BY <1>5, <1>6, <2>3, <3>1, <3>2
      <4>2. o = m
        BY <2>1, <4>1 DEF PutMessage
      <4> QED BY <2>1, <4>2
    <3>4. slot.recv # {k}
      BY <3>1, <3>3
    <3>5. AwaitedBy(o, i)'
      BY <1>4, <2>3, <3>1, <3>3, <3>4 DEF AwaitedBy, Receiving
    <3> QED BY <1>1, <2>1, <3>5 DEF PutInv
  <2>4. CASE ~ (o.to = n /\ j = i)
    <3>1. AwaitedBy(o, j)'
      BY <1>4, <2>1, <2>2, <2>4 DEF AwaitedBy, Receiving
    <3> QED BY <1>1, <2>1, <3>1 DEF PutInv
  <2> QED BY <2>3, <2>4
<1>13. WaitInv'
  <2> SUFFICES ASSUME NEW q \in Nodes, NEW j \in Slots, act'[q][j].state = "busy"
               PROVE  HasAsked(q, j)' \/ IsSent(q, j)'
    BY DEF WaitInv
  <2>1. /\ act[q][j].state = "busy" /\ act'[q][j].task = act[q][j].task
        /\ act'[q][j].tag = act[q][j].tag /\ act'[q][j].from = act[q][j].from
    BY <1>8
  <2>2. act'[q][j].recv = IF q = n /\ j = i THEN slot.recv \ {k} ELSE act[q][j].recv
    BY <1>8
  <2>3. CASE HasAsked(q, j)
    BY <1>5, <2>1, <2>3 DEF HasAsked
  <2>4. CASE IsSent(q, j)
    <3> SUFFICES ASSUME NEW l \in act'[q][j].recv
                 PROVE  ThePut(q, act[q][j].tag, act[q][j].task, l) \in net'
      BY <2>1 DEF IsSent
    <3>1. l \in act[q][j].recv
      BY <2>2
    <3>2. ThePut(q, act[q][j].tag, act[q][j].task, l) \in net
      BY <2>4, <3>1 DEF IsSent
    <3>3. ASSUME ThePut(q, act[q][j].tag, act[q][j].task, l) = m PROVE FALSE
      <4>1. q = n /\ act[q][j].task = t /\ l = k
        BY <1>5, <1>6, <3>3, ThePutIs
      <4>2. j = i
        BY <1>1, <1>3, <2>1, <4>1 DEF ReceiveInv, Receiving
      <4> QED BY <2>2, <4>1, <4>2
    <3> QED BY <1>5, <3>2, <3>3
  <2> QED BY <1>1, <2>1, <2>3, <2>4 DEF WaitInv
<1>14. RightData'
  <2> SUFFICES ASSUME NEW q \in Nodes, NEW e \in Data
               PROVE  \A j \in DOMAIN released'[q][e] : released'[q][e][j] = e
    BY DEF RightData
  <2>1. CASE q = n /\ e = <<t, k>>
    <3>1. released'[q][e] = <<e>>
      BY <1>5, <1>6, <2>1
    <3>2. \A j \in DOMAIN <<e>> : <<e>>[j] = e
      OBVIOUS
    <3> QED BY <3>1, <3>2
  <2>2. CASE q # n \/ e # <<t, k>>
    BY <1>5, <2>2 DEF DataInv, RightData
  <2> QED BY <2>1, <2>2
<1> QED BY <1>10, <1>11, <1>12, <1>13, <1>14 DEF DataInv

-----------------------------------------------------------------------------
(* The theorems.                                                           *)

LEMMA DataInit ==
    ASSUME Init
    PROVE  DataInv
<1>1. /\ net = {} /\ \A n \in Nodes, i \in Slots : act[n][i].state = "null"
      /\ \A n \in Nodes : nexttag[n] = FirstTag
      /\ \A n \in Nodes, e \in Data : released[n][e] = <<>>
  BY DEF Init, MpiInit, NoActivate
<1>2. \A n \in Nodes : AcceptedBy(n) = {}
  <2>1. \A n \in Nodes, t \in Tasks : ~ Accepted(t, n)
    <3>1. \A t \in Tasks, k \in Outputs : <<t, k>> \in Data
      BY DEF Data
    <3> QED BY <1>1, <3>1 DEF Accepted, Receiving
  <2> QED BY <2>1 DEF AcceptedBy, Senders
<1>3. TagInv
  <2> SUFFICES ASSUME NEW n \in Nodes PROVE NextTagInv(n) /\ Apart(n)
    BY DEF TagInv
  <2>1. Cardinality(AcceptedBy(n)) = 0
    BY <1>2, FS_EmptySet
  <2>2. FirstTag + MaxParamCount * 0 = FirstTag
    BY SizeAssumption DEF FirstTag
  <2> QED BY <1>1, <2>1, <2>2 DEF NextTagInv, Apart
<1>4. AskedInv /\ PutInv /\ WaitInv
  BY <1>1 DEF AskedInv, PutInv, WaitInv
<1>5. RightData
  BY <1>1 DEF RightData
<1> QED BY <1>3, <1>4, <1>5 DEF DataInv

\* Every step keeps the invariant.
LEMMA DataNext ==
    ASSUME FreshTags, LoopOwnsDesc', TransferInv, DataInv, [Next]_vars
    PROVE  DataInv'
<1>1. TransferInv'
  BY TransferNext
<1>2. ASSUME NEW w \in Threads, Thread(w) PROVE DataInv'
  <2>1. CASE Release(w)
    BY <1>1, <2>1, ReleaseData
  <2>2. CASE Run(w) \/ NextRank(w) \/ SendRank(w) \/ Counted(w) \/ Drop(w) \/ Leave(w)
    BY <1>1, <2>2, ThreadData
  <2> QED BY <1>2, <2>1, <2>2 DEF Thread
<1>3. ASSUME NEW n \in Nodes, Comm(n) PROVE DataInv'
  <2>1. CASE MpiOn(n) \/ MpiOff(n)
    BY <1>1, <2>1, SwitchData
  <2>2. CASE SendActivate(n)
    BY <1>1, <2>2, SendActivateData
  <2>3. ASSUME NEW i \in Slots, Progress(n, i) PROVE DataInv'
    <3>1. CASE GetData(n, i)
      BY <3>1, GetDataData
    <3>2. CASE PutData(n, i)
      BY <3>2, PutDataData
    <3>3. ASSUME NEW k \in Outputs, PutEnd(n, i, k) PROVE DataInv'
      BY <1>1, <3>3, PutEndData
    <3>4. ASSUME NEW k \in Outputs, DataEnd(n, i, k) PROVE DataInv'
      BY <3>4, DataEndData
    <3> QED BY <2>3, <3>1, <3>2, <3>3, <3>4 DEF Progress
  <2> QED BY <1>3, <2>1, <2>2, <2>3 DEF Comm
<1>4. ASSUME NEW n \in Nodes, WaitBegins(n) \/ WaitReturns(n) PROVE DataInv'
  BY <1>1, <1>4, RoundData
<1>5. CASE UNCHANGED vars
  <2>1. 0 \in Nodes
    BY SizeAssumption DEF Nodes
  <2> QED BY <1>1, <1>5, <2>1, RoundData
<1> QED BY <1>2, <1>3, <1>4, <1>5 DEF Next

LEMMA DataCorrect == Spec /\ []LoopOwnsDesc /\ []FreshTags => [](TransferInv /\ DataInv)
<1>1. Init => TransferInv /\ DataInv
  BY TransferInit, DataInit
<1>2. TransferInv /\ DataInv /\ FreshTags /\ LoopOwnsDesc' /\ [Next]_vars => TransferInv' /\ DataInv'
  BY TransferNext, DataNext
<1> QED BY <1>1, <1>2, PTL DEF Spec

\* An activation comes from a task the node has not accepted yet, so that the next
\* block is above those in use; and the only slot a node has is not in use when
\* it listens.
LEMMA Fresh ==
    ASSUME TagsSuffice \/ NbConcurrent = 1, TransferInv, DataInv
    PROVE  FreshTags
<1> SUFFICES ASSUME NEW m \in net, NEW i \in Slots, NEW j \in Slots, m.type = "activate",
                    Listening(act[m.to], j), act[m.to][i].state = "busy"
             PROVE  act[m.to][i].tag + MaxParamCount <= nexttag[m.to]
  BY DEF FreshTags
<1> PICK n, d, t : n = m.to /\ d = m.deps /\ t = desc[m.deps].task
  OBVIOUS
<1>1. CASE TagsSuffice
  <2>1. CommType /\ MessageInv /\ LiveInv /\ AcceptInv /\ TagInv
    BY DEF TransferInv, CommInv, DataInv
  <2>2. n \in Nodes /\ d \in Tasks /\ Live(d) /\ n \in desc[d].forwarded /\ Announced(d, n)
    BY <2>1, MessageType DEF MessageInv, Announced
  <2>3. t \in Tasks /\ Rank[t] # n /\ Needed(t, n) # {}
    BY <2>1, <2>2 DEF LiveInv, Live
  <2>4. t \in Senders(n) /\ ~ Accepted(t, n)
    BY <2>1, <2>2, <2>3 DEF AcceptInv, Senders
  <2>5. AcceptedBy(n) # Senders(n)
    BY <2>4 DEF AcceptedBy
  <2> QED BY <1>1, <2>1, <2>2, <2>5 DEF TagInv, NextTagInv
<1>2. CASE NbConcurrent = 1
  <2>1. i = 0 /\ j = 0
    BY <1>2 DEF Slots
  <2> QED BY <2>1 DEF Listening
<1> QED BY <1>1, <1>2

\* The block of tags INC_NEXT_TAG gives out is not in use, if the tags do not wrap
\* or a node has one slot for activations.
THEOREM FreshTagsCorrect ==
    ASSUME TagsSuffice \/ NbConcurrent = 1
    PROVE  Spec /\ []LoopOwnsDesc => []FreshTags
<1>1. Init => TransferInv /\ DataInv
  BY TransferInit, DataInit
<1>2. TransferInv /\ DataInv => FreshTags
  BY Fresh
<1>3. TransferInv /\ DataInv /\ FreshTags /\ LoopOwnsDesc' /\ [Next]_vars => TransferInv' /\ DataInv'
  BY TransferNext, DataNext
<1> QED BY <1>1, <1>2, <1>3, PTL DEF Spec

\* As long as no descriptor is recycled under its loop and INC_NEXT_TAG gives out
\* no tag that is in use, wrapping or not, what is received in the memory of an
\* output is that output, in whatever order the activations, the requests and the
\* data cross (remote_dep_mpi_get_data).
THEOREM RightDataCorrect == Spec /\ []LoopOwnsDesc /\ []FreshTags => []RightData
<1>1. DataInv => RightData
  BY DEF DataInv
<1> QED BY <1>1, DataCorrect, PTL

\* A node that has left its round has nothing to send or to receive.
LEMMA NothingTo ==
    ASSUME TransferInv, DataInv, NEW n \in Nodes, Left(n), NEW m \in net
    PROVE  m.to # n /\ (m.type = "activate" => m.from # n)
<1>1. CommType /\ MessageInv /\ LiveInv /\ AcceptInv /\ InputsInv /\ PutInv
  BY DEF TransferInv, LocalInv, CommInv, DataInv
<1>2. Waiting(n) = {} /\ ActsFrom(n) = {} /\ GetsTo(n) = {}
  BY LeftServed
<1>3. \A i \in Slots : act[n][i].state # "busy"
  BY LeftIsQuiet DEF Quiet
<1>4. m.type \in {"activate", "get", "put"}
  BY <1>1, MessageType
<1>5. CASE m.type = "activate"
  <2>1. m.from # n
    BY <1>2, <1>5 DEF ActsFrom
  <2> SUFFICES ASSUME m.to = n PROVE FALSE
    BY <2>1
  <2> PICK d, t : d = m.deps /\ t = desc[d].task
    OBVIOUS
  <2>2. d \in Tasks /\ Live(d) /\ n \in desc[d].forwarded /\ Announced(d, n)
    BY <1>1, <1>5, MessageType DEF MessageInv, Announced
  <2>3. t \in Tasks /\ Rank[t] # n /\ Needed(t, n) # {}
    BY <1>1, <2>2 DEF LiveInv, Live
  <2>4. PICK k \in Outputs : n \in RanksOf(t, k)
    BY <2>3 DEF Needed
  <2>5. PICK s \in Tasks : s \in Out[t][k] /\ Rank[s] = n
    BY <2>3, <2>4, RemoteGraphAssumption DEF RanksOf
  <2>6. <<t, k>> \in Inputs(s)
    BY <2>3, <2>5 DEF Inputs, Data
  <2>7. status[s] # "waiting"
    BY <1>2, <2>5 DEF Waiting
  <2>8. released[n][<<t, k>>] # <<>>
    BY <1>1, <2>5, <2>6, <2>7 DEF InputsInv
  <2>9. Accepted(t, n)
    BY <2>8 DEF Accepted
  <2> QED BY <1>1, <2>2, <2>3, <2>9 DEF AcceptInv
<1>6. CASE m.type = "get"
  BY <1>2, <1>6 DEF GetsTo
<1>7. CASE m.type = "put"
  <2> SUFFICES ASSUME m.to = n PROVE FALSE
    BY <1>7
  <2>1. PICK i \in Slots : AwaitedBy(m, i)
    BY <1>1, <1>7 DEF PutInv
  <2> QED BY <1>3, <2>1 DEF AwaitedBy, Receiving
<1> QED BY <1>4, <1>5, <1>6, <1>7

\* "make sure we don't leave before serving all data deps": under the same two
\* conditions, when dague_wait of a node returns, none of the requests
\* remote_dep_mpi_off will cancel is in use, nothing is on its way to the node,
\* and what other nodes await from it is on the network.
THEOREM ServedCorrect == Spec /\ []LoopOwnsDesc /\ []FreshTags => []ServedBeforeOff
<1>1. TransferInv /\ DataInv => ServedBeforeOff
  <2> SUFFICES ASSUME TransferInv, DataInv, NEW n \in Nodes, Left(n)
               PROVE  /\ \A i \in Slots : act[n][i].state # "busy" /\ get[n][i].state # "busy"
                      /\ \A m \in net : m.to # n /\ (m.type = "activate" => m.from # n)
                      /\ \A p \in Nodes, i \in Slots : act[p][i].state = "busy" /\ act[p][i].from = n =>
                            \A k \in act[p][i].recv :
                               \E m \in net : m.type = "put" /\ m.from = n /\ m.to = p /\ m.tag = act[p][i].tag + k
    BY DEF ServedBeforeOff
  <2>1. \A i \in Slots : act[n][i].state # "busy" /\ get[n][i].state # "busy"
    BY LeftIsQuiet DEF Quiet
  <2>2. \A m \in net : m.to # n /\ (m.type = "activate" => m.from # n)
    BY NothingTo
  <2>3. ASSUME NEW p \in Nodes, NEW i \in Slots, act[p][i].state = "busy", act[p][i].from = n,
               NEW k \in act[p][i].recv
        PROVE  \E m \in net : m.type = "put" /\ m.from = n /\ m.to = p /\ m.tag = act[p][i].tag + k
    <3>1. ~ HasAsked(p, i)
      BY <2>2, <2>3 DEF HasAsked
    <3>2. ThePut(p, act[p][i].tag, act[p][i].task, k) \in net
      BY <2>3, <3>1 DEF DataInv, WaitInv, IsSent
    <3>3. Rank[act[p][i].task] = n
      BY <2>3 DEF TransferInv, CommInv, ReceiveInv
    <3> QED BY <3>2, <3>3, ThePutIs
  <2> QED BY <2>1, <2>2, <2>3
<1> QED BY <1>1, DataCorrect, PTL

-----------------------------------------------------------------------------
(* The references on a chunk.                                              *)

\* A received chunk that is passed on is the first output every other rank is
\* told of. An activation tells of all the outputs its rank needs, so a later
\* one may be asked for and sent before the loop meets it: the reference is
\* then dropped before it is taken.
FirstSent ==
    \A d \in Received : \A r \in RanksOf(d[1], d[2]) \ {Rank[d[1]]} :
       \A k \in Needed(d[1], r) : d[2] <= k

\* Who refers to the chunk of an output: the thread that runs the task, until
\* the end of release_deps; the local successors, once they are released and
\* until the end of theirs; the ranks that are told of it and wait for it, one
\* the loop is about to tell included.
Held(t) == \E w \in Threads : thread[w].task = t
StillUses(s) == status[s] # "done" \/ Held(s)
Users(d) == {s \in LocalSuccessors(d[1], d[2]) : status[d[1]] = "done" /\ StillUses(s)}
Promised(d, r) ==
    \E w \in Threads : /\ thread[w].at = "send" /\ thread[w].task = d[1] /\ thread[w].out = d[2]
                       /\ Min(thread[w].mask) = r
Told(d, r) == \E e \in Tasks : Live(e) /\ desc[e].task = d[1] /\ Waits(e, r, d[2])
InFlight(d, r) == Promised(d, r) \/ Told(d, r)
Flights(d) == {r \in RanksOf(d[1], d[2]) : InFlight(d, r)}
RefsOf(d) == (IF Held(d[1]) THEN 1 ELSE 0) + Cardinality(Users(d)) + Cardinality(Flights(d))
RefsExact ==
    /\ refs \in [Received -> Int]
    /\ \A d \in Received : refs[d] = RefsOf(d)

\* A task that has run is not its own successor.
NotOwnSuccessor == \A t \in Tasks : status[t] # "waiting" => \A k \in Outputs : t \notin Out[t][k]

\* Another rank the loop has met was told of what it needs.
ToldOf(w) == InLoop(w) /\ OwnDesc(w) =>
    \A p \in Pairs(thread[w].task) \ Unmet(w) :
       p[2] # w[1] => p[2] \in desc[thread[w].deps].forwarded
ToldInv == \A w \in Threads : ToldOf(w)

FreedInv == \A d \in freed : d \in Received /\ refs[d] = 0 /\ status[d[1]] = "done"
HoldInv == RefsExact /\ NotOwnSuccessor /\ ToldInv /\ FreedInv

LEMMA RefsAre ==
    ASSUME NEW d \in Received
    PROVE  /\ d \in Data /\ d = <<d[1], d[2]>> /\ d[1] \in Tasks /\ d[2] \in Outputs
           /\ IsFiniteSet(Users(d)) /\ Cardinality(Users(d)) \in Nat
           /\ IsFiniteSet(Flights(d)) /\ Cardinality(Flights(d)) \in Nat
           /\ RefsOf(d) = 0 => ~ Held(d[1]) /\ Users(d) = {} /\ Flights(d) = {}
<1>1. d \in Data /\ d = <<d[1], d[2]>> /\ d[1] \in Tasks /\ d[2] \in Outputs
  BY ReceivedAssumption DEF Data
<1>2. Users(d) \in SUBSET Tasks /\ Flights(d) \in SUBSET Nodes
  BY <1>1, RanksType, RemoteGraphAssumption DEF Users, Flights, LocalSuccessors
<1>3. IsFiniteSet(Users(d))
  BY <1>2, SetsFinite, FS_Subset
<1>4. IsFiniteSet(Flights(d))
  BY <1>2, SetsFinite, FS_Subset
<1>5. Cardinality(Users(d)) \in Nat /\ Cardinality(Flights(d)) \in Nat
  BY <1>3, <1>4, FS_CardinalityType
<1>6. ASSUME RefsOf(d) = 0 PROVE ~ Held(d[1]) /\ Users(d) = {} /\ Flights(d) = {}
  <2>1. PICK a, b, c \in Nat : /\ a = IF Held(d[1]) THEN 1 ELSE 0
                               /\ b = Cardinality(Users(d)) /\ c = Cardinality(Flights(d))
    BY <1>5
  <2>2. a + b + c = 0
    BY <1>6, <2>1 DEF RefsOf
  <2>3. a = 0 /\ b = 0 /\ c = 0
    BY <2>2
  <2>4. Users(d) = {}
    BY <1>3, <2>1, <2>3, FS_EmptySet
  <2>5. Flights(d) = {}
    BY <1>4, <2>1, <2>3, FS_EmptySet
  <2> QED BY <2>1, <2>3, <2>4, <2>5
<1> QED BY <1>1, <1>3, <1>4, <1>5, <1>6

\* What is waited for is told of by a live descriptor.
WaitsAreLive ==
    \A d \in Tasks, r \in Nodes, k \in Outputs :
       Waits(d, r, k) => Live(d) /\ r \in desc[d].forwarded

LEMMA WaitsLive == TransferInv => WaitsAreLive
<1> SUFFICES ASSUME TransferInv, NEW d \in Tasks, NEW r \in Nodes, NEW k \in Outputs, Waits(d, r, k)
             PROVE  Live(d) /\ r \in desc[d].forwarded
  BY DEF WaitsAreLive
<1>1. CommandInv /\ MessageInv /\ ServingInv /\ Rank[d] \in Nodes
  BY RemoteGraphAssumption DEF TransferInv, CommInv
<1>2. CASE Queued(d, r)
  <2>1. PICK i \in DOMAIN cmds[Rank[d]] :
           cmds[Rank[d]][i] = [action |-> "activate", rank |-> r, deps |-> d]
    BY <1>2 DEF Queued
  <2>2. /\ cmds[Rank[d]][i].action = "activate" /\ cmds[Rank[d]][i].rank = r
        /\ cmds[Rank[d]][i].deps = d
    BY <2>1
  <2> QED BY <1>1, <2>2 DEF CommandInv
<1>3. CASE Announced(d, r)
  BY <1>1, <1>3 DEF Announced, MessageInv
<1>4. CASE Asked(d, r)
  BY <1>1, <1>4 DEF Asked, MessageInv
<1>5. CASE \E j \in Slots : Serving(d, r, j) /\ k \in get[Rank[d]][j].which
  BY <1>1, <1>5 DEF Serving, ServingInv
<1> QED BY <1>2, <1>3, <1>4, <1>5 DEF Waits

\* The sources of a task whose inputs have arrived are done.
LEMMA SourcesDone ==
    ASSUME TransferInv, NEW s \in Tasks, status[s] # "waiting" \/ AllReleased(s), NEW d \in Inputs(s)
    PROVE  d[1] \in Tasks /\ d[2] \in Outputs /\ status[d[1]] = "done"
<1>1. InputsInv /\ AcceptInv /\ Rank[s] \in Nodes
  BY RemoteGraphAssumption DEF TransferInv, LocalInv, CommInv
<1>2. d = <<d[1], d[2]>> /\ d[1] \in Tasks /\ d[2] \in Outputs
  BY DEF Inputs, Data
<1>3. released[Rank[s]][d] # <<>>
  BY <1>1 DEF InputsInv, AllReleased
<1>4. Accepted(d[1], Rank[s])
  BY <1>2, <1>3 DEF Accepted
<1> QED BY <1>1, <1>2, <1>4 DEF AcceptInv

LEMMA HeldKept ==
    ASSUME \A w \in Threads : thread'[w].task = thread[w].task
    PROVE  \A t : Held(t)' <=> Held(t)
BY DEF Held

LEMMA UsersKept ==
    ASSUME NEW d \in Received, \A s \in Tasks : StillUses(s)' <=> StillUses(s),
           status'[d[1]] = "done" <=> status[d[1]] = "done"
    PROVE  Users(d)' = Users(d)
<1>1. LocalSuccessors(d[1], d[2]) \subseteq Tasks
  BY RefsAre, RemoteGraphAssumption DEF LocalSuccessors
<1> QED BY <1>1 DEF Users

\* No thread comes to tell a rank, or is done with it.
SendersKept == \A w \in Threads : thread'[w].at = "send" \/ thread[w].at = "send" => thread'[w] = thread[w]

LEMMA PromisedKept ==
    ASSUME SendersKept
    PROVE  \A d, r : Promised(d, r)' <=> Promised(d, r)
BY DEF SendersKept, Promised

LEMMA FlightsKept ==
    ASSUME NEW d \in Received, SendersKept,
           \A e \in Tasks : Live(e) \/ Live(e)' => (desc[e].task = d[1] <=> desc'[e].task = d[1]),
           \A r \in RanksOf(d[1], d[2]), e \in Tasks : 
              desc[e].task = d[1] => (Live(e)' /\ Waits(e, r, d[2])' <=> Live(e) /\ Waits(e, r, d[2]))
    PROVE  Flights(d)' = Flights(d)
<1>1. ASSUME NEW r \in RanksOf(d[1], d[2]) PROVE InFlight(d, r)' <=> InFlight(d, r)
  <2>1. Promised(d, r)' <=> Promised(d, r)
    BY PromisedKept
  <2>2. Told(d, r)' <=> Told(d, r)
    BY DEF Told
  <2> QED BY <2>1, <2>2 DEF InFlight
<1> QED BY <1>1 DEF Flights

LEMMA ToldKept ==
    ASSUME NEW v \in Threads, ToldOf(v), thread'[v] = thread[v],
           InLoop(v) /\ OwnDesc(v)' =>
              OwnDesc(v) /\ desc[thread[v].deps].forwarded \subseteq desc'[thread[v].deps].forwarded
    PROVE  ToldOf(v)'
<1>1. Unmet(v)' = Unmet(v) /\ (InLoop(v)' <=> InLoop(v))
  BY DEF Unmet, InLoop
<1> QED BY <1>1 DEF ToldOf

\* A step that takes and drops no reference.
LEMMA HoldQuiet ==
    ASSUME TransferInv, HoldInv, UNCHANGED <<refs, freed, status>>, WaitsKept, SendersKept,
           \A t \in Tasks : Held(t)' <=> Held(t),
           \A e \in Tasks : Live(e)' <=> Live(e),
           \A e \in Tasks : Live(e) => desc'[e].task = desc[e].task,
           ToldInv'
    PROVE  HoldInv'
<1>1. ASSUME NEW d \in Received PROVE refs'[d] = RefsOf(d)'
  <2>1. d[1] \in Tasks /\ d[2] \in Outputs
    BY RefsAre
  <2>2. Users(d)' = Users(d)
    <3>1. \A s \in Tasks : StillUses(s)' <=> StillUses(s)
      BY DEF StillUses
    <3> QED BY <3>1, UsersKept
  <2>3. Flights(d)' = Flights(d)
    <3>1. \A r \in RanksOf(d[1], d[2]) : r \in Nodes /\ d[2] \in Needed(d[1], r)
      BY <2>1, RanksType DEF Needed
    <3>2. \A r \in RanksOf(d[1], d[2]), e \in Tasks :
             desc[e].task = d[1] => (Live(e)' /\ Waits(e, r, d[2])' <=> Live(e) /\ Waits(e, r, d[2]))
      BY <3>1 DEF WaitsKept
    <3>3. \A e \in Tasks : Live(e) \/ Live(e)' => (desc[e].task = d[1] <=> desc'[e].task = d[1])
      OBVIOUS
    <3> QED BY <3>2, <3>3, FlightsKept
  <2>4. refs[d] = RefsOf(d)
    BY DEF HoldInv, RefsExact
  <2> QED BY <2>1, <2>2, <2>3, <2>4 DEF RefsOf
<1>2. RefsExact'
  BY <1>1 DEF HoldInv, RefsExact
<1>3. NotOwnSuccessor' /\ FreedInv'
  BY DEF HoldInv, NotOwnSuccessor, FreedInv
<1> QED BY <1>2, <1>3 DEF HoldInv

\* Run: the task takes its reference.
LEMMA HoldRun ==
    ASSUME TransferInv, HoldInv, NEW w \in Threads, Run(w)
    PROVE  HoldInv'
<1>1. PICK t \in Tasks :
        /\ Rank[t] = w[1] /\ status[t] = "waiting" /\ AllReleased(t)
        /\ status' = [status EXCEPT ![t] = "running"]
        /\ thread' = [thread EXCEPT ![w].at = "release", ![w].task = t]
        /\ refs' = [d \in Received |-> IF d[1] = t THEN 1 ELSE refs[d]]
  BY DEF Run
<1>2. thread[w].at = "loop" /\ UNCHANGED <<freed, desc, cmds, get, net>>
  BY DEF Run, descVars, commVars
<1>3. ThreadType /\ ThreadInv /\ ThreadOf(w) /\ TaskType /\ LiveInv
  BY DEF TransferInv, LocalInv, CommInv, ThreadInv
<1>4. /\ thread'[w].task = t /\ thread'[w].at = "release" /\ thread[w].task = NoTask
      /\ \A v \in Threads : v # w => thread'[v] = thread[v]
  BY <1>1, <1>2, <1>3 DEF ThreadType, ThreadState, ThreadOf
<1>5. status'[t] = "running" /\ \A u \in Tasks : u # t => status'[u] = status[u]
  BY <1>1, <1>3 DEF TaskType
<1>6. Held(t)' /\ \A u \in Tasks : u # t => (Held(u)' <=> Held(u))
  <2>1. \A u \in Tasks : u # NoTask
    BY RemoteGraphAssumption
  <2> QED BY <1>4, <2>1 DEF Held
<1>7. \A s \in Tasks : StillUses(s)' <=> StillUses(s)
  BY <1>1, <1>5, <1>6 DEF StillUses
<1>8. \A e \in Tasks : Live(e) => desc[e].task # t
  BY <1>1, <1>3 DEF LiveInv
<1>9. /\ \A e \in Tasks : Live(e)' <=> Live(e)
      /\ \A e, r : \A k \in Outputs : Waits(e, r, k)' <=> Waits(e, r, k)
  BY <1>2, TokensSame, DescSame
<1>10. ASSUME NEW d \in Received PROVE refs'[d] = RefsOf(d)'
  <2>1. d[1] \in Tasks /\ d[2] \in Outputs
    BY RefsAre
  <2>2. Flights(d)' = Flights(d)
    <3>1. SendersKept
      BY <1>2, <1>4 DEF SendersKept
    <3> QED BY <1>2, <1>9, <2>1, <3>1, FlightsKept
  <2>3. CASE d[1] = t
    <3>1. Users(d)' = {} /\ Flights(d) = {}
      <4>1. Users(d)' = {}
        BY <1>5, <2>3 DEF Users
      <4>2. \A r : ~ Told(d, r)
        BY <1>8, <2>3 DEF Told
      <4>3. \A r : ~ Promised(d, r)
        BY <1>1, <1>3, <2>3 DEF Promised, ThreadInv, ThreadOf
      <4> QED BY <4>1, <4>2, <4>3 DEF Flights, InFlight
    <3>2. Cardinality({}) = 0
      BY FS_EmptySet
    <3>3. RefsOf(d)' = 1
      BY <1>6, <2>2, <2>3, <3>1, <3>2 DEF RefsOf
    <3> QED BY <1>1, <2>3, <3>3
  <2>4. CASE d[1] # t
    <3>1. Users(d)' = Users(d)
      BY <1>5, <1>7, <2>1, <2>4, UsersKept
    <3>2. refs'[d] = refs[d] /\ refs[d] = RefsOf(d)
      BY <1>1, <2>4 DEF HoldInv, RefsExact
    <3> QED BY <1>6, <2>1, <2>2, <2>4, <3>1, <3>2 DEF RefsOf
  <2> QED BY <2>3, <2>4
<1>11. RefsExact'
  <2>1. refs' \in [Received -> Int]
    BY <1>1 DEF HoldInv, RefsExact
  <2> QED BY <1>10, <2>1 DEF RefsExact
<1>12. NotOwnSuccessor'
  <2>1. ASSUME NEW k \in Outputs, t \in Out[t][k] PROVE FALSE
    <3>1. <<t, k>> \in Inputs(t)
      BY <2>1 DEF Inputs, Data
    <3>2. status[t] = "done"
      BY <1>1, <3>1, SourcesDone
    <3> QED BY <1>1, <3>2
  <2> QED BY <1>5, <2>1 DEF HoldInv, NotOwnSuccessor
<1>13. ToldInv'
  <2>1. ToldOf(w)'
    BY <1>4 DEF ToldOf, InLoop
  <2>2. ASSUME NEW v \in Threads, v # w PROVE ToldOf(v)'
    <3>1. OwnDesc(v)' => OwnDesc(v)
      BY <1>2, <1>4, <2>2 DEF OwnDesc
    <3> QED BY <1>2, <1>4, <2>2, <3>1, ToldKept DEF HoldInv, ToldInv
  <2> QED BY <2>1, <2>2 DEF ToldInv
<1>14. FreedInv'
  <2> SUFFICES ASSUME NEW d \in freed PROVE d \in Received /\ refs'[d] = 0 /\ status'[d[1]] = "done"
    BY <1>2 DEF FreedInv
  <2>1. d \in Received /\ refs[d] = 0 /\ status[d[1]] = "done" /\ d[1] \in Tasks
    BY RefsAre DEF HoldInv, FreedInv
  <2> QED BY <1>1, <1>5, <2>1
<1> QED BY <1>11, <1>12, <1>13, <1>14 DEF HoldInv

\* Counted, Leave: the thread moves on.
LEMMA HoldMove ==
    ASSUME TransferInv, HoldInv, NEW w \in Threads, NEW s \in ThreadState,
           thread' = [thread EXCEPT ![w] = s], s.task = thread[w].task,
           thread[w].at # "send", s.at # "send",
           InLoop(w)' => InLoop(w) /\ s.deps = thread[w].deps /\ Unmet(w)' = Unmet(w),
           UNCHANGED <<refs, freed, status, desc, cmds, get, net>>
    PROVE  HoldInv'
<1>1. thread'[w] = s /\ \A v \in Threads : v # w => thread'[v] = thread[v]
  BY ThreadChange DEF TransferInv, LocalInv
<1>2. \A t : Held(t)' <=> Held(t)
  BY <1>1, HeldKept
<1>3. ToldInv'
  <2>1. ToldOf(w)'
    BY <1>1 DEF HoldInv, ToldInv, ToldOf, OwnDesc
  <2>2. ASSUME NEW v \in Threads, v # w PROVE ToldOf(v)'
    <3>1. OwnDesc(v)' => OwnDesc(v)
      BY <1>1, <2>2 DEF OwnDesc
    <3> QED BY <1>1, <2>2, <3>1, ToldKept DEF HoldInv, ToldInv
  <2> QED BY <2>1, <2>2 DEF ToldInv
<1>4. WaitsKept
  BY TokensSame DEF WaitsKept, Needed
<1>5. \A e \in Tasks : (Live(e)' <=> Live(e)) /\ desc'[e].task = desc[e].task
  BY DescSame
<1>6. SendersKept
  BY <1>1 DEF SendersKept
<1> QED BY <1>2, <1>3, <1>4, <1>5, <1>6, HoldQuiet

LEMMA HoldCounted ==
    ASSUME TransferInv, HoldInv, NEW w \in Threads, Counted(w)
    PROVE  HoldInv'
<1>1. thread[w].at = "counted" /\ UNCHANGED <<refs, freed, status, desc, cmds, get, net>>
  BY DEF Counted, taskVars, descVars, commVars
<1>2. InLoop(w)' => Unmet(w)' = Unmet(w)
  BY CountedStep
<1> PICK here, output : here = thread[w] /\ output = desc[here.deps].output
  OBVIOUS
<1>3. here \in ThreadState /\ LoopOf(w) /\ DescType /\ ThreadType
  BY DEF TransferInv, LocalInv, CommInv, ThreadType, LoopInv
<1>4. output \in [Outputs -> SUBSET Nodes] /\ here.out + 1 \in Nat
  <2>1. here.deps \in Tasks
    BY <1>1, <1>3 DEF LoopOf, InLoop
  <2>2. here.out \in Nat
    BY <1>3, SetsFinite DEF ThreadState
  <2> QED BY <1>3, <2>1, <2>2 DEF DescType, Descriptor
<1> DEFINE s == IF here.count < Cardinality(output[here.out]) THEN [here EXCEPT !.at = "overrun"]
                ELSE LookAt(here, output, here.out + 1)
<1>5. thread' = [thread EXCEPT ![w] = s]
  BY DEF Counted
<1>6. /\ s \in ThreadState /\ s.task = here.task /\ s.at # "send"
      /\ s.at \in {"rank", "counted"} => s.deps = here.deps
  <2>1. CASE here.count < Cardinality(output[here.out])
    BY <1>3, <2>1 DEF ThreadState, Places
  <2>2. CASE ~ (here.count < Cardinality(output[here.out]))
    BY <1>3, <1>4, <2>2, LookAtEffect
  <2> QED BY <2>1, <2>2
<1> HIDE DEF s
<1>7. thread'[w] = s
  BY <1>3, <1>5, <1>6, ThreadChange
<1>8. InLoop(w)' => InLoop(w) /\ s.deps = here.deps /\ Unmet(w)' = Unmet(w)
  BY <1>1, <1>2, <1>6, <1>7 DEF InLoop
<1> QED BY <1>1, <1>5, <1>6, <1>8, HoldMove

LEMMA HoldLeave ==
    ASSUME TransferInv, HoldInv, NEW w \in Threads, Leave(w)
    PROVE  HoldInv'
<1>1. UNCHANGED <<refs, freed, status, desc, cmds, get, net>>
  BY DEF Leave, taskVars, descVars, commVars
<1> DEFINE s == [thread[w] EXCEPT !.at = "left"]
<1>2. thread' = [thread EXCEPT ![w] = s] /\ thread[w] \in ThreadState /\ ThreadType
  BY DEF Leave, Goto, TransferInv, LocalInv, ThreadType
<1>3. s \in ThreadState /\ s.at = "left" /\ s.task = thread[w].task
  BY <1>2 DEF ThreadState, Places
<1> HIDE DEF s
<1>4. ~ InLoop(w)'
  BY <1>2, <1>3, ThreadChange DEF InLoop
<1>5. thread[w].at # "send" /\ s.at # "send"
  BY <1>3 DEF Leave
<1> QED BY <1>1, <1>2, <1>3, <1>4, <1>5, HoldMove

LEMMA ReleaseThread ==
    ASSUME TransferInv, NEW w \in Threads, Release(w)
    PROVE  /\ thread'[w].task = thread[w].task /\ SendersKept
           /\ \A v \in Threads : v # w => thread'[v] = thread[v]
<1> PICK t, n, d : t = thread[w].task /\ n = w[1] /\ d = Allocated(n, t)
  OBVIOUS
<1>1. Finish(w, t, n)
  BY DEF Release, Finish, commVars
<1>2. t \in Tasks /\ n \in Nodes /\ Rank[t] = n /\ status[t] = "running"
  BY <1>1, FinishEffect
<1>3. ThreadType /\ DescType /\ FreeInv /\ thread[w] \in ThreadState
  BY DEF TransferInv, LocalInv, CommInv, ThreadType
<1>4. CASE NbRanks(t, Outputs) = 0
  <2>1. thread[w].at = "release" /\ thread' = [thread EXCEPT ![w].at = "drop"]
    BY <1>4 DEF Release, Goto
  <2>2. /\ thread'[w].task = thread[w].task /\ thread'[w].at = "drop"
        /\ \A v \in Threads : v # w => thread'[v] = thread[v]
    BY <1>3, <2>1 DEF ThreadType, ThreadState
  <2> QED BY <2>1, <2>2 DEF SendersKept
<1>5. CASE NbRanks(t, Outputs) # 0
  <2> DEFINE s == FirstLook(thread[w], d, NbRanks(t, Outputs), RankBits(t, Outputs))
  <2>1. thread' = [thread EXCEPT ![w] = s] /\ PopFree(n)
    BY <1>5 DEF Release, FirstLook
  <2>2. d \in Tasks
    BY <1>2, <1>3, <2>1, AllocatedEffect
  <2>3. NbRanks(t, Outputs) \in Nat /\ RankBits(t, Outputs) \in [Outputs -> SUBSET Nodes]
    BY <1>2, NbRanksType, RankBitsType
  <2>4. s \in ThreadState /\ s.task = t /\ s.at # "send"
    BY <1>3, <1>5, <2>2, <2>3, FirstLookEffect
  <2> HIDE DEF s
  <2>5. thread[w].at = "release"
    BY DEF Release
  <2>6. thread'[w] = s /\ \A v \in Threads : v # w => thread'[v] = thread[v]
    BY <1>3, <2>1, <2>4, ThreadChange
  <2> QED BY <2>4, <2>5, <2>6 DEF SendersKept
<1> QED BY <1>4, <1>5

\* Release: the local successors get a reference each.
LEMMA HoldRelease ==
    ASSUME TransferInv, TransferInv', HoldInv, NEW w \in Threads, Release(w)
    PROVE  HoldInv'
<1> PICK t, n, c : t = thread[w].task /\ n = w[1] /\ c = Allocated(n, t)
  OBVIOUS
<1>1. Finish(w, t, n)
  BY DEF Release, Finish, commVars
<1>2. /\ t \in Tasks /\ n \in Nodes /\ Rank[t] = n /\ status[t] = "running" /\ status'[t] = "done"
      /\ \A u \in Tasks : u # t => status'[u] = status[u]
  BY <1>1, FinishEffect
<1>3. UNCHANGED <<freed, cmds, get, net>>
  BY <1>1 DEF Finish
<1>4. /\ ThreadType /\ ThreadInv /\ LoopInv /\ DescType /\ FreeInv /\ LiveInv /\ ThreadInv'
  BY DEF TransferInv, LocalInv, CommInv
<1>5. \A e, r : \A k \in Outputs : Waits(e, r, k)' <=> Waits(e, r, k)
  BY <1>3, TokensSame
<1>6. (InLoop(w)' => Unmet(w)' = Pairs(t))
  BY ReleaseStep
<1>7. /\ thread'[w].task = t /\ SendersKept
      /\ \A v \in Threads : v # w => thread'[v] = thread[v]
  BY <1>1, <1>2, <1>4, ReleaseThread
<1>8. \A u : Held(u)' <=> Held(u)
  BY <1>7, HeldKept
<1>9. Held(t)
  BY DEF Held
<1>10. \A s \in Tasks : StillUses(s)' <=> StillUses(s)
  BY <1>2, <1>8, <1>9 DEF StillUses
<1>11. \A e \in Tasks : desc'[e] = desc[e] \/ (desc[e].task = NoTask /\ desc'[e].task = t)
  <2>1. CASE NbRanks(t, Outputs) = 0
    BY <2>1 DEF Release, descVars
  <2>2. CASE NbRanks(t, Outputs) # 0
    <3>1. desc' = [desc EXCEPT ![c] = Filled(t, Outputs)] /\ PopFree(n)
      BY <2>2 DEF Release
    <3>2. c \in Tasks /\ desc[c].task = NoTask
      BY <1>2, <1>4, <3>1, AllocatedEffect
    <3>3. Filled(t, Outputs).task = t
      BY <1>2, FilledType
    <3> QED BY <1>4, <3>1, <3>2, <3>3 DEF DescType
  <2> QED BY <2>1, <2>2
<1>12. \A e \in Tasks, r \in Nodes, k \in Outputs : Waits(e, r, k)' => Live(e) /\ desc'[e] = desc[e]
  <2>1. \A e \in Tasks : Live(e) => desc[e].task # NoTask
    BY BlankType, RemoteGraphAssumption DEF Live
  <2>2. WaitsAreLive
    BY WaitsLive
  <2> QED BY <1>5, <1>11, <2>1, <2>2 DEF WaitsAreLive
<1>13. ASSUME NEW d \in Received PROVE Flights(d)' = Flights(d)
  <2>1. \A r \in RanksOf(d[1], d[2]) : r \in Nodes /\ d[2] \in Outputs
    BY RefsAre, RanksType
  <2>2. ASSUME NEW r \in RanksOf(d[1], d[2]) PROVE InFlight(d, r)' <=> InFlight(d, r)
    <3>1. Told(d, r)' <=> Told(d, r)
      BY <1>5, <1>12, <2>1 DEF Told, Live
    <3>2. Promised(d, r)' <=> Promised(d, r)
      BY <1>7, PromisedKept
    <3> QED BY <3>1, <3>2 DEF InFlight
  <2> QED BY <2>2 DEF Flights
<1>14. ASSUME NEW d \in Received PROVE refs'[d] = RefsOf(d)'
  <2>1. /\ d[1] \in Tasks /\ d[2] \in Outputs /\ d = <<d[1], d[2]>>
        /\ Cardinality(Flights(d)) \in Nat
    BY RefsAre
  <2>2. refs[d] = RefsOf(d)
    BY DEF HoldInv, RefsExact
  <2>3. CASE d[1] = t
    <3>1. Users(d) = {} /\ Flights(d) = {}
      <4>1. Users(d) = {}
        BY <1>2, <2>3 DEF Users
      <4>2. \A r : ~ Told(d, r)
        BY <1>2, <1>4, <2>3 DEF Told, LiveInv
      <4>3. \A r : ~ Promised(d, r)
        BY <1>2, <1>4, <2>3 DEF Promised, ThreadInv, ThreadOf
      <4> QED BY <4>1, <4>2, <4>3 DEF Flights, InFlight
    <3>2. refs[d] = 1
      BY <1>9, <2>2, <2>3, <3>1, FS_EmptySet DEF RefsOf
    <3>3. Users(d)' = LocalSuccessors(t, d[2])
      <4> SUFFICES ASSUME NEW s \in LocalSuccessors(t, d[2]) PROVE StillUses(s)'
        BY <1>2, <2>3 DEF Users
      <4>1. s \in Tasks /\ s \in Out[t][d[2]] /\ Rank[s] = Rank[t]
        BY <1>2, <2>1, RemoteGraphAssumption DEF LocalSuccessors
      <4>2. s # t
        BY <1>2, <2>1, <4>1 DEF HoldInv, NotOwnSuccessor
      <4>3. status[s] = "waiting"
        <5>1. d \in Inputs(s)
          BY <2>1, <2>3, <4>1, RefsAre DEF Inputs
        <5> QED BY <1>2, <2>3, <4>1, <5>1, SourcesDone
      <4> QED BY <1>2, <4>1, <4>2, <4>3 DEF StillUses
    <3>4. refs'[d] = 1 + Cardinality(LocalSuccessors(t, d[2]))
      BY <2>3, <3>2 DEF Release
    <3>5. RefsOf(d)' = 1 + Cardinality(LocalSuccessors(t, d[2])) + Cardinality({})
      BY <1>8, <1>9, <1>13, <2>3, <3>1, <3>3 DEF RefsOf
    <3>6. Cardinality(LocalSuccessors(t, d[2])) \in Nat
      <4>1. LocalSuccessors(t, d[2]) \in SUBSET Tasks
        BY <1>2, <2>1, RemoteGraphAssumption DEF LocalSuccessors
      <4> QED BY <4>1, SetsFinite, FS_Subset, FS_CardinalityType
    <3> QED BY <3>4, <3>5, <3>6, FS_EmptySet
  <2>4. CASE d[1] # t
    <3>1. Users(d)' = Users(d)
      BY <1>2, <1>10, <2>1, <2>4, UsersKept
    <3>2. refs'[d] = refs[d]
      BY <2>4 DEF Release
    <3> QED BY <1>8, <1>13, <2>2, <3>1, <3>2 DEF RefsOf
  <2> QED BY <2>3, <2>4
<1>15. RefsExact'
  <2>1. ASSUME NEW d \in Received
        PROVE  refs[d] \in Int /\ refs[d] + Cardinality(LocalSuccessors(t, d[2])) \in Int
    <3>1. LocalSuccessors(t, d[2]) \in SUBSET Tasks
      BY <1>2, RefsAre, RemoteGraphAssumption DEF LocalSuccessors
    <3>2. Cardinality(LocalSuccessors(t, d[2])) \in Nat
      BY <3>1, SetsFinite, FS_Subset, FS_CardinalityType
    <3> QED BY <3>2 DEF HoldInv, RefsExact
  <2>2. refs' = [e \in Received |-> IF e[1] = t THEN refs[e] + Cardinality(LocalSuccessors(t, e[2]))
                                    ELSE refs[e]]
    BY DEF Release
  <2>3. refs' \in [Received -> Int]
    BY <2>1, <2>2
  <2> QED BY <1>14, <2>3 DEF RefsExact
<1>16. NotOwnSuccessor'
  BY <1>2 DEF HoldInv, NotOwnSuccessor
<1>17. ToldInv'
  <2>1. ToldOf(w)'
    BY <1>6, <1>7 DEF ToldOf
  <2>2. ASSUME NEW v \in Threads, v # w PROVE ToldOf(v)'
    <3>1. ASSUME InLoop(v), OwnDesc(v)'
          PROVE  OwnDesc(v) /\ desc'[thread[v].deps] = desc[thread[v].deps]
      <4>1. thread[v].deps \in Tasks /\ thread[v].task \in Tasks
        BY <1>4, <3>1 DEF LoopInv, LoopOf, InLoop, ThreadInv, ThreadOf
      <4>2. thread[v].task # t
        BY <1>2, <1>4, <2>2, RemoteGraphAssumption DEF ThreadInv
      <4>3. desc'[thread[v].deps] = desc[thread[v].deps]
        BY <1>7, <1>11, <2>2, <3>1, <4>1, <4>2 DEF OwnDesc
      <4> QED BY <1>7, <2>2, <3>1, <4>3 DEF OwnDesc
    <3> QED BY <1>7, <2>2, <3>1, ToldKept DEF HoldInv, ToldInv
  <2> QED BY <2>1, <2>2 DEF ToldInv
<1>18. FreedInv'
  <2> SUFFICES ASSUME NEW d \in freed PROVE d \in Received /\ refs'[d] = 0 /\ status'[d[1]] = "done"
    BY <1>3 DEF FreedInv
  <2>1. d \in Received /\ refs[d] = 0 /\ status[d[1]] = "done" /\ d[1] \in Tasks
    BY RefsAre DEF HoldInv, FreedInv
  <2>2. d[1] # t
    BY <1>2, <2>1
  <2> QED BY <1>2, <2>1, <2>2 DEF Release
<1> QED BY <1>15, <1>16, <1>17, <1>18 DEF HoldInv

\* A rank the loop meets for an output it passes on had not been told of
\* anything, and is told of no other output that is passed on.
LEMMA FirstMet ==
    ASSUME TransferInv, HoldInv, FirstSent, NEW w \in Threads, thread[w].at \in {"rank", "send"},
           NEW r, r = Min(thread[w].mask), r # w[1]
    PROVE  LET t == thread[w].task
               c == thread[w].deps
               o == thread[w].out
           IN  /\ r \in desc[c].forwarded => <<t, o>> \notin Received
               /\ r \notin desc[c].forwarded =>
                     \A d \in Received : d[1] = t /\ r \in RanksOf(t, d[2]) => d = <<t, o>>
<1> PICK t, c, o : t = thread[w].task /\ c = thread[w].deps /\ o = thread[w].out
  OBVIOUS
<1>1. /\ t \in Tasks /\ Rank[t] = w[1] /\ desc[c].task = t /\ r \in Nodes /\ o \in Outputs
      /\ r \in RanksOf(t, o) /\ <<o, r>> \in Unmet(w)
  BY MeetsPair
<1>2. LoopOf(w) /\ InLoop(w) /\ OwnDesc(w)
  BY <1>1 DEF TransferInv, LocalInv, LoopInv, InLoop, OwnDesc
<1>3. ASSUME r \in desc[c].forwarded, <<t, o>> \in Received PROVE FALSE
  <2>1. PICK p \in Pairs(t) \ Unmet(w) : p[2] = r
    BY <1>2, <1>3 DEF LoopOf
  <2>2. p = <<p[1], r>> /\ p[1] \in Outputs /\ r \in RanksOf(t, p[1])
    BY <2>1 DEF Pairs
  <2>3. p[1] \in Nat /\ o \in Nat
    BY <1>1, <2>2, SetsFinite
  <2>4. p[1] \in Needed(t, r)
    BY <2>2 DEF Needed
  <2>5. o <= p[1]
    BY <1>1, <1>3, <2>4 DEF FirstSent
  <2>6. ~ (p[1] > o)
    BY <2>1 DEF Unmet
  <2>7. p[1] = o
    BY <2>3, <2>5, <2>6
  <2> QED BY <1>1, <2>1, <2>2, <2>7
<1>4. ASSUME r \notin desc[c].forwarded, NEW d \in Received, d[1] = t, r \in RanksOf(t, d[2])
      PROVE  d = <<t, o>>
  <2>1. d = <<d[1], d[2]>> /\ d[2] \in Outputs
    BY RefsAre
  <2>2. d[2] \in Nat /\ o \in Nat
    BY <1>1, <2>1, SetsFinite
  <2>3. o \in Needed(t, r)
    BY <1>1 DEF Needed
  <2>4. d[2] <= o
    BY <1>1, <1>4, <2>3 DEF FirstSent
  <2>5. CASE d[2] = o
    BY <1>4, <2>1, <2>5
  <2>6. CASE d[2] # o
    <3> DEFINE p == <<d[2], r>>
    <3>1. p \in Pairs(t)
      BY <1>1, <1>4, <2>1 DEF Pairs
    <3>2. p \notin Unmet(w)
      BY <2>2, <2>4, <2>6 DEF Unmet
    <3>3. p[2] = r /\ ToldOf(w)
      BY DEF HoldInv, ToldInv
    <3> HIDE DEF p
    <3>4. r \in desc[c].forwarded
      BY <1>2, <3>1, <3>2, <3>3 DEF ToldOf
    <3> QED BY <1>4, <3>4
  <2> QED BY <2>5, <2>6
<1> QED BY <1>3, <1>4

\* What SendRank does to the descriptor and the commands.
LEMMA TellsEffect ==
    ASSUME TransferInv, NEW w \in Threads, SendRank(w), NEW r, r = Min(thread[w].mask),
           NEW c, c = thread[w].deps
    PROVE  /\ \A e \in Tasks : e # c => desc'[e] = desc[e]
           /\ desc'[c].forwarded = desc[c].forwarded \cup {r}
           /\ \A e \in Tasks : Live(e)' <=> Live(e)
           /\ \A e \in Tasks : desc'[e].task = desc[e].task /\ desc[e].forwarded \subseteq desc'[e].forwarded
           /\ \A e \in Tasks, q \in Nodes : \A k \in Outputs :
                 Waits(e, q, k)' <=> Waits(e, q, k) \/ (e = c /\ q = r)
<1> PICK n, m : n = w[1] /\ m = TheActivation(r, c)
  OBVIOUS
<1>1. thread[w].at = "send" /\ n \in Nodes /\ UNCHANGED <<get, net>>
  BY DEF SendRank, Threads, commVars
<1>2. c \in Tasks /\ Rank[c] = n /\ r \in Nodes
  BY <1>1, MeetsPair
<1>3. DescType /\ CommType
  BY DEF TransferInv, CommInv
<1>4. Forward(c, r) /\ cmds' = [cmds EXCEPT ![n] = Append(@, m)]
  BY DEF SendRank, DequeueSend, Forward, TheActivation
<1>5. m \in Command /\ m.action = "activate" /\ m.rank = r /\ m.deps = c
  BY <1>2 DEF Command, TheActivation
<1>6. /\ \A e \in Tasks : e # c => desc'[e] = desc[e]
      /\ desc'[c].forwarded = desc[c].forwarded \cup {r}
      /\ \A e \in Tasks : Live(e)' <=> Live(e)
      /\ \A e \in Tasks : desc'[e].task = desc[e].task /\ desc[e].forwarded \subseteq desc'[e].forwarded
  BY <1>2, <1>3, <1>4, ForwardEffect
<1>7. \A e \in Tasks, q \in Nodes : Queued(e, q)' <=> Queued(e, q) \/ (Rank[e] = n /\ m = TheActivation(q, e))
  BY <1>1, <1>3, <1>4, <1>5, AppendCommand DEF Appended
<1>8. \A e \in Tasks, q \in Nodes : m = TheActivation(q, e) <=> e = c /\ q = r
  BY <1>5, ActivationType
<1>9. \A e \in Tasks, q \in Nodes :
         /\ Announced(e, q)' <=> Announced(e, q)
         /\ Asked(e, q)' <=> Asked(e, q)
         /\ \A j \in Slots : Serving(e, q, j)' <=> Serving(e, q, j)
  BY <1>1 DEF Announced, Asked, Serving
<1>10. ASSUME NEW e \in Tasks, NEW q \in Nodes, NEW k \in Outputs
       PROVE  Waits(e, q, k)' <=> Waits(e, q, k) \/ (e = c /\ q = r)
  <2>1. Queued(e, q)' <=> Queued(e, q) \/ (e = c /\ q = r)
    BY <1>2, <1>7, <1>8
  <2> QED BY <1>1, <1>9, <2>1 DEF Waits
<1> QED BY <1>6, <1>10

\* A thread that stays in the loop of its task was told of the rank it met.
LEMMA ToldNext ==
    ASSUME TransferInv, HoldInv, NEW w \in Threads, thread[w].at \in {"rank", "send"},
           NEW r, r = Min(thread[w].mask), NextBit(w, r),
           \A e \in Tasks : desc'[e].task = desc[e].task /\ desc[e].forwarded \subseteq desc'[e].forwarded,
           r = w[1] \/ r \in desc'[thread[w].deps].forwarded
    PROVE  ToldInv'
<1>1. PICK s \in ThreadState :
         /\ thread' = [thread EXCEPT ![w] = s]
         /\ s.task = thread[w].task /\ s.deps = thread[w].deps
         /\ thread'[w] = s /\ \A v \in Threads : v # w => thread'[v] = thread[v]
         /\ Unmet(w)' = Unmet(w) \ {<<thread[w].out, r>>}
  BY NextBitThread
<1>2. LoopInv /\ thread[w].deps \in Tasks /\ InLoop(w) /\ OwnDesc(w)
  BY MeetsPair DEF TransferInv, LocalInv, InLoop, OwnDesc
<1>3. ToldOf(w)'
  <2> SUFFICES ASSUME NEW p \in Pairs(s.task) \ Unmet(w)', p[2] # w[1]
               PROVE  p[2] \in desc'[s.deps].forwarded
    BY <1>1 DEF ToldOf
  <2>1. CASE p = <<thread[w].out, r>>
    BY <1>1, <2>1
  <2>2. CASE p # <<thread[w].out, r>>
    <3>1. p \in Pairs(thread[w].task) \ Unmet(w)
      BY <1>1, <2>2
    <3>2. p[2] \in desc[thread[w].deps].forwarded
      BY <1>2, <3>1 DEF HoldInv, ToldInv, ToldOf
    <3> QED BY <1>1, <1>2, <3>2
  <2> QED BY <2>1, <2>2
<1>4. ASSUME NEW v \in Threads, v # w PROVE ToldOf(v)'
  <2>1. ASSUME InLoop(v), OwnDesc(v)'
        PROVE  OwnDesc(v) /\ desc[thread[v].deps].forwarded \subseteq desc'[thread[v].deps].forwarded
    <3>1. thread[v].deps \in Tasks
      BY <1>2, <2>1 DEF LoopInv, LoopOf
    <3> QED BY <1>1, <1>4, <2>1, <3>1 DEF OwnDesc
  <2> QED BY <1>1, <1>4, <2>1, ToldKept DEF HoldInv, ToldInv
<1> QED BY <1>3, <1>4 DEF ToldInv

\* A rank the loop is about to tell was told of nothing yet.
LEMMA NotToldYet ==
    ASSUME TransferInv, NEW w \in Threads, thread[w].at \in {"rank", "send"},
           NEW r, r = Min(thread[w].mask), r \notin desc[thread[w].deps].forwarded,
           NEW k \in Outputs
    PROVE  ~ Told(<<thread[w].task, k>>, r)
<1>1. /\ thread[w].task \in Tasks /\ thread[w].deps \in Tasks /\ r \in Nodes
      /\ desc[thread[w].deps].task = thread[w].task /\ Live(thread[w].deps)
  BY MeetsPair
<1>2. SingleInv /\ WaitsAreLive
  BY WaitsLive DEF TransferInv, CommInv
<1>3. ASSUME NEW e \in Tasks, Live(e), desc[e].task = thread[w].task, Waits(e, r, k) PROVE FALSE
  <2>1. e = thread[w].deps
    BY <1>1, <1>2, <1>3 DEF SingleInv
  <2> QED BY <1>1, <1>2, <1>3, <2>1 DEF WaitsAreLive
<1> QED BY <1>3 DEF Told

\* NextRank, when the rank is the own one or was told before.
LEMMA HoldSkip ==
    ASSUME TransferInv, HoldInv, FirstSent, NEW w \in Threads, NextRank(w),
           NEW r, r = Min(thread[w].mask), r = w[1] \/ r \in desc[thread[w].deps].forwarded
    PROVE  HoldInv'
<1> PICK t, o : t = thread[w].task /\ o = thread[w].out
  OBVIOUS
<1>1. /\ thread[w].at = "rank" /\ UNCHANGED <<status, freed, get, net, desc, cmds>> /\ NextBit(w, r)
      /\ r = w[1] => UNCHANGED refs
      /\ r # w[1] => refs' = [e \in Received |-> IF e = <<t, o>> THEN refs[e] + 1 ELSE refs[e]]
  BY DEF NextRank, Ref, descVars, commVars
<1>2. PICK s \in ThreadState :
         /\ s.at \in {"rank", "counted"} /\ s.task = thread[w].task
         /\ thread'[w] = s /\ \A v \in Threads : v # w => thread'[v] = thread[v]
  BY <1>1, NextBitThread
<1>3. \A u : Held(u)' <=> Held(u)
  BY <1>2, HeldKept
<1>4. UNCHANGED refs
  <2>1. CASE r = w[1]
    BY <1>1, <2>1
  <2>2. CASE r # w[1]
    <3>1. <<t, o>> \notin Received
      BY <1>1, <2>2, FirstMet
    <3>2. \A e \in Received : refs'[e] = refs[e]
      BY <1>1, <2>2, <3>1
    <3>3. refs' = [e \in Received |-> refs'[e]] /\ refs = [e \in Received |-> refs[e]]
      BY <1>1, <2>2 DEF HoldInv, RefsExact
    <3> QED BY <3>2, <3>3
  <2> QED BY <2>1, <2>2
<1>5. ToldInv'
  BY <1>1, ToldNext
<1>6. WaitsKept
  BY <1>1, TokensSame DEF WaitsKept, Needed
<1>7. \A e \in Tasks : (Live(e)' <=> Live(e)) /\ desc'[e].task = desc[e].task
  BY <1>1, DescSame
<1>8. SendersKept
  BY <1>1, <1>2 DEF SendersKept
<1> QED BY <1>1, <1>3, <1>4, <1>5, <1>6, <1>7, <1>8, HoldQuiet

\* NextRank, when the rank is to be told: it refers to the output from now on.
LEMMA HoldTell ==
    ASSUME TransferInv, HoldInv, FirstSent, NEW w \in Threads, NextRank(w),
           NEW r, r = Min(thread[w].mask), r # w[1], r \notin desc[thread[w].deps].forwarded
    PROVE  HoldInv'
<1> PICK t, o : t = thread[w].task /\ o = thread[w].out
  OBVIOUS
<1>1. /\ thread[w].at = "rank" /\ UNCHANGED <<status, freed, get, net, desc, cmds>>
      /\ thread' = [thread EXCEPT ![w].at = "send"]
      /\ refs' = [e \in Received |-> IF e = <<t, o>> THEN refs[e] + 1 ELSE refs[e]]
  BY DEF NextRank, Goto, Ref, descVars, commVars
<1>2. /\ t \in Tasks /\ status[t] = "done" /\ r \in Nodes /\ o \in Outputs /\ r \in RanksOf(t, o)
  BY <1>1, MeetsPair
<1>3. ThreadType
  BY DEF TransferInv, LocalInv
<1>4. /\ thread'[w].at = "send" /\ thread'[w].task = t /\ thread'[w].out = o
      /\ thread'[w].mask = thread[w].mask /\ thread'[w].deps = thread[w].deps
      /\ \A v \in Threads : v # w => thread'[v] = thread[v]
  BY <1>1, <1>3 DEF ThreadType, ThreadState
<1>5. \A u : Held(u)' <=> Held(u)
  BY <1>4, HeldKept
<1>6. refs \in [Received -> Int] /\ \A d \in Received : refs[d] = RefsOf(d)
  BY DEF HoldInv, RefsExact
<1>7. \A s \in Tasks : StillUses(s)' <=> StillUses(s)
  BY <1>1, <1>5 DEF StillUses
<1>8. ASSUME NEW d \in Received, NEW q \in RanksOf(d[1], d[2])
      PROVE  InFlight(d, q)' <=> InFlight(d, q) \/ (d = <<t, o>> /\ q = r)
  <2>1. d[1] \in Tasks /\ d[2] \in Outputs /\ d = <<d[1], d[2]>>
    BY RefsAre
  <2>2. Told(d, q)' <=> Told(d, q)
    BY <1>1, <2>1, TokensSame, DescSame DEF Told
  <2>3. Promised(d, q)' <=> Promised(d, q) \/ (d = <<t, o>> /\ q = r)
    <3>1. ASSUME NEW v \in Threads, v # w PROVE thread'[v] = thread[v]
      BY <1>4, <3>1
    <3>2. thread'[w].task = d[1] /\ thread'[w].out = d[2] <=> d = <<t, o>>
      BY <1>4, <2>1
    <3>3. Min(thread'[w].mask) = r
      BY <1>4
    <3>4. thread[w].at # "send" /\ thread'[w].at = "send"
      BY <1>1, <1>4
    <3> QED BY <3>1, <3>2, <3>3, <3>4 DEF Promised
  <2> QED BY <2>2, <2>3 DEF InFlight
<1>9. ASSUME NEW d \in Received PROVE refs'[d] = RefsOf(d)'
  <2>1. /\ d[1] \in Tasks /\ d[2] \in Outputs /\ d = <<d[1], d[2]>>
        /\ Cardinality(Users(d)) \in Nat /\ IsFiniteSet(Flights(d)) /\ Cardinality(Flights(d)) \in Nat
    BY RefsAre
  <2>2. Users(d)' = Users(d)
    BY <1>1, <1>7, UsersKept
  <2>3. CASE d = <<t, o>>
    <3>1. d[1] = t /\ d[2] = o
      BY <2>3
    <3>2. r \notin Flights(d)
      <4>1. ~ Told(d, r)
        BY <1>1, <1>2, <2>3, NotToldYet
      <4>2. ~ Promised(d, r)
        <5> SUFFICES ASSUME NEW v \in Threads, thread[v].at = "send", thread[v].task = t PROVE FALSE
          BY <3>1 DEF Promised
        <5>1. v # w
          BY <1>1
        <5>2. ThreadInv /\ t # NoTask
          BY <1>2, RemoteGraphAssumption DEF TransferInv, LocalInv
        <5> QED BY <5>1, <5>2 DEF ThreadInv
      <4> QED BY <4>1, <4>2 DEF Flights, InFlight
    <3>3. Flights(d)' = Flights(d) \cup {r}
      <4>1. r \in RanksOf(d[1], d[2])
        BY <1>2, <3>1
      <4> QED BY <1>8, <2>3, <4>1 DEF Flights
    <3>4. Cardinality(Flights(d)') = Cardinality(Flights(d)) + 1
      BY <2>1, <3>2, <3>3, FS_AddElement
    <3>5. refs'[d] = refs[d] + 1
      BY <1>1, <2>3
    <3> PICK a, b, f : /\ a = IF Held(d[1]) THEN 1 ELSE 0
                       /\ b = Cardinality(Users(d)) /\ f = Cardinality(Flights(d))
      OBVIOUS
    <3>6. RefsOf(d) = a + b + f /\ RefsOf(d)' = a + b + (f + 1)
      BY <1>5, <2>2, <3>4 DEF RefsOf
    <3>7. a \in Nat /\ b \in Nat /\ f \in Nat
      BY <2>1
    <3> QED BY <1>6, <3>5, <3>6, <3>7
  <2>4. CASE d # <<t, o>>
    <3>1. Flights(d)' = Flights(d)
      BY <1>8, <2>4 DEF Flights
    <3>2. refs'[d] = refs[d]
      BY <1>1, <2>4
    <3> QED BY <1>5, <1>6, <2>2, <3>1, <3>2 DEF RefsOf
  <2> QED BY <2>3, <2>4
<1>10. RefsExact'
  <2>1. \A e \in Received : refs[e] \in Int /\ refs[e] + 1 \in Int
    BY <1>6
  <2>2. refs' \in [Received -> Int]
    BY <1>1, <2>1
  <2> QED BY <1>9, <2>2 DEF RefsExact
<1>11. NotOwnSuccessor'
  BY <1>1 DEF HoldInv, NotOwnSuccessor
<1>12. ToldInv'
  <2> SUFFICES ASSUME NEW v \in Threads PROVE ToldOf(v)'
    BY DEF ToldInv
  <2>1. CASE v = w
    <3>1. Unmet(w)' = Unmet(w) /\ InLoop(w) /\ (OwnDesc(w)' <=> OwnDesc(w))
      BY <1>1, <1>4 DEF Unmet, InLoop, OwnDesc
    <3>2. ToldOf(w)
      BY DEF HoldInv, ToldInv
    <3> QED BY <1>1, <1>4, <2>1, <3>1, <3>2 DEF ToldOf
  <2>2. CASE v # w
    <3>1. OwnDesc(v)' <=> OwnDesc(v)
      BY <1>1, <1>4, <2>2 DEF OwnDesc
    <3> QED BY <1>1, <1>4, <2>2, <3>1, ToldKept DEF HoldInv, ToldInv
  <2> QED BY <2>1, <2>2
<1>13. FreedInv'
  <2> SUFFICES ASSUME NEW d \in freed PROVE d \in Received /\ refs'[d] = 0 /\ status[d[1]] = "done"
    BY <1>1 DEF FreedInv
  <2>1. d \in Received /\ refs[d] = 0 /\ status[d[1]] = "done"
    BY DEF HoldInv, FreedInv
  <2>2. ~ Held(d[1])
    BY <1>6, <2>1, RefsAre
  <2>3. Held(t)
    BY DEF Held
  <2>4. d # <<t, o>>
    BY <2>2, <2>3
  <2> QED BY <1>1, <2>1, <2>4
<1> QED BY <1>10, <1>11, <1>12, <1>13 DEF HoldInv

LEMMA HoldNextRank ==
    ASSUME TransferInv, HoldInv, FirstSent, NEW w \in Threads, NextRank(w)
    PROVE  HoldInv'
<1> PICK r : r = Min(thread[w].mask)
  OBVIOUS
<1>1. CASE r = w[1] \/ r \in desc[thread[w].deps].forwarded
  BY <1>1, HoldSkip
<1>2. CASE r # w[1] /\ r \notin desc[thread[w].deps].forwarded
  BY <1>2, HoldTell
<1> QED BY <1>1, <1>2

\* SendRank: what was promised is told, and no other output that is passed on.
LEMMA HoldSendRank ==
    ASSUME TransferInv, HoldInv, FirstSent, NEW w \in Threads, SendRank(w)
    PROVE  HoldInv'
<1> PICK r, t, c, o : r = Min(thread[w].mask) /\ t = thread[w].task /\ c = thread[w].deps
                      /\ o = thread[w].out
  OBVIOUS
<1>1. thread[w].at = "send" /\ NextBit(w, r) /\ UNCHANGED <<status, refs, freed>>
  BY DEF SendRank, taskVars
<1>2. /\ t \in Tasks /\ c \in Tasks /\ desc[c].task = t /\ Live(c) /\ r \in Nodes /\ o \in Outputs
      /\ r \in RanksOf(t, o)
  BY <1>1, MeetsPair
<1>3. r # w[1] /\ r \notin desc[c].forwarded
  BY <1>1, <1>2 DEF TransferInv, LocalInv, LoopInv, LoopOf, InLoop, OwnDesc
<1>4. PICK s \in ThreadState :
         /\ s.at \in {"rank", "counted"} /\ s.task = t
         /\ thread'[w] = s /\ \A v \in Threads : v # w => thread'[v] = thread[v]
  BY <1>1, NextBitThread
<1>5. \A u : Held(u)' <=> Held(u)
  BY <1>4, HeldKept
<1>6. \A e \in Tasks, q \in Nodes : \A k \in Outputs :
         Waits(e, q, k)' <=> Waits(e, q, k) \/ (e = c /\ q = r)
  BY TellsEffect
<1>7. /\ \A e \in Tasks : Live(e)' <=> Live(e)
      /\ \A e \in Tasks : desc'[e].task = desc[e].task /\ desc[e].forwarded \subseteq desc'[e].forwarded
      /\ desc'[c].forwarded = desc[c].forwarded \cup {r}
  BY TellsEffect
<1>8. \A d \in Received : d[1] = t /\ r \in RanksOf(t, d[2]) => d = <<t, o>>
  BY <1>1, <1>3, FirstMet
<1>9. ASSUME NEW d \in Received, NEW q \in RanksOf(d[1], d[2])
      PROVE  InFlight(d, q)' <=> InFlight(d, q)
  <2>1. d[1] \in Tasks /\ d[2] \in Outputs /\ d = <<d[1], d[2]>> /\ q \in Nodes
    BY RefsAre, RanksType
  <2>2. CASE d = <<t, o>> /\ q = r
    <3>1. Promised(d, q)
      BY <1>1, <2>2 DEF Promised
    <3>2. Told(d, q)'
      BY <1>2, <1>6, <1>7, <2>1, <2>2 DEF Told
    <3> QED BY <3>1, <3>2 DEF InFlight
  <2>3. CASE ~ (d = <<t, o>> /\ q = r)
    <3>1. Promised(d, q)' <=> Promised(d, q)
      <4>1. ~ (thread[w].task = d[1] /\ thread[w].out = d[2] /\ Min(thread[w].mask) = q)
        BY <2>1, <2>3
      <4>2. thread'[w].at # "send"
        BY <1>4
      <4> QED BY <1>4, <4>1, <4>2 DEF Promised
    <3>2. ASSUME NEW e \in Tasks, desc[e].task = d[1] PROVE Waits(e, q, d[2])' <=> Waits(e, q, d[2])
      <4>1. ~ (e = c /\ q = r)
        BY <1>2, <1>8, <2>3, <3>2
      <4> QED BY <1>6, <2>1, <4>1
    <3>3. Told(d, q)' <=> Told(d, q)
      BY <1>7, <3>2 DEF Told
    <3> QED BY <3>1, <3>3 DEF InFlight
  <2> QED BY <2>2, <2>3
<1>10. ASSUME NEW d \in Received PROVE refs'[d] = RefsOf(d)'
  <2>1. Users(d)' = Users(d)
    <3>1. \A u \in Tasks : StillUses(u)' <=> StillUses(u)
      BY <1>1, <1>5 DEF StillUses
    <3> QED BY <1>1, <3>1, UsersKept
  <2>2. Flights(d)' = Flights(d)
    BY <1>9 DEF Flights
  <2>3. refs[d] = RefsOf(d)
    BY DEF HoldInv, RefsExact
  <2> QED BY <1>1, <1>5, <2>1, <2>2, <2>3 DEF RefsOf
<1>11. RefsExact'
  BY <1>1, <1>10 DEF HoldInv, RefsExact
<1>12. ToldInv'
  BY <1>1, <1>7, ToldNext
<1>13. NotOwnSuccessor' /\ FreedInv'
  BY <1>1 DEF HoldInv, NotOwnSuccessor, FreedInv
<1> QED BY <1>11, <1>12, <1>13 DEF HoldInv

\* Drop: the task no longer refers to its outputs, nor to what its local
\* predecessors gave it.
LEMMA HoldDrop ==
    ASSUME TransferInv, HoldInv, NEW w \in Threads, Drop(w)
    PROVE  HoldInv'
<1> PICK t, data : /\ t = thread[w].task
                   /\ data = {d \in Data : d[1] = t} \cup {d \in Inputs(t) : Rank[d[1]] = w[1]}
  OBVIOUS
<1> DEFINE s == [Idle EXCEPT !.at = "loop"]
<1>1. /\ thread[w].at = "drop" /\ thread' = [thread EXCEPT ![w] = s]
      /\ UNCHANGED <<status, desc, cmds, get, net>>
      /\ refs' = [d \in Received |-> IF d \in data THEN refs[d] - 1 ELSE refs[d]]
      /\ freed' = freed \cup {d \in data \cap Received : refs[d] = 1}
  BY DEF Drop, Unref, descVars, commVars
<1>2. s.at = "loop" /\ s.task = NoTask
  BY DEF Idle
<1> HIDE DEF s
<1>3. ThreadType /\ ThreadInv /\ ThreadOf(w)
  BY DEF TransferInv, LocalInv, ThreadInv
<1>4. t \in Tasks /\ Rank[t] = w[1] /\ status[t] = "done" /\ t # NoTask
  BY <1>1, <1>3, RemoteGraphAssumption DEF ThreadOf
<1>5. thread'[w] = s /\ \A v \in Threads : v # w => thread'[v] = thread[v]
  BY <1>1, <1>3 DEF ThreadType
<1>6. Held(t) /\ ~ Held(t)' /\ \A u \in Tasks : u # t => (Held(u)' <=> Held(u))
  <2>1. Held(t)
    BY DEF Held
  <2>2. ~ Held(t)'
    BY <1>2, <1>3, <1>4, <1>5 DEF Held, ThreadInv
  <2>3. ASSUME NEW u \in Tasks, u # t PROVE Held(u)' <=> Held(u)
    <3>1. u # NoTask
      BY RemoteGraphAssumption
    <3> QED BY <1>2, <1>5, <2>3, <3>1 DEF Held
  <2> QED BY <2>1, <2>2, <2>3
<1>7. /\ StillUses(t) /\ ~ StillUses(t)'
      /\ \A u \in Tasks : u # t => (StillUses(u)' <=> StillUses(u))
  BY <1>1, <1>4, <1>6 DEF StillUses
<1>8. refs \in [Received -> Int] /\ \A d \in Received : refs[d] = RefsOf(d)
  BY DEF HoldInv, RefsExact
<1>9. ASSUME NEW d \in Received
      PROVE  /\ LocalSuccessors(d[1], d[2]) \subseteq Tasks
             /\ d \in data <=> d[1] = t \/ t \in LocalSuccessors(d[1], d[2])
             /\ d[1] = t => t \notin LocalSuccessors(d[1], d[2])
             /\ t \in LocalSuccessors(d[1], d[2]) => t \in Users(d) /\ status[d[1]] = "done"
  <2>1. d \in Data /\ d[1] \in Tasks /\ d[2] \in Outputs
    BY RefsAre
  <2>2. LocalSuccessors(d[1], d[2]) \subseteq Tasks
    BY <2>1, RemoteGraphAssumption DEF LocalSuccessors
  <2>3. t \in LocalSuccessors(d[1], d[2]) <=> d \in Inputs(t) /\ Rank[d[1]] = w[1]
    BY <1>4, <2>1 DEF LocalSuccessors, Inputs
  <2>4. d \in data <=> d[1] = t \/ t \in LocalSuccessors(d[1], d[2])
    BY <2>1, <2>3
  <2>5. d[1] = t => t \notin LocalSuccessors(d[1], d[2])
    BY <1>4, <2>1 DEF LocalSuccessors, HoldInv, NotOwnSuccessor
  <2>6. ASSUME t \in LocalSuccessors(d[1], d[2]) PROVE t \in Users(d) /\ status[d[1]] = "done"
    <3>1. d \in Inputs(t) /\ status[t] # "waiting"
      BY <1>4, <2>3, <2>6
    <3>2. status[d[1]] = "done"
      BY <1>4, <3>1, SourcesDone
    <3> QED BY <1>7, <2>6, <3>2 DEF Users
  <2> QED BY <2>2, <2>4, <2>5, <2>6
<1>10. \A e \in Tasks : \A r : \A k \in Outputs : (Live(e)' <=> Live(e)) /\ (Waits(e, r, k)' <=> Waits(e, r, k))
  BY <1>1, TokensSame, DescSame
<1>11. ASSUME NEW d \in Received PROVE refs'[d] = RefsOf(d)'
  <2>1. /\ d[1] \in Tasks /\ d[2] \in Outputs
        /\ IsFiniteSet(Users(d)) /\ Cardinality(Users(d)) \in Nat /\ Cardinality(Flights(d)) \in Nat
    BY RefsAre
  <2>2. Flights(d)' = Flights(d)
    <3>1. SendersKept
      BY <1>1, <1>2, <1>5 DEF SendersKept
    <3> QED BY <1>1, <1>10, <2>1, <3>1, FlightsKept
  <2> PICK a, b, f : /\ a = IF Held(d[1]) THEN 1 ELSE 0
                     /\ b = Cardinality(Users(d)) /\ f = Cardinality(Flights(d))
    OBVIOUS
  <2>3. a \in Nat /\ b \in Nat /\ f \in Nat /\ refs[d] = a + b + f
    BY <1>8, <2>1 DEF RefsOf
  <2>4. CASE d[1] = t
    <3>1. Users(d)' = Users(d)
      BY <1>1, <1>7, <1>9, <2>4 DEF Users
    <3>2. RefsOf(d)' = 0 + b + f /\ a = 1
      BY <1>6, <2>2, <2>4, <3>1 DEF RefsOf
    <3>3. refs'[d] = refs[d] - 1
      BY <1>1, <1>9, <2>4
    <3> QED BY <2>3, <3>2, <3>3
  <2>5. CASE d[1] # t /\ t \in LocalSuccessors(d[1], d[2])
    <3>1. Users(d)' = Users(d) \ {t} /\ t \in Users(d)
      <4>1. t \in Users(d) /\ t \notin Users(d)'
        BY <1>7, <1>9, <2>5 DEF Users
      <4>2. \A u \in LocalSuccessors(d[1], d[2]) : u # t => (u \in Users(d)' <=> u \in Users(d))
        BY <1>1, <1>7, <1>9 DEF Users
      <4>3. Users(d) \subseteq LocalSuccessors(d[1], d[2]) /\ Users(d)' \subseteq LocalSuccessors(d[1], d[2])
        BY DEF Users
      <4> QED BY <4>1, <4>2, <4>3
    <3>2. Cardinality(Users(d)') = b - 1
      <4>1. Cardinality(Users(d) \ {t}) = Cardinality(Users(d)) - 1
        BY <2>1, <3>1, FS_RemoveElement
      <4> QED BY <3>1, <4>1
    <3>3. RefsOf(d)' = a + (b - 1) + f
      BY <1>6, <2>1, <2>2, <2>5, <3>2 DEF RefsOf
    <3>4. refs'[d] = refs[d] - 1
      BY <1>1, <1>9, <2>5
    <3> QED BY <2>3, <3>3, <3>4
  <2>6. CASE d[1] # t /\ t \notin LocalSuccessors(d[1], d[2])
    <3>1. Users(d)' = Users(d)
      BY <1>1, <1>7, <1>9, <2>6 DEF Users
    <3>2. RefsOf(d)' = RefsOf(d)
      BY <1>6, <2>1, <2>2, <2>6, <3>1 DEF RefsOf
    <3>3. refs'[d] = refs[d]
      BY <1>1, <1>9, <2>6
    <3> QED BY <1>8, <3>2, <3>3
  <2> QED BY <2>4, <2>5, <2>6
<1>12. RefsExact'
  <2>1. \A d \in Received : refs[d] \in Int /\ refs[d] - 1 \in Int
    BY <1>8
  <2>2. refs' \in [Received -> Int]
    BY <1>1, <2>1
  <2> QED BY <1>11, <2>2 DEF RefsExact
<1>13. NotOwnSuccessor'
  BY <1>1 DEF HoldInv, NotOwnSuccessor
<1>14. ToldInv'
  <2>1. ToldOf(w)'
    BY <1>2, <1>5 DEF ToldOf, InLoop
  <2>2. ASSUME NEW v \in Threads, v # w PROVE ToldOf(v)'
    <3>1. OwnDesc(v)' => OwnDesc(v)
      BY <1>1, <1>5, <2>2 DEF OwnDesc
    <3> QED BY <1>1, <1>5, <2>2, <3>1, ToldKept DEF HoldInv, ToldInv
  <2> QED BY <2>1, <2>2 DEF ToldInv
<1>15. FreedInv'
  <2>1. ASSUME NEW d \in Received, d \in freed PROVE refs'[d] = 0 /\ status[d[1]] = "done"
    <3>1. refs[d] = 0 /\ status[d[1]] = "done"
      BY <2>1 DEF HoldInv, FreedInv
    <3>2. ~ Held(d[1]) /\ Users(d) = {}
      BY <1>8, <3>1, RefsAre
    <3>3. d \notin data
      BY <1>6, <1>9, <3>2
    <3> QED BY <1>1, <3>1, <3>3
  <2>2. ASSUME NEW d \in Received, d \in data, refs[d] = 1 PROVE refs'[d] = 0 /\ status[d[1]] = "done"
    BY <1>1, <1>4, <1>9, <2>2
  <2>3. freed \subseteq Received
    BY DEF HoldInv, FreedInv
  <2> QED BY <1>1, <2>1, <2>2, <2>3 DEF FreedInv
<1> QED BY <1>12, <1>13, <1>14, <1>15 DEF HoldInv

\* PutEnd: the rank that was sent an output no longer refers to it.
LEMMA HoldPutEnd ==
    ASSUME TransferInv, TransferInv', HoldInv,
           NEW n \in Nodes, NEW i \in Slots, NEW k \in Outputs, PutEnd(n, i, k)
    PROVE  HoldInv'
<1> PICK slot, c, r, t : slot = get[n][i] /\ c = slot.deps /\ r = slot.to /\ t = desc[c].task
  OBVIOUS
<1>1. /\ slot.state = "busy" /\ k \in slot.which /\ Cleanup(n, c) /\ UNCHANGED <<status, thread>>
      /\ refs' = [x \in Received |-> IF x \in {<<t, k>>} THEN refs[x] - 1 ELSE refs[x]]
      /\ freed' = freed \cup {x \in {<<t, k>>} \cap Received : refs[x] = 1}
  BY DEF PutEnd, Unref
<1>2. SentOne(n, i, k)
  <2>1. get' = SetSlot(get, n, i, Shrunk(get[n][i], k))
    BY DEF PutEnd, SetSlot, Shrunk
  <2>2. todo' = [todo EXCEPT ![n] = IF get[n][i].which = {k} THEN @ - 1 ELSE @]
    BY DEF PutEnd, LastOutput
  <2>3. freed' \subseteq Received
    BY DEF PutEnd, Unref, TransferInv, LocalInv, TaskType
  <2> QED BY <2>1, <2>2, <2>3 DEF PutEnd, SentOne
<1>3. slot = get[n][i] /\ c = slot.deps /\ r = slot.to /\ slot.state = "busy"
  BY <1>1
<1>4. /\ c \in Tasks /\ Live(c) /\ r \in Nodes /\ t \in Tasks
      /\ slot.which \subseteq Needed(t, r) /\ \A l \in Outputs : Waits(c, r, l) <=> l \in slot.which
  BY <1>3, Sending
<1>5. \A e \in Tasks, s \in Nodes : \A l \in Outputs :
         Waits(e, s, l)' <=> Waits(e, s, l) /\ ~ (e = c /\ s = r /\ l = k)
  BY <1>1, <1>2, SentOneTokens
<1>6. DescType /\ LiveInv /\ SingleInv /\ LoopInv /\ ThreadInv
  BY DEF TransferInv, LocalInv, CommInv
<1>7. /\ \A e \in Tasks : e # c => desc'[e] = desc[e]
      /\ desc'[c].task = NoTask \/ (desc'[c].task = desc[c].task /\ desc'[c].forwarded = desc[c].forwarded)
  <2>1. CASE desc[c].sent + 1 # desc[c].count
    <3>1. CountOne(c)
      BY <1>1, <2>1 DEF Cleanup, CountOne
    <3> QED BY <1>4, <1>6, <3>1, CountOneEffect
  <2>2. CASE desc[c].sent + 1 = desc[c].count
    <3>1. desc' = [desc EXCEPT ![c] = Recycled(c)]
      BY <1>1, <2>2 DEF Cleanup, Recycled
    <3> QED BY <1>4, <1>6, <3>1, RecycledType DEF DescType
  <2> QED BY <2>1, <2>2
<1>8. \A e \in Tasks : desc'[e].task \in Tasks => desc'[e].task = desc[e].task /\ desc'[e].forwarded = desc[e].forwarded
  BY <1>7, RemoteGraphAssumption
<1>9. WaitsAreLive /\ WaitsAreLive'
  BY WaitsLive, PTL
<1>10. \A u : Held(u)' <=> Held(u)
  BY <1>1, HeldKept
<1>11. \A s \in Tasks : StillUses(s)' <=> StillUses(s)
  BY <1>1, <1>10 DEF StillUses
<1>12. refs \in [Received -> Int] /\ \A x \in Received : refs[x] = RefsOf(x)
  BY DEF HoldInv, RefsExact
<1>13. ASSUME NEW x \in Received, NEW q \in RanksOf(x[1], x[2]), NEW e \in Tasks
       PROVE  Live(e)' /\ desc'[e].task = x[1] /\ Waits(e, q, x[2])'
              <=> Live(e) /\ desc[e].task = x[1] /\ Waits(e, q, x[2]) /\ ~ (e = c /\ q = r /\ x[2] = k)
  <2>1. x[1] \in Tasks /\ x[2] \in Outputs /\ q \in Nodes
    BY RefsAre, RanksType
  <2>2. Waits(e, q, x[2])' <=> Waits(e, q, x[2]) /\ ~ (e = c /\ q = r /\ x[2] = k)
    BY <1>5, <2>1
  <2>3. Waits(e, q, x[2]) => Live(e)
    BY <1>9, <2>1 DEF WaitsAreLive
  <2>4. Waits(e, q, x[2])' => Live(e)'
    BY <1>9, <2>1 DEF WaitsAreLive
  <2>5. Live(e)' => desc'[e].task = desc[e].task
    BY <1>8 DEF Live
  <2> QED BY <2>2, <2>3, <2>4, <2>5
<1>14. <<t, k>> \in Received => r \in Flights(<<t, k>>) /\ Flights(<<t, k>>)' = Flights(<<t, k>>) \ {r}
  <2> SUFFICES ASSUME <<t, k>> \in Received
               PROVE  r \in Flights(<<t, k>>) /\ Flights(<<t, k>>)' = Flights(<<t, k>>) \ {r}
    OBVIOUS
  <2> PICK x \in Received : x = <<t, k>>
    OBVIOUS
  <2>1. x[1] = t /\ x[2] = k
    OBVIOUS
  <2>2. r \in RanksOf(x[1], x[2])
    BY <1>1, <1>4, <2>1 DEF Needed
  <2>3. InFlight(x, r)
    BY <1>1, <1>4, <2>1 DEF InFlight, Told
  <2>4. ~ InFlight(x, r)'
    <3>1. ASSUME NEW e \in Tasks, Live(e)' /\ desc'[e].task = x[1] /\ Waits(e, r, x[2])'
          PROVE  FALSE
      <4>1. Live(e) /\ desc[e].task = t /\ ~ (e = c)
        BY <1>13, <2>1, <2>2, <3>1
      <4> QED BY <1>4, <1>6, <4>1 DEF SingleInv
    <3>2. ASSUME NEW v \in Threads, thread[v].at = "send", thread[v].task = t, Min(thread[v].mask) = r
          PROVE  FALSE
      <4>1. thread[v].deps \in Tasks /\ desc[thread[v].deps].task = t /\ Live(thread[v].deps)
        BY <3>2, MeetsPair
      <4>2. thread[v].deps = c
        BY <1>4, <1>6, <4>1 DEF SingleInv
      <4>3. r \notin desc[c].forwarded
        BY <1>6, <3>2, <4>1, <4>2 DEF LoopInv, LoopOf, InLoop, OwnDesc
      <4> QED BY <1>1, <1>4, <1>9, <4>3 DEF WaitsAreLive
    <3>3. ~ Promised(x, r)'
      BY <1>1, <2>1, <3>2 DEF Promised
    <3> QED BY <3>1, <3>3 DEF InFlight, Told
  <2>5. ASSUME NEW q \in RanksOf(x[1], x[2]), q # r PROVE InFlight(x, q)' <=> InFlight(x, q)
    <3>1. \A e \in Tasks : Live(e)' /\ desc'[e].task = x[1] /\ Waits(e, q, x[2])'
                           <=> Live(e) /\ desc[e].task = x[1] /\ Waits(e, q, x[2])
      BY <1>13, <2>5
    <3> QED BY <1>1, <3>1 DEF InFlight, Told, Promised
  <2>6. r \in Flights(x)
    BY <2>2, <2>3 DEF Flights
  <2>7. Flights(x)' = Flights(x) \ {r}
    BY <2>2, <2>4, <2>5 DEF Flights
  <2> QED BY <2>6, <2>7
<1>15. ASSUME NEW x \in Received PROVE refs'[x] = RefsOf(x)'
  <2>1. /\ x[1] \in Tasks /\ x[2] \in Outputs /\ x = <<x[1], x[2]>> /\ Cardinality(Users(x)) \in Nat
        /\ IsFiniteSet(Flights(x)) /\ Cardinality(Flights(x)) \in Nat
    BY RefsAre
  <2>2. Users(x)' = Users(x)
    BY <1>1, <1>11, UsersKept
  <2>3. CASE x = <<t, k>>
    <3>1. r \in Flights(x) /\ Flights(x)' = Flights(x) \ {r}
      BY <1>14, <2>3
    <3>2. Cardinality(Flights(x) \ {r}) = Cardinality(Flights(x)) - 1
      BY <2>1, <3>1, FS_RemoveElement
    <3> PICK a, b, f : /\ a = IF Held(x[1]) THEN 1 ELSE 0
                       /\ b = Cardinality(Users(x)) /\ f = Cardinality(Flights(x))
      OBVIOUS
    <3>3. RefsOf(x) = a + b + f /\ RefsOf(x)' = a + b + (f - 1)
      BY <1>10, <2>2, <3>1, <3>2 DEF RefsOf
    <3>4. a \in Nat /\ b \in Nat /\ f \in Nat
      BY <2>1
    <3>5. refs'[x] = refs[x] - 1
      BY <1>1, <2>3
    <3> QED BY <1>12, <3>3, <3>4, <3>5
  <2>4. CASE x # <<t, k>>
    <3>1. ASSUME NEW q \in RanksOf(x[1], x[2]) PROVE InFlight(x, q)' <=> InFlight(x, q)
      <4>1. ASSUME NEW e \in Tasks
            PROVE  Live(e)' /\ desc'[e].task = x[1] /\ Waits(e, q, x[2])'
                   <=> Live(e) /\ desc[e].task = x[1] /\ Waits(e, q, x[2])
        <5>1. desc[e].task = x[1] => ~ (e = c /\ q = r /\ x[2] = k)
          BY <2>1, <2>4
        <5> QED BY <1>13, <5>1
      <4> QED BY <1>1, <4>1 DEF InFlight, Told, Promised
    <3>2. Flights(x)' = Flights(x)
      BY <3>1 DEF Flights
    <3>3. refs'[x] = refs[x]
      BY <1>1, <2>4
    <3> QED BY <1>10, <1>12, <2>2, <3>2, <3>3 DEF RefsOf
  <2> QED BY <2>3, <2>4
<1>16. RefsExact'
  <2>1. \A x \in Received : refs[x] \in Int /\ refs[x] - 1 \in Int
    BY <1>12
  <2>2. refs' \in [Received -> Int]
    BY <1>1, <2>1
  <2> QED BY <1>15, <2>2 DEF RefsExact
<1>17. NotOwnSuccessor'
  BY <1>1 DEF HoldInv, NotOwnSuccessor
<1>18. ToldInv'
  <2> SUFFICES ASSUME NEW v \in Threads PROVE ToldOf(v)'
    BY DEF ToldInv
  <2>1. ASSUME InLoop(v), OwnDesc(v)'
        PROVE  OwnDesc(v) /\ desc[thread[v].deps].forwarded \subseteq desc'[thread[v].deps].forwarded
    <3>1. thread[v].deps \in Tasks /\ thread[v].task \in Tasks
      BY <1>6, <2>1 DEF LoopInv, LoopOf, InLoop, ThreadInv, ThreadOf
    <3> QED BY <1>1, <1>8, <2>1, <3>1 DEF OwnDesc
  <2> QED BY <1>1, <2>1, ToldKept DEF HoldInv, ToldInv
<1>19. FreedInv'
  <2>1. ASSUME NEW x \in Received, x \in freed PROVE refs'[x] = 0 /\ status[x[1]] = "done"
    <3>1. refs[x] = 0 /\ status[x[1]] = "done"
      BY <2>1 DEF HoldInv, FreedInv
    <3>2. Flights(x) = {}
      BY <1>12, <3>1, RefsAre
    <3>3. x # <<t, k>>
      BY <1>14, <3>2
    <3> QED BY <1>1, <3>1, <3>3
  <2>2. ASSUME NEW x \in Received, x = <<t, k>>, refs[x] = 1 PROVE refs'[x] = 0 /\ status[x[1]] = "done"
    <3>1. x[1] = t
      BY <2>2
    <3>2. status[t] = "done"
      BY <1>4, <1>6 DEF LiveInv
    <3> QED BY <1>1, <2>2, <3>1, <3>2
  <2>3. freed \subseteq Received
    BY DEF HoldInv, FreedInv
  <2>4. ASSUME NEW x \in freed' PROVE x \in Received /\ (x \in freed \/ (x = <<t, k>> /\ refs[x] = 1))
    BY <1>1, <2>3
  <2> QED BY <1>1, <2>1, <2>2, <2>4 DEF FreedInv
<1> QED BY <1>16, <1>17, <1>18, <1>19 DEF HoldInv

\* DataEnd: the descriptor a node that is not the root fills is not one in use.
LEMMA HoldDataEnd ==
    ASSUME TransferInv, HoldInv, NEW n \in Nodes, NEW i \in Slots, NEW k \in Outputs, DataEnd(n, i, k)
    PROVE  HoldInv'
<1> PICK slot, t : slot = act[n][i] /\ t = slot.task
  OBVIOUS
<1>1. Ends(n, i, k, slot, t)
  BY DataEndEffect
<1>2. /\ t \in Tasks /\ Rank[t] # n /\ Spoil(n, t, {k})
      /\ UNCHANGED <<status, freed, thread, cmds, get>>
      /\ \E m \in net : m.type = "put" /\ net' = net \ {m}
  BY <1>1 DEF Ends
<1>3. UNCHANGED refs
  BY DEF DataEnd
<1>4. DescType /\ FreeInv /\ LoopInv /\ ThreadInv
  BY DEF TransferInv, LocalInv, CommInv
<1>5. /\ \A e \in Tasks : Live(e)' <=> Live(e)
      /\ \A e \in Tasks : Live(e) => desc'[e] = desc[e]
      /\ \A e \in Tasks : desc'[e] = desc[e] \/ (Rank[e] = n /\ desc[e].task = NoTask /\ desc'[e].task = t)
  BY <1>2, <1>4, SpoilEffect
<1>6. WaitsKept
  <2>1. \A m : m.type = "activate" \/ m.type = "get" => (m \in net' <=> m \in net)
    BY <1>2
  <2>2. \A d, r : (Announced(d, r)' <=> Announced(d, r)) /\ (Asked(d, r)' <=> Asked(d, r))
    BY <2>1 DEF Announced, Asked
  <2>3. \A d, r : \A k1 \in Outputs : Waits(d, r, k1)' <=> Waits(d, r, k1)
    BY <1>2, <2>2 DEF Waits, Queued, Serving
  <2> QED BY <2>3 DEF WaitsKept, Needed
<1>7. ToldInv'
  <2> SUFFICES ASSUME NEW v \in Threads PROVE ToldOf(v)'
    BY DEF ToldInv
  <2>1. ASSUME InLoop(v), OwnDesc(v)' PROVE OwnDesc(v) /\ desc'[thread[v].deps] = desc[thread[v].deps]
    <3>1. /\ thread[v].deps \in Tasks /\ Rank[thread[v].deps] = v[1]
          /\ thread[v].task \in Tasks /\ Rank[thread[v].task] = v[1]
      BY <1>4, <2>1 DEF LoopInv, LoopOf, InLoop, ThreadInv, ThreadOf
    <3>2. desc'[thread[v].deps].task = thread[v].task
      BY <1>2, <2>1 DEF OwnDesc
    <3>3. desc'[thread[v].deps] = desc[thread[v].deps]
      BY <1>2, <1>5, <3>1, <3>2
    <3> QED BY <3>2, <3>3 DEF OwnDesc
  <2> QED BY <1>2, <2>1, ToldKept DEF HoldInv, ToldInv
<1>8. \A u \in Tasks : Held(u)' <=> Held(u)
  BY <1>2, HeldKept
<1>9. SendersKept
  BY <1>2 DEF SendersKept
<1> QED BY <1>2, <1>3, <1>5, <1>6, <1>7, <1>8, <1>9, HoldQuiet

\* A step of the communication thread that changes no descriptor.
LEMMA HoldComm ==
    ASSUME TransferInv, HoldInv, WaitsKept, UNCHANGED <<refs, freed, status, thread, desc>>
    PROVE  HoldInv'
<1>1. \A u \in Tasks : Held(u)' <=> Held(u)
  BY HeldKept
<1>2. \A e \in Tasks : (Live(e)' <=> Live(e)) /\ desc'[e].task = desc[e].task
  BY DescSame
<1>3. ToldInv'
  <2> SUFFICES ASSUME NEW v \in Threads PROVE ToldOf(v)'
    BY DEF ToldInv
  <2>1. OwnDesc(v)' <=> OwnDesc(v)
    BY DEF OwnDesc
  <2> QED BY <2>1, ToldKept DEF HoldInv, ToldInv
<1>4. SendersKept
  BY DEF SendersKept
<1> QED BY <1>1, <1>2, <1>3, <1>4, HoldQuiet

\* The ends of the round of a node: its threads work on no task.
LEMMA HoldTogether ==
    ASSUME TransferInv, HoldInv, WaitsKept, NEW n \in Nodes, NEW from, NEW to, NEW action,
           End(from, to, action), Together(n, from, to, action), UNCHANGED refs
    PROVE  HoldInv'
<1>1. /\ \A w \in Threads : w[1] = n => thread[w].at = from
      /\ thread' = [w \in Threads |-> IF w[1] = n THEN [thread[w] EXCEPT !.at = to] ELSE thread[w]]
      /\ UNCHANGED <<freed, status, desc>>
  BY DEF Together
<1>2. ThreadType
  BY DEF TransferInv, LocalInv
<1>3. \A w \in Threads : thread'[w].task = thread[w].task /\ (w[1] = n => thread'[w].at = to)
  BY <1>1, <1>2 DEF ThreadType, ThreadState
<1>4. \A u \in Tasks : Held(u)' <=> Held(u)
  BY <1>3, HeldKept
<1>5. \A e \in Tasks : (Live(e)' <=> Live(e)) /\ desc'[e].task = desc[e].task
  BY <1>1, DescSame
<1>6. ToldInv'
  <2> SUFFICES ASSUME NEW v \in Threads PROVE ToldOf(v)'
    BY DEF ToldInv
  <2>1. CASE v[1] = n
    <3>1. to \notin {"rank", "send", "counted"}
      BY DEF End
    <3> QED BY <1>3, <2>1, <3>1 DEF ToldOf, InLoop
  <2>2. CASE v[1] # n
    <3>1. thread'[v] = thread[v]
      BY <1>1, <2>2
    <3>2. OwnDesc(v)' <=> OwnDesc(v)
      BY <1>1, <3>1 DEF OwnDesc
    <3> QED BY <1>1, <3>1, <3>2, ToldKept DEF HoldInv, ToldInv
  <2> QED BY <2>1, <2>2
<1>7. SendersKept
  <2>1. from # "send" /\ to # "send"
    BY DEF End
  <2>2. ASSUME NEW w \in Threads, w[1] # n PROVE thread'[w] = thread[w]
    BY <1>1, <2>2
  <2>3. ASSUME NEW w \in Threads, w[1] = n PROVE thread'[w].at # "send" /\ thread[w].at # "send"
    BY <1>1, <1>3, <2>1, <2>3
  <2> QED BY <2>2, <2>3 DEF SendersKept
<1> QED BY <1>1, <1>4, <1>5, <1>6, <1>7, HoldQuiet

LEMMA HoldInit ==
    ASSUME Init
    PROVE  HoldInv
<1>1. /\ \A w \in Threads : thread[w].at = "start" /\ thread[w].task = NoTask
      /\ \A t \in Tasks : status[t] = "waiting"
      /\ \A d \in Tasks : desc[d].task = NoTask
      /\ refs = [d \in Received |-> 0] /\ freed = {}
  <2>1. \A w \in Threads : thread[w] = Idle
    BY DEF Init
  <2>2. \A d \in Tasks : desc[d] = Blank
    BY DEF Init
  <2>3. Idle.at = "start" /\ Idle.task = NoTask
    BY DEF Idle
  <2>4. /\ \A t \in Tasks : status[t] = "waiting"
        /\ refs = [d \in Received |-> 0] /\ freed = {}
    BY DEF Init
  <2> QED BY <2>1, <2>2, <2>3, <2>4, BlankType
<1>2. ASSUME NEW d \in Received PROVE RefsOf(d) = 0
  <2>1. d[1] \in Tasks
    BY RefsAre
  <2>2. ~ Held(d[1])
    BY <1>1, <2>1, RemoteGraphAssumption DEF Held
  <2>3. Users(d) = {}
    BY <1>1, <2>1 DEF Users
  <2>4. Flights(d) = {}
    BY <1>1, RemoteGraphAssumption DEF Flights, InFlight, Told, Promised, Live
  <2>5. Cardinality({}) = 0
    BY FS_EmptySet
  <2> QED BY <2>2, <2>3, <2>4, <2>5 DEF RefsOf
<1>3. RefsExact
  BY <1>1, <1>2 DEF RefsExact
<1>4. NotOwnSuccessor /\ ToldInv /\ FreedInv
  BY <1>1 DEF NotOwnSuccessor, ToldInv, ToldOf, InLoop, FreedInv
<1> QED BY <1>3, <1>4 DEF HoldInv

LEMMA HoldNext ==
    ASSUME LoopOwnsDesc', FirstSent, TransferInv, HoldInv, [Next]_vars
    PROVE  HoldInv'
<1>1. TransferInv'
  BY TransferNext
<1>2. ASSUME NEW w \in Threads, Thread(w) PROVE HoldInv'
  <2>1. CASE Run(w)
    BY <2>1, HoldRun
  <2>2. CASE Release(w)
    BY <1>1, <2>2, HoldRelease
  <2>3. CASE NextRank(w)
    BY <2>3, HoldNextRank
  <2>4. CASE Counted(w)
    BY <2>4, HoldCounted
  <2>5. CASE Drop(w)
    BY <2>5, HoldDrop
  <2>6. CASE Leave(w)
    BY <2>6, HoldLeave
  <2>7. CASE SendRank(w)
    BY <2>7, HoldSendRank
  <2> QED BY <1>2, <2>1, <2>2, <2>3, <2>4, <2>5, <2>6, <2>7 DEF Thread
<1>3. ASSUME NEW n \in Nodes, Comm(n) PROVE HoldInv'
  <2>1. CASE MpiOn(n)
    <3>1. UNCHANGED <<refs, freed, status, thread, desc>>
      BY <2>1 DEF MpiOn, taskVars, descVars
    <3> QED BY <2>1, <3>1, MpiOnStep, HoldComm
  <2>2. CASE MpiOff(n)
    <3>1. UNCHANGED <<refs, freed, status, thread, desc>>
      BY <2>2 DEF MpiOff, taskVars, descVars
    <3> QED BY <2>2, <3>1, MpiOffStep, HoldComm
  <2>3. CASE SendActivate(n)
    <3>1. UNCHANGED <<refs, freed, status, thread, desc>>
      BY <2>3 DEF SendActivate, taskVars, descVars
    <3> QED BY <2>3, <3>1, SendActivateStep, HoldComm
  <2>4. ASSUME enabled[n], NEW i \in Slots, Progress(n, i) PROVE HoldInv'
    <3>1. CASE GetData(n, i)
      <4>1. UNCHANGED <<refs, freed, status, thread, desc>>
        BY <3>1 DEF GetData, taskVars, descVars
      <4> QED BY <2>4, <3>1, <4>1, GetDataStep, HoldComm
    <3>2. CASE PutData(n, i)
      <4>1. UNCHANGED <<refs, freed, status, thread, desc>>
        BY <3>2 DEF PutData, taskVars, descVars
      <4> QED BY <2>4, <3>2, <4>1, PutDataStep, HoldComm
    <3>3. ASSUME NEW k \in Outputs, PutEnd(n, i, k) PROVE HoldInv'
      BY <1>1, <3>3, HoldPutEnd
    <3>4. ASSUME NEW k \in Outputs, DataEnd(n, i, k) PROVE HoldInv'
      BY <3>4, HoldDataEnd
    <3> QED BY <2>4, <3>1, <3>2, <3>3, <3>4 DEF Progress
  <2> QED BY <1>3, <2>1, <2>2, <2>3, <2>4 DEF Comm
<1>4. ASSUME NEW n \in Nodes, WaitBegins(n) PROVE HoldInv'
  <2>1. Together(n, "start", "loop", "on") /\ UNCHANGED refs
    BY <1>4 DEF WaitBegins, Together, DequeueOn, taskVars, descVars, commVars
  <2>2. End("start", "loop", "on")
    BY DEF End
  <2> QED BY <1>4, <2>1, <2>2, WaitBeginsStep, HoldTogether
<1>5. ASSUME NEW n \in Nodes, WaitReturns(n) PROVE HoldInv'
  <2>1. Together(n, "left", "ended", "off") /\ UNCHANGED refs
    BY <1>5 DEF WaitReturns, Together, DequeueOff, taskVars, descVars, commVars
  <2>2. End("left", "ended", "off")
    BY DEF End
  <2> QED BY <1>5, <2>1, <2>2, WaitReturnsStep, HoldTogether
<1>6. CASE UNCHANGED vars
  <2>1. UNCHANGED <<refs, freed, status, thread, desc>> /\ UNCHANGED <<cmds, get, net>>
    BY <1>6 DEF vars, taskVars, descVars, commVars
  <2>2. WaitsKept
    BY <2>1, TokensSame DEF WaitsKept, Needed
  <2> QED BY <2>1, <2>2, HoldComm
<1> QED BY <1>2, <1>3, <1>4, <1>5, <1>6 DEF Next

LEMMA HoldCorrect ==
    ASSUME FirstSent
    PROVE  Spec /\ []LoopOwnsDesc => []HoldInv
<1>1. Init => HoldInv
  BY HoldInit
<1>2. TransferInv /\ HoldInv /\ [Next]_vars /\ LoopOwnsDesc' => HoldInv'
  BY HoldNext
<1> QED BY <1>1, <1>2, TransferCorrect, PTL DEF Spec

\* In the graphs of FirstSent, and as long as no descriptor is recycled while
\* the loop has ranks to meet in it, a chunk that AUNREF gave back to the arena
\* is not used again: its reference count is the number of its users
\* (RefsExact), so the last AUNREF of release_deps or remote_dep_mpi_put_end
\* leaves none, and no AREF of dague_remote_dep_activate comes after it.
THEOREM FreedCorrect ==
    ASSUME FirstSent
    PROVE  Spec /\ []LoopOwnsDesc => []FreedNotUsed
<1>1. HoldInv => FreedNotUsed
  BY DEF HoldInv, FreedInv, FreedNotUsed
<1> QED BY <1>1, HoldCorrect, PTL
=============================================================================
