------------------------------ MODULE DataRepo ------------------------------
(***************************************************************************)
(* The data repository (include/datarepo.h) as the generated code uses it: *)
(* the entry a finished task deposits for its successors, the usage count, *)
(* usage limit and retained counters that decide when it is freed, and the *)
(* references on the memory chunks its data are.                           *)
(*                                                                         *)
(* An activity is the run of a local task (its hook, then release_deps) or *)
(* the receipt by the communication thread of some outputs of a remote     *)
(* task (remote_dep_nothread_release). Each function of the repository     *)
(* runs under the lock of one bucket and is one step here.                 *)
(***************************************************************************)
EXTENDS Integers, Sequences, FiniteSets

CONSTANTS
    LocalTasks,  \* tasks this node runs
    Receipts,    \* receptions of outputs of remote tasks
    Keys,        \* keys of the tasks that deposit an entry
    Params,      \* indices of the data of an entry
    KeyOf,       \* [activity -> Keys]
    In,          \* [LocalTasks -> Seq(Keys \X Params)]: inputs from tasks
    Out,         \* [activity -> Seq(Params \X LocalTasks \X Nat)]: the edges
                 \* of iterate_successors: output, successor, its input
    Carries,     \* [LocalTasks -> [Params -> Nat]]: the input an output passes
                 \* on, 0 when it is memory of the application
    NoEntry,     \* a NULL entry
    Memory,      \* a datum that is not an arena chunk
    Null         \* a datum never written

Activities == LocalTasks \cup Receipts
Chunks     == Receipts \X Params     \* the chunk allocated for each reception
Data       == Chunks \cup {Memory, Null}

ASSUME RepoAssumption ==
    /\ IsFiniteSet(LocalTasks) /\ IsFiniteSet(Receipts) /\ IsFiniteSet(Params)
    /\ LocalTasks \cap Receipts = {}
    /\ KeyOf \in [Activities -> Keys]
    /\ In \in [LocalTasks -> Seq(Keys \X Params)]
    /\ Out \in [Activities -> Seq(Params \X LocalTasks \X Nat)]
    /\ Carries \in [LocalTasks -> [Params -> Nat]]
    /\ \A t \in LocalTasks, p \in Params : Carries[t][p] \in 0..Len(In[t])
    /\ Memory \notin Chunks /\ Null \notin Chunks /\ Memory # Null
    /\ NoEntry \notin [usagecnt : Nat, usagelmt : Nat, retained : Nat, data : [Params -> Data]]
\* A JDF program names every edge from both sides: each input of a task is
\* released by exactly one edge of one activity. An output has one producer,
\* the task itself or, on another node, the one reception it arrives in.
ASSUME EdgesAssumption ==
    /\ \A a \in Activities : \A i \in DOMAIN Out[a] :
          LET c == Out[a][i][2]  j == Out[a][i][3]
          IN  j \in DOMAIN In[c] /\ In[c][j] = <<KeyOf[a], Out[a][i][1]>>
    /\ \A c \in LocalTasks : \A j \in DOMAIN In[c] :
          \E a \in Activities : \E i \in DOMAIN Out[a] : Out[a][i][2] = c /\ Out[a][i][3] = j
    /\ \A a, b \in Activities : \A i \in DOMAIN Out[a], k \in DOMAIN Out[b] :
          /\ Out[a][i][2] = Out[b][k][2] /\ Out[a][i][3] = Out[b][k][3] => a = b /\ i = k
          /\ KeyOf[a] = KeyOf[b] /\ Out[a][i][1] = Out[b][k][1] => a = b

VARIABLES
    entry,     \* the entry of each key in the hash table, or NoEntry
    births,    \* history: entries created for each key, which tells two
               \* entries of one key apart
    refcount,  \* chunk->refcount of each chunk
    returned,  \* history: calls of dague_arena_release for each chunk
    released,  \* inputs released to each task, as indices of In
    pc,        \* where each activity is
    index,     \* the input or the edge each activity is at
    found,     \* per input of a task, the entry it looked up (its birth)
    got,       \* per input of a task, the datum it found there
    mine,      \* arg.output_entry of each activity (its birth)
    usage,     \* arg.output_usage
    ready      \* arg.ready_list, as a set

vars == <<entry, births, refcount, returned, released, pc, index, found, got, mine, usage,
          ready>>

Goto(a, l) == pc' = [pc EXCEPT ![a] = l]

\* A task waits for its inputs and a reception starts when its data are
\* there. A task without inputs from tasks is a startup task.
Init ==
    /\ entry = [k \in Keys |-> NoEntry]
    /\ births = [k \in Keys |-> 0]
    /\ refcount = [c \in Chunks |-> 0]
    /\ returned = [c \in Chunks |-> 0]
    /\ released = [t \in LocalTasks |-> {}]
    /\ pc = [a \in Activities |->
               IF a \in Receipts THEN "create"
               ELSE IF In[a] = <<>> THEN "lookup" ELSE "waiting"]
    /\ index = [a \in Activities |-> 1]
    /\ found = [t \in LocalTasks |-> [j \in DOMAIN In[t] |-> 0]]
    /\ got = [t \in LocalTasks |-> [j \in DOMAIN In[t] |-> Null]]
    /\ mine = [a \in Activities |-> 0]
    /\ usage = [a \in Activities |-> 0]
    /\ ready = [a \in Activities |-> {}]

-----------------------------------------------------------------------------
(* The hook of a local task: look the inputs up, run the body.             *)

\* data_repo_lookup_entry and e->data[]. Without an entry the code reads
\* through NULL; InputsDeposited says that there is one.
Lookup(t) ==
    /\ pc[t] = "lookup" /\ index[t] \in DOMAIN In[t]
    /\ LET k == In[t][index[t]][1]
           p == In[t][index[t]][2]
       IN  /\ entry[k] # NoEntry
           /\ found' = [found EXCEPT ![t][index[t]] = births[k]]
           /\ got' = [got EXCEPT ![t][index[t]] = entry[k].data[p]]
    /\ index' = [index EXCEPT ![t] = @ + 1]
    /\ UNCHANGED <<entry, births, refcount, returned, released, pc, mine, usage, ready>>

Body(t) ==
    /\ pc[t] = "lookup" /\ index[t] \notin DOMAIN In[t]
    /\ Goto(t, "create")
    /\ UNCHANGED <<entry, births, refcount, returned, released, index, found, got, mine, usage,
                   ready>>

-----------------------------------------------------------------------------
(* release_deps                                                            *)

NewEntry == [usagecnt |-> 0, usagelmt |-> 0, retained |-> 1, data |-> [p \in Params |-> Null]]

\* The entry after data_repo_lookup_entry_and_create.
EntryAfresh(e) == NewEntry
Retained(e) == IF e = NoEntry THEN NewEntry ELSE [e EXCEPT !.retained = @ + 1]

\* The communication thread makes one reception after the other.
LookupAndCreate(a) ==
    /\ pc[a] = "create"
    /\ a \in Receipts => \A r \in Receipts : pc[r] # "edges"
    /\ LET k == KeyOf[a]
       IN  /\ entry' = [entry EXCEPT ![k] = Retained(@)]
           /\ births' = [births EXCEPT ![k] = IF entry[k] = NoEntry THEN @ + 1 ELSE @]
           /\ mine' = [mine EXCEPT ![a] = births'[k]]
    /\ index' = [index EXCEPT ![a] = 1]
    /\ Goto(a, "edges")
    /\ UNCHANGED <<refcount, returned, released, found, got, usage, ready>>

\* data[p] given to release_deps: the chunk received, the chunk of an input,
\* or memory.
DataOf(a, p) ==
    IF a \in Receipts THEN <<a, p>>
    ELSE IF Carries[a][p] = 0 THEN Memory ELSE got[a][Carries[a][p]]

\* AREF, which does nothing for memory.
ReferencedOnce(d) == IF d \in Chunks THEN [refcount EXCEPT ![d] = IF @ = 0 THEN 1 ELSE @]
                     ELSE refcount
Referenced(d) == IF d \in Chunks THEN [refcount EXCEPT ![d] = @ + 1] ELSE refcount

\* dague_release_dep_fct for one edge: deposit the datum, count its use, take
\* a reference, release the dependency.
ReleaseEdge(a) ==
    /\ pc[a] = "edges" /\ index[a] \in DOMAIN Out[a]
    /\ LET p == Out[a][index[a]][1]
           c == Out[a][index[a]][2]
           j == Out[a][index[a]][3]
           d == DataOf(a, p)
       IN  /\ entry' = [entry EXCEPT ![KeyOf[a]].data[p] = d]
           /\ usage' = [usage EXCEPT ![a] = @ + 1]
           /\ refcount' = Referenced(d)
           /\ released' = [released EXCEPT ![c] = @ \cup {j}]
           /\ ready' = [ready EXCEPT ![a] =
                           IF released'[c] = DOMAIN In[c] THEN @ \cup {c} ELSE @]
    /\ index' = [index EXCEPT ![a] = @ + 1]
    /\ UNCHANGED <<births, returned, pc, found, got, mine>>

\* The entry is removed when it is not retained and every use has happened.
CollectedEarly(e) == IF e.usagelmt = e.usagecnt THEN NoEntry ELSE e
Collected(e) == IF e.usagelmt = e.usagecnt /\ e.retained = 0 THEN NoEntry ELSE e

\* The entry after data_repo_entry_addto_usage_limit.
LimitedKept(e, n) == [e EXCEPT !.usagelmt = @ + n, !.retained = @ - 1]
LimitedToLast(e, n) == Collected([e EXCEPT !.usagelmt = n, !.retained = @ - 1])
Limited(e, n) == Collected([e EXCEPT !.usagelmt = @ + n, !.retained = @ - 1])

\* The end of the iteration, then __dague_schedule of the ready list.
AddToUsageLimit(a) ==
    /\ pc[a] = "edges" /\ index[a] \notin DOMAIN Out[a]
    /\ entry' = [entry EXCEPT ![KeyOf[a]] = Limited(@, usage[a])]
    /\ pc' = [b \in Activities |->
                IF b \in ready[a] THEN "lookup"
                ELSE IF b # a THEN pc[b]
                ELSE IF a \in LocalTasks THEN "unuse" ELSE "done"]
    /\ ready' = [ready EXCEPT ![a] = {}]
    /\ index' = [index EXCEPT ![a] = 1]
    /\ UNCHANGED <<births, refcount, returned, released, found, got, mine, usage>>

\* The entry after data_repo_entry_used_once.
Used(e) == Collected([e EXCEPT !.usagecnt = @ + 1])

\* data_repo_entry_used_once of an input of the task, whose key is read in
\* the entry looked up. assert( NULL != e ): see InputsDeposited.
UsedOnce(t) ==
    /\ pc[t] = "unuse" /\ index[t] \in DOMAIN In[t]
    /\ LET k == In[t][index[t]][1]
       IN  /\ entry[k] # NoEntry
           /\ entry' = [entry EXCEPT ![k] = Used(@)]
    /\ Goto(t, "unref")
    /\ UNCHANGED <<births, refcount, returned, released, index, found, got, mine, usage, ready>>

\* AUNREF of the datum of that input.
Unref(t) ==
    /\ pc[t] = "unref"
    /\ LET d == got[t][index[t]]
       IN  IF d \in Chunks
           THEN /\ refcount' = [refcount EXCEPT ![d] = @ - 1]
                /\ returned' = [returned EXCEPT ![d] = IF refcount[d] = 1 THEN @ + 1 ELSE @]
           ELSE UNCHANGED <<refcount, returned>>
    /\ index' = [index EXCEPT ![t] = @ + 1]
    /\ Goto(t, "unuse")
    /\ UNCHANGED <<entry, births, released, found, got, mine, usage, ready>>

Finish(t) ==
    /\ pc[t] = "unuse" /\ index[t] \notin DOMAIN In[t]
    /\ Goto(t, "done")
    /\ UNCHANGED <<entry, births, refcount, returned, released, index, found, got, mine, usage,
                   ready>>

\* Every activity is over: the object is finished.
Ended == (\A a \in Activities : pc[a] = "done") /\ UNCHANGED vars

Next ==
    \/ \E a \in Activities : LookupAndCreate(a) \/ ReleaseEdge(a) \/ AddToUsageLimit(a)
    \/ \E t \in LocalTasks : Lookup(t) \/ Body(t) \/ UsedOnce(t) \/ Unref(t) \/ Finish(t)
    \/ Ended

Spec == Init /\ [][Next]_vars

-----------------------------------------------------------------------------
(* Correctness.                                                            *)

Past(t)  == pc[t] \in {"create", "edges", "unuse", "unref", "done"}

\* The inputs of t released to it whose entry it has not declared used, those
\* whose datum it has not dropped, and those it has looked up.
ToUse(t) == {j \in released[t] : ~ \/ pc[t] = "done"
                                   \/ pc[t] = "unuse" /\ j < index[t]
                                   \/ pc[t] = "unref" /\ j <= index[t]}
ToDrop(t) == {j \in released[t] : ~ \/ pc[t] = "done"
                                    \/ pc[t] \in {"unuse", "unref"} /\ j < index[t]}
LookedUp(t) == {j \in DOMAIN In[t] : Past(t) \/ (pc[t] = "lookup" /\ j < index[t])}

Uses(k) == UNION {{<<t, j>> : j \in {i \in ToUse(t) : In[t][i][1] = k}} : t \in LocalTasks}
Releasing(k) == {a \in Activities : KeyOf[a] = k /\ pc[a] = "edges"}

\* The retained counter is the number of activities still counting, so an
\* entry outlives the exploration of the successors by the thread that pushes
\* it, even when all uses counted so far have already happened.
RetainedWhileCounting ==
    \A k \in Keys :
        /\ entry[k] = NoEntry => Releasing(k) = {}
        /\ entry[k] # NoEntry => entry[k].retained = Cardinality(Releasing(k))
        /\ \A a \in Releasing(k) : mine[a] = births[k]

\* A task finds, for every input released to it and not yet used, an entry
\* that holds its datum, and it is the same entry from the lookup to the use.
InputsDeposited ==
    \A t \in LocalTasks : \A j \in ToUse(t) :
        LET e == entry[In[t][j][1]]
        IN  /\ e # NoEntry
            /\ e.data[In[t][j][2]] # Null
            /\ j \in LookedUp(t) => /\ found[t][j] = births[In[t][j][1]]
                                    /\ got[t][j] = e.data[In[t][j][2]]

\* The datum of an input, found or still in the entry.
DatumOf(t, j) == IF j \in LookedUp(t) THEN got[t][j] ELSE entry[In[t][j][1]].data[In[t][j][2]]
Holders(d) == UNION {{<<t, j>> : j \in {i \in ToDrop(t) : DatumOf(t, i) = d}} : t \in LocalTasks}

\* Uses announced plus uses being counted (one for each edge released), less
\* uses done, are the inputs still to be used: the entry is there until the
\* last of them, and no longer (no entry is kept for nobody). The reference
\* count of a chunk is the number of inputs that hold it.
Counting(k) == UNION {{<<a, i>> : i \in 1..(index[a] - 1)} : a \in Releasing(k)}
CountsExact ==
    /\ \A k \in Keys :
           /\ \A a \in Releasing(k) : usage[a] = index[a] - 1
           /\ IF entry[k] = NoEntry THEN Uses(k) = {}
              ELSE /\ entry[k].usagelmt + Cardinality(Counting(k)) - entry[k].usagecnt =
                         Cardinality(Uses(k))
                   /\ entry[k].retained > 0 \/ Uses(k) # {}
    /\ \A d \in Chunks : refcount[d] = Cardinality(Holders(d))

\* A chunk is given back to the arena at most once, and not before the last
\* of its users: neither a task that has it as input nor a thread that still
\* has successors to give it to touches memory that may have been reused.
ToGive(a) == {DataOf(a, Out[a][i][1]) :
                i \in {k \in DOMAIN Out[a] : pc[a] = "create" \/ (pc[a] = "edges" /\ k >= index[a])}}
ChunksNotReused ==
    \A d \in Chunks :
        /\ returned[d] <= 1
        /\ returned[d] = 1 => Holders(d) = {} /\ \A a \in Activities : d \notin ToGive(a)

\* At the end every entry is gone and every chunk a task was given is back.
Given == {d \in Chunks : \E i \in DOMAIN Out[d[1]] : Out[d[1]][i][1] = d[2]}
NothingLeaks ==
    (\A a \in Activities : pc[a] = "done") =>
        /\ \A k \in Keys : entry[k] = NoEntry
        /\ \A d \in Given : returned[d] = 1
=============================================================================
