# A TLA+ verification of the DAGuE runtime

DAGuE runs a program written as a parameterised graph of tasks (a JDF file,
compiled to C) on the cores of several nodes. The runtime in `src/src` and
`src/include` decides when a task is ready, which thread runs it, how long the
data it produced live, and moves data between nodes; `src/data_dist` says which
node owns which tile of a matrix. This directory holds TLA+ models of the
runtime, of the compiler and the code it generates, and of the distributions,
TLC configurations that check them on small instances and TLAPS proofs of the
properties that do not depend on the instance.

`PROJECT.json` maps every definition to the lines it models and lists the runs,
the mutants that show a property can fail, the findings, the hazards and the
theorems. A path below is relative to the root of the repository.

## 1. The system

| Part | Code | State | Operations |
|---|---|---|---|
| scheduling engine | `src/scheduling.c`, `src/dague.c` (init, fini), `include/execution_unit.h` | `taskstodo`, a queue and a placeholder ring for each thread, the finalization counter and flag | `dague_enqueue`, `dague_wait`, `dague_fini`, `__dague_progress` (the loop every thread runs), `__dague_schedule` |
| dependency release | `src/dague.c` (`dague_release_local_OUT_dependencies`, `dague_release_dep_fct`) | one word for each task: a mask of released inputs | read, or, compare with the goal, copy the task to the ready list |
| ready list | `include/dague.h` | a ring of tasks local to one release | insertion by priority |
| dequeue | `include/dequeue.h` | doubly linked list with a ghost element, spin lock | push and pop at both ends |
| LIFO | `include/lifo.h` | singly linked list and a head | push of a chain, pop, with compare-and-swap |
| barrier | `src/barrier.c` | mutex, condition, counter, generation | wait |
| arena | `src/arena.c`, `include/arena.h` | counters `used` and `released`, a LIFO of free chunks, a reference count for each chunk | get, ref, unref, release |
| data repository | `include/datarepo.h` | hash table of entries: usage count, usage limit, retained, data | lookup, lookup and create, used once, add to usage limit |
| generated code | printed by `tools/dague-compiler/jdf2c.c` | none of its own | startup tasks, the hook (look inputs up, run the body), `release_deps` |
| remote dependencies | `src/remote_dep.c`, `src/remote_dep_mpi.c`, `include/remote_dep.h` | command queue, descriptors of outputs to send, three slots for activations and three for requests, flying messages counted in `taskstodo` | activate, get, put, release of received data, network on and off |
| hierarchical buffers | `include/hbbuffer.h`, `src/dague_hwloc.c`, `src/dague.c` (`__dague_thread_init`) | bounded arrays of tasks with an overflow parent | push all, pop best, collect the queues of the others by distance |
| freelist | `src/freelist.c` | a LIFO of recycled items | get, release |
| object registry | `src/dague.c` | array of objects | register, lookup |
| data distribution | `data_dist/matrix` | the tiles each node holds | tile to rank, tile to address, parallel generation, comparison of two distributed matrices |
| compiler | `tools/dague-compiler` (`dague.y`, `jdf.c`, `jdf2c.c`, `main.c`) | the syntax tree | parse, sanity checks, generation of C |
| others | Buf2Cache, profiling, statistics, expression interpreter, tools, tests | | |

How they interact. The application thread is thread 0. It calls
`dague_enqueue`, which adds to `taskstodo` and gives the startup tasks to
its own queue, and `dague_wait`, in which it joins the others for a round. In
a round a thread takes a task from its placeholder, its queue or another
thread's queue, decrements `taskstodo`, runs the hook, then `release_deps`: it
creates the entry of the task in the repository, iterates over the
successors (deposit the datum, take a reference on its chunk, release the
dependency, collect the tasks that became ready), adds the uses it counted to
the limit of the entry, schedules the ready list, activates remote ranks, and
finally declares its own inputs used and drops its references. A
communication thread does the same for outputs received from other nodes. The
round ends at a barrier when `taskstodo` is zero.

What is hard about it:

* the release of a dependency reads the mask before it updates it;
* `taskstodo` reaches zero before the last tasks have run;
* threads miss tasks (a pop gives up on a taken lock) and must come back;
* barriers are reused at once, and the number of barriers a thread takes part
  in must agree with the master's at the end of the program;
* entries and chunks are used while their number of users is still being
  counted, and entries of one key die and are born again;
* arena limits are checked in steps separate from the update;
* lists are lock-free or use try-locks, and their items are recycled;
* messages of several outputs of one task interleave with the release that
  announces them, and the descriptor both sides use is recycled;
* each node leaves `dague_wait` on its own count, while others still need it;
* the generated code names the same edges twice, from the inputs in the lookups
  and from the outputs in the successors, and tracks them with masks, counters,
  arrays and hash keys computed separately;
* tiles are placed by divisions and remainders with incomplete last blocks.

`PROJECT.json` lists each of these under "hazards" at its line, with the
properties that cover it.

What makes each part correct, in one line: every task runs once, after its
predecessors, and `dague_wait` returns after all of them (engine); a task is
ready exactly when its last input is released (release); the head of the
ready list is a task of highest priority and none is lost (ready list); queues are
atomic sequences (dequeue, LIFO); nobody overtakes a barrier and nobody is
left behind (barrier); counters are exact, limits hold and a chunk has one
owner (arena); an entry is there until its last use and no longer, a chunk
until its last user and no longer (repository); a datum arrives where it is
expected and releases its successors once, and no node leaves a round while
another waits for its data (remote dependencies); every queue is within the reach of
every thread and a pop overlooks nothing (buffers); a text that is accepted has
no dangling name and the object it becomes is its task graph (compiler,
generated code); each tile has one owner and one place (distribution).

## 2. The modules

| Module | Models | Abstract counterpart |
|---|---|---|
| `TaskGraph` | the promise to the user: tasks run once, in order, and `dague_wait` waits for them | |
| `Scheduling` | the engine and the local release of dependencies | implements `TaskGraph` |
| `ReadyList`, `ReadyRing` | the insertion by priority; all the lists it can build | |
| `ListUsers` | items, threads and ghost element of a linked list | used by `Dequeue` and `Lifo` |
| `Dequeue` | the dequeue, pointer by pointer | implements `AbstractDequeue` |
| `Lifo` | the LIFO, pointer by pointer | implements `AbstractLifo` |
| `Barrier` | the barrier | implements `AbstractBarrier` |
| `Arena` | the arena | |
| `DataRepo` | the repository, the hook, `release_deps` and the release of received data | |
| `RemoteDep` | the exchange of activations, requests and data between nodes, and the end of a round of each | implements `TaskGraph` |
| `HBBuffer` | the engine of the hwloc build: buffers, overflow, stealing by distance | implements `TaskGraph` |
| `Jdf` | the syntax tree of a program, the sanity checks, the value of expressions | |
| `JdfCode` | what the generated code does for a program | checked against the graph its inputs stand for |
| `DataDist` | the distributions: rank, position, sizes, slices of the generating threads | checked against `Distributed` |
| `Matrix` | generation and comparison of matrices on several nodes | |
| `JdfRun` | a program from its text to its results: compile, generate, run on every node, compare | implements `AbstractRun` |
| `MCScheduling`, `MCDataRepo`, `MCRemoteDep`, `MCHBBuffer`, `MCJdf` | the constants of the instances | |
| `BarrierProof`, `ArenaProof`, `ReadyListProof`, `ListProof`, `SchedulingProof`, `DataRepoProof`, `RemoteDepProof`, `HBBufferProof` | lemmas, theorems and proofs | |

Composition: `Scheduling` uses `ReadyList` for the ready list. Its barrier
variable `bar` and its guard `Released` are those of `AbstractBarrier`, which
`Barrier` implements; its queues are sequences under a lock, which `Dequeue`
justifies. The LIFO of `Arena` is a sequence, which `Lifo` justifies under a
condition given below. `HBBuffer` uses the barrier and the dequeue in the same
way. `JdfRun` extends `JdfCode` (over `Jdf` and `DataDist`), `Matrix` and
`ReadyRing`, and takes of the parts modelled alone what they promise: the
queues of a node are a set of ready tasks (`Scheduling`, `HBBuffer`), a function
of the repository is atomic (`DataRepo`), each output of a message arrives once
(`RemoteDep`).

The correspondence, module by module:

**Scheduling.** `pc[w]` is the place of thread `w` in `__dague_progress`. An
action ends where another thread can notice: at a barrier, a lock, an atomic
operation, or a read of a shared word. `Loop` is the test of `taskstodo` and
the placeholder of `choose_local_job`; `TryLock` and `PopFront` the pop of its
own queue and of each victim's; `DoneTask`, `Execute` and `BodyEnds` lines
295-297; `ReadMask` and `OrMask` one call of
`dague_release_local_OUT_dependencies`, split between the unsynchronised read
of the mask and the atomic or; `Schedule`, `SpinLock` and `Push` are
`__dague_schedule`. `Enqueue`, `CallWait`, `CallFini` and `Join` are the
application. `status` and `waited` are history variables: what the user
sees. The configuration modelled is the one without hwloc (dequeues and
placeholders) and with dependency masks, on one node.

**Barrier.** One action for each stretch of code under the mutex; the mutex
and condition are POSIX's and include spurious wakeups. `calls` is a history
variable, the arrivals of the abstract barrier.

**Dequeue and Lifo.** One action for each pointer that is read or written
while somebody else may look, with the chain half linked in between. Chains of
one and two items are pushed: two items have a head that is not the tail,
which is all the code distinguishes. The two ends of the dequeue mirror each
other and are written once. The linearization point of an operation is
the assignment that makes it visible (`PushOuter`, `PopUnlink`, the
compare-and-swap), and the refinement mappings add the items in hand to
`outside`.

**Arena.** `dague_arena_get` and `dague_arena_release` are split at each
access to a shared counter. The users of a chunk keep the contract of a
reference count, as `dague_release_dep_fct` and the generated code do.

**DataRepo.** An activity is a local task or the receipt of outputs of a
remote task. `Lookup`, `Body`, `LookupAndCreate`, `ReleaseEdge`,
`AddToUsageLimit`, `UsedOnce` and `Unref` follow the text `jdf2c.c` prints,
call by call; each repository call runs under the lock of a bucket. Which
thread runs an activity does not matter to it, so a ready task may run at
once. `births` counts the entries a key has had, so that a task that holds a
pointer to an old one is noticed.

**RemoteDep.** Several nodes, each with threads that run tasks and one
communication thread. `Run`, `Release` and `Drop` are the life of a task, in
less detail than in `Scheduling` and `DataRepo`; `NextRank` and `SendRank` are
one turn of the loops of `dague_remote_dep_activate`, `Counted` the test that
ends the inner one. The reference on the datum and the count of flying messages
are taken in `NextRank`, the command is queued in `SendRank`, and the three are
kept apart because the communication thread may act in between. A thread at
"overrun" has left the bitmap: the code goes on with what it reads there, the
thread of the model takes no further step.
A descriptor (`desc`) has a name that stays when it is recycled, since messages
carry its address. `PopCommand` is the switch of `remote_dep_dequeue_main`
with `MpiOn`, `MpiOff` and `SendActivate`; `GetData`, `PutData`, `PutEnd` and
`DataEnd` are the four branches of `remote_dep_mpi_progress`, one for each
kind of completed request, each with all it calls. `net` holds the messages
sent and not received. The network is what the code expects of MPI: nothing is
lost, control messages are buffered, and requests complete in any order. Slots
of one kind are alike, so a message takes the first that listens. `refs` and
`freed` follow the reference counts of the chunks a task received and passes
on, the only ones that can reach zero while their task runs. `released` and
`status` are history variables. A chunk in the hands of a receiving node is
the business of `DataRepo`.

**HBBuffer.** The flat queues of the hwloc build. `FirstBarrier`, `MakeBuffer`
and `OrderQueues` are `__dague_thread_init` between its barriers, with the tree
of cores as a constant; `Push` is one turn of the loop of
`dague_hbbuffer_push_all`, `Overflow` the parent's push, `Scan` one turn of
`dague_hbbuffer_pop_best`, `Take` its compare-and-swap; the rest is
`__dague_progress`. `present` is a history variable: the tasks that were in the
buffer when the pop began and still are, those a pop may not overlook. A task is
named by its address and never pushed twice, so a slot that holds the value read is
the slot read.

**Jdf.** An expression is a tree of `Cst`, `Var` and operators, a program the
record the grammar builds. Each `jdf_sanity_check_...` is an operator of its
name. `BoundCode` keeps the value the walk over an expression returns, since the
last operand of a binary operator overwrites it. `Eval` is C's evaluation of
the text `dump_expr` prints; `CDiv` truncates towards zero. Names are strings
of TLA+ and are never taken apart.

**JdfCode.** One operator for each function the compiler writes, applied to the
program: `Nest` the loops of `internal_init` and of the startup functions,
`Cells` the dependency arrays it allocates, `Hash` the key, `Lookup` the
initialisation of a flow, `Callees` the loops over the ranges of a call with
the bounds of the callee, `Goal`, `Bit` and `CheckIn` the two tracking schemes. `Generates`
and `Compiles` are the conditions under which the generator does not stop and
the C compiler accepts the text. The second half reads the task graph from the
inputs alone (`GraphOf`); `Exact` compares the two.

**DataDist and Matrix.** `TwoDimPos`, `SymPos` and `Pos` are the three
`get_local_tile`, counting tiles instead of bytes; `Share` is the loop that
computes the part of a node. `Generate` is one thread of `rand_dist_matrix`,
`Compare` one turn of the loops of `compare_dist_data` on node 0 with the
synchronous send that meets it. The random numbers are those of the code with
a modulus and factors given as constants; the content of a tile is the matrix and the coordinates
it was generated for, once `TilesOfOneMatrix` has checked the numbers.

**JdfRun.** `Check` and `Translate` are `main` of the compiler; `Describe` to
`Generated`, `NewObject`, `Wait`, `Compared` the program on each node. A worker
goes through `Take`, `Hook`, `Body`, then for each local edge `ReleaseEdge`
and `Mark` (the read of the cell and its atomic update are apart), `Schedule`,
`Send`, `Drop` and `Done`; the communication thread through `Deliver`,
`ReleaseEdge`, `Mark` and `Schedule` for each output it receives, and `Copy`.
`content` is the memory: the value of each tile and chunk, so a datum released
too early, looked up in the wrong place or overwritten shows as a wrong value.
`status`, `seen` and `waited` are history variables. The constant `Objects`, which
the instance sets to `ObjectsOf(Configs)`, holds what the compiler makes of each
text.

## 3. The runs

| Run | Instance | Shows |
|---|---|---|
| `scheduling_two` | 2 threads, one task releasing three, all released into a last one, and a second object, fairness | `ImplementsTaskGraph`, `CountsTasksLeft`, `NothingLeftBehind`, `NoBarrierOwed`, `ApplicationRunsAlone`; `CallsReturn` under fairness |
| `barrier` | 3 threads, 3 rounds, 2 generations | `CurcountCountsWaiting`, the refinement, `AllRoundsComplete` |
| `dequeue` | 2 threads, 3 items, chains of 1 and 2 | the refinement, `PushReturns` |
| `lifo` | 3 threads, 3 items, one of them pops | the refinement |
| `lifo_poppers` | 2 threads that both pop | *violates* `NoneTwice` |
| `arena` | 3 threads, 5 blocks, limits 2 and 1 | `CountersExact`, the limit on `used`, `OnePlace` |
| `data_repo` | 4 local tasks, two receptions of one remote task | exact usage, retention and reference counts, no early reuse, no leak |
| `data_repo_shared` | one received datum for two local tasks | *violates* `ChunksNotReused` |
| `remote_dep` | 2 nodes, 5 tasks, 3 activations to one of them, 2 slots of each kind, fairness | `ReleasedOnce`, `RightData`, `FlyingExact`, `ServedBeforeOff`, `FreedNotUsed`, `ImplementsTaskGraph`; `EveryWaitReturns` under fairness |
| `remote_dep_overrun` | 2 nodes, 5 tasks, two tasks of each pass data to the other | *violates* `RankInRange` |
| `hbbuffer` | 2 threads on 2 sockets and the communication thread, 6 tasks, buffers of 2 slots, fairness | `KnowsEveryQueue`, `PopIsBest`, `ImplementsTaskGraph`; `RoundEnds` under fairness |
| `jdf` | 4 programs on 1 or 2 nodes, 16 faulty texts, 5 sets of matrices on 2 or 4 nodes | `CheckedIsClosed`, `ObjectIsExact`, `ImplementsDataflow`, `ResultsInPlace`, `MatrixGenerated`, `ComparisonExact`, `HeadHighest`, `NothingLost`; `AllTasksRun` under fairness |

Why the bounds are enough. Two threads are the smallest case with a thief and a
race on a mask; that nothing depends on their number is what the proofs of
section 4 are for. The graph has a task with a direct input completed by racing
predecessors, which is where the mask is read twice, and more ready tasks than
a placeholder holds. The master may call `dague_wait` up to
`NbObjects + 1` times (bound in `CallWait`), so rounds without work and
several objects in one round happen, and `dague_fini` may come at any time.
Three rounds of the barrier with two generations make the counter wrap once
while a slow thread of round one may still be inside. Five blocks with two
outside and one cached make `malloc`, reuse and really-free all happen; `Unlimited`
stands for INT32_MAX. `MaxRefs` bounds the references on a chunk to two, the
first number with a last reference and another one. The recursive
functions `Walk` and `Contents` stop after one more item than there is, so
that a cycle shows as a sequence that is too long.

In `RemoteDep` two nodes are enough for every pair of roles, and the graph of
`remote_dep` has what the protocol tells apart: an activation of two outputs, an
output for the task's own node too, a chunk received and passed on, and a join
of a local and two remote inputs. Node 1 is sent three activations and node 0
three requests, with two slots for each, so the last message may find all the
slots in use: a slot that does not listen again is then missed
(`EveryWaitReturns`). `MAX_PARAM_COUNT` is the real one. `MaxTag` 19 gives the
three transfers three blocks of tags. The code counts tags up to the largest of
MPI and starts again without looking at what is in use: with `MaxTag` 14 the
third transfer gets the tags of the second, which may still be in use, and the
same instance violates `RightData`. One thread runs the tasks of a node: the
races that matter are with the communication thread. In this instance a
descriptor is never filled again with a larger count, so the overrun below does
not happen in it; in the graph of `remote_dep_overrun` it does.

In `hbbuffer` the startup list has three tasks for a buffer of two slots, so it
overflows; a task makes two others ready while its buffer may still be
occupied; a list from another node goes into the buffer of thread 0 while it
uses it; the cores meet only at the top of the machine, the level a wrong
bound would forget. The code has four slots for each core; the number of slots
enters the loops only as their end.

In `jdf` the configuration is chosen in the initial state. The programs are of
the kinds the repository has: a Cholesky factorisation of 3 by 3 tiles on a block cyclic
matrix over two nodes with masks, and on a symmetric matrix with two workers and counters (the
cells that two releasers update); a datum that goes back and forth and comes
home in a received chunk, so that its final write is a copy; a datum read by
tasks of both nodes, three per release with different priorities, which passes
it on. The faulty texts have one fault each, at least one for each check, and
for conditions only the C compiler catches. The matrices have incomplete last
super-tiles in both directions, more threads than divide the tiles, a table next to a
block cyclic matrix to compare it with, and a description the constructor
refuses.

`scheduling_two`, `remote_dep` and `jdf` runs do not check for deadlock, since the
program really ends, after `dague_fini`, when every node is back from
`dague_wait`, and when every node has exited or the compiler refused the text;
their liveness properties already say that these ends are reached. The dequeue, LIFO and arena modules have users that never stop.

Fairness. A thread that can take a step takes it (`WF` of each thread): the
operating system schedules every thread. A thread that spins on a lock, or
waits for a mutex, gets it when it is free again and again (`SF` of
`SpinLock` and of the mutex of the barrier): the threads that poll a queue
sleep between two polls (`exponential_backoff`), so the lock is free most of
the time. No fairness is assumed of the application, which may never call
`dague_wait` or `dague_fini`, and none of a try-lock. In `RemoteDep` every
node calls `dague_wait`, as a distributed program must; threads and the
communication thread, which polls for ever, take their steps, and what MPI can
complete it completes. In `HBBuffer` every thread takes its steps (`WF`), gets
the lock of the system queue to push (`SF`), and the application and the network deliver.
`JdfRun` needs less: no action of it undoes another and nothing in it polls,
so every behaviour that goes on at all (`WF` of `Next`) ends.

Findings, with the lines they quote in `PROJECT.json`:

* `lifo_poppers`: a pop reads the successor of the head before it swaps the
  head, so with two poppers a head popped and pushed again in between is
  replaced by a stale successor. With one popper the LIFO is correct for any
  number of pushers (`lifo`, `LifoImplements`). The arena pops from the communication thread
  only; the free list of remote descriptors is popped by every thread.
* `data_repo_shared`: a received chunk has no reference of its own while its
  successors are released. When every received datum has one local successor
  the counts are right (`data_repo`).
* `remote_dep_overrun`: after its last send, the loop of
  `dague_remote_dep_activate` tests the count of the output once more. When the
  communication thread has served the activation by then, the descriptor is
  recycled, and when another release has filled it with a larger count, the
  loop reads past the bitmap.

Other disagreements were met that no run shows, and are listed under "hazards".
A rank that needs two outputs is told of both at once, and the reference of the
second is taken later (`src/remote_dep.c` line 236): when the second is a
received chunk that the task passes on, its transfer may end before and drop a
reference of the task itself, and `FreedNotUsed` fails. In the instance of
`remote_dep` a received chunk is the first output a rank is told of
(`FirstSent`), and with that condition the property is proved. A task that sends
two outputs to one rank and keeps none for its own node has worse: both are sent
after the first activation, so the descriptor may be recycled while the loop
still has ranks to meet in it. TLC shows it on a graph where a task sends
outputs 0 and 3 to node 1 only. With one thread on the node the rank is told a
second time and `ServedBeforeOff` is violated; with two threads the other one
fills the descriptor for its own task, and `ReleasedOnce`, `RightData`,
`FlyingExact` and `FreedNotUsed` are violated as well. An unbound name in a right operand is a warning
for the compiler (`CheckedIsClosed` exempts it), an output-only
function is never started although `data_dist/matrix/symetrical_gen.jdf` is
made of one, and a flow without an input in front of one that has an input
shifts the goal from the mask; the programs of the instance have neither.
The x86_64 header (`include/atomic-x86_64.h`) returns a second read of the
counter, so two threads that drop the last references may both see zero; builds
that find the compiler's builtins use `atomic-gcc.h`, which is right. And the
ready list is not sorted, although a comment in `__dague_schedule` supposes
so: inserting before the head of a ring is inserting last. The head is right
(`HeadHighest`), so the placeholder gets the best task.

## 4. The theorems

| Module | Theorem | For every |
|---|---|---|
| `BarrierProof` | `TypeCorrect`, `CountCorrect`, `BarrierImplements` | finite set of threads, number of rounds, width of the generation counter of at least two values |
| `ArenaProof` | `PlaceCorrect`, `CountersCorrect`, `LimitCorrect` | finite sets of threads and of chunks, limits on `used` and on `released` |
| `ListProof` | `HeadIsHighest`, `InsertionLosesNothing` | set of tasks and integer priorities |
| | `DequeueImplements` | finite set of items, number of threads |
| | `LifoImplements`, `OnePopperTakesNoneTwice` | finite set of items, number of pushers, under `OnePopper` |
| `SchedulingProof` | `TypeCorrect`, `AloneCorrect`, `FiniCorrect` | number of threads, task graph, placeholder size and sequence of calls |
| | `TasksLeftCorrect`, `NothingLeftCorrect`, `SchedulingImplements` | the same, and priorities |
| `DataRepoProof` | `RetainedCorrect`, `CountsCorrect`, `DepositedCorrect` | sets of tasks, receptions, inputs, edges and keys that match each other |
| | `NotReusedCorrect`, `LeaksCorrect` | the same, when every received datum has one local user (`OneUserEach`) |
| `RemoteDepProof` | `ReleasedOnceCorrect`, `FlyingCorrect`, `RemoteDepImplements` | number of nodes, threads and slots, task graph and order of messages, in the runs of `LoopOwnsDesc` |
| | `RightDataCorrect`, `ServedCorrect` | the same, in the runs of `LoopOwnsDesc` and `FreshTags` |
| | `FreedCorrect` | the same as the first, for the graphs of `FirstSent` |
| | `LoopOwnsDescCorrect` | graph of `LoopOutlivesSends`: all its runs are runs of `LoopOwnsDesc` |
| | `FreshTagsCorrect` | constants of `TagsSuffice`, or one slot: all runs of `LoopOwnsDesc` are runs of `FreshTags` |
| `HBBufferProof` | `QueuesAreKnown`, `PopFindsTheBest` | number of threads, tree of cores, buffer size, graph of tasks and ranks |
| | `HBBufferImplements` | the same; each task is made ready by one source (`SourcesAssumption`) |

The assumptions are the named ASSUMEs of the modules, and TLC evaluates each
of them on an instance. Conditions that not every program meets are hypotheses
of the theorems that need them: on the constants `OneUserEach`,
`LoopOutlivesSends`, `TagsSuffice`, `FirstSent` and `OnePopper`, and on a run
`LoopOwnsDesc` and `FreshTags`, which the code neither ensures nor tests. The
instances of `data_repo`, `remote_dep` and `lifo` meet them; what happens without
them is said below.

*Barrier.* `CurcountCountsWaiting` is not inductive: it says nothing of a
thread that left the mutex. The invariant adds that the holder of the mutex is
where it should be (`MutexInv`), that a thread asleep waits for the
current generation (`SleepersInv`: the broadcast wakes all the others), and how
many calls each thread has made relative to the others (`RoundsInv` and
`CountInv`): all the threads of a generation made the same number of calls,
those not yet in it one less. The refinement follows: a thread that finds the
generation changed is behind nobody. That two values of the generation are
enough comes out of the proof, since a thread is never more than one
generation behind.

*Arena.* That a chunk is in one place (`OnePlace`) is inductive only with the
reference counts: `RefcountInv` says that the count of a chunk outside is that
of the references its users hold, so the decrement that reaches zero is the
last user's and nobody else can release the chunk again. For the counters,
each step changes one count and the cardinality of at most one of the sets
`CountersExact` counts (`AtMoves`, `CountsMove`); the limit follows from
`LimitInv`, which adds to the chunks outside the calls that passed the test
and have not popped yet.

*Ready list.* The theorems speak of `RingSpec`, one ring per releaser; `JdfRun`
inserts and empties the rings by the same actions. `Passed` is bounded by the length of the list, what is in front
of the place it gives has a higher priority than the new element, and the
result of `AddByPriority` holds exactly the old elements and the new one
(`ReadyListProof`). With the invariant that the list has no element twice,
`HeadHighest` is inductive.

*LIFO.* `Contents` unfolds the links from the head as often as there are items. The
proof replaces it by a sequence that exists: `IsStack` says that the links list
it from the head on, without repetition, and the walk of a list is that list
(`WalkExists`, `WalkLists`; by a least counterexample, since the induction
theorems cannot be used). A chain about to be pushed is in nobody else's hands
and not on the stack, so linking it disturbs nothing (`ChainsInv`). What a pop has read
stays on the stack, followed by the same items, while no other thread pops: others only put
chains on top (`PopInv`). So a swap that finds the head it read finds its
successor too, which is the place where `OnePopper` is needed: with two
poppers `PopInv` is false, as the run `lifo_poppers` shows.

*Dequeue.* `Walk` is likewise a sequence that exists (`IsDeque`): at each step the
links in the two directions make one ring of the ghost and the items (`Ring`), since the
write that makes an item visible and the one that takes it out set both
links of the ring in one step of the model, under the lock (`LockInv`). What
the other writes touch is in one thread's hands, which are disjoint from each
other and from the ring (`HandsInv`, `LinkFacts`). The lemmas are about one
end; an operation at the other is the same on the list reversed (`View`).

*Scheduling.* `ApplicationRunsAlone` needs to know in which round each thread
is. `PlaceInv` says that the place of a thread in the code determines the
number of its barrier arrivals from the rounds it has counted
(`my_barrier_counter`, or the finalization counter for the master);
`LockstepInv` that nobody has arrived more often than the thread waited for,
so a thread past a barrier implies that all arrived; `FinishInv` that once the
flag is set the master is in `dague_fini` or past it. Together: when the
master is back in the application, every other thread is between the closing
barrier of the last round and the opening one of the next; and a thread that
sees the flag has counted as many rounds as the master, so the catching-up
loop of line 270 never runs a barrier.

*Task graph.* A task graph is any that `GraphAssumption` allows: each input of
a task that is not read from memory is released by at most one edge, and a startup list
names each task that can start once. The invariant (`GraphInv`) has four parts. A
task is in one place: the dequeue, the placeholder or the ready list of one
thread, or its hands, and nowhere before its inputs are there (`ListsInv`,
`Apart`, `HeldInv`; `Available` never becomes false again). A flow is in
a mask only when its producer is done and past the edge that releases it
(`EdgeInv`), and what a thread is about to add to a mask, read without
synchronisation, holds that flow and inputs from memory only (`MaskInv`); so
the atomic or that completes a goal is the last of its task, whichever thread
makes it, and the task it schedules was nowhere before (`SuccessorWaits`).
`taskstodo` counts the enqueued tasks nobody has taken (`CountsTasksLeft`),
so a thread that reads zero finds every list empty (`NothingLeft`), and the master
ends a round only then (`EndInv`). For the refinement, an available task has
its predecessors done (`PredsDone`), and when the master leaves the closing
barrier no other thread is between its barriers, by the arrivals counted in
`PhaseInv`, so what was taken is finished (`AllDone`): this is why `dague_wait`
may return although `taskstodo` reaches zero before the last tasks have run.

*Data repository.* That the usage limit of an entry is right when it is
released is a matter of who may still touch it. The invariant (`RepoInv`) adds
to the types two parts. `FlowInv` says where each activity is: an edge is sent
when its activity is past it, an entry exists while somebody releases it or
will use it, and a task runs only after every edge to it was sent. `DataInv`
says that a datum given to a task is in the entry of its producer, or is what
the task found there, and that it is the entry of the same birth:
`InputsDeposited` follows. `RetainedWhileCounting` is needed because an entry
whose uses so far are all done looks as if it could go; that the producer holds
a retention is what keeps it until `AddToUsageLimit`. `CountsExact` is
inductive with them: limit, count and the uses being counted balance to the
inputs still to be used, by one lemma for each of the sets that change by one
element. For the chunks, `ReturnInv` says that a chunk is held or was given
back once from the moment it is first given; it is not inductive for a received
datum with two local users, since nothing holds the chunk between two edges,
and the run `data_repo_shared` shows that the property is then false. Hence
the hypothesis `OneUserEach`.

*Remote dependencies.* An activation, from the bitmap to the data, is in one
place: queued for the communication thread, on its way, accepted in a slot and
asked for, or being served (`OnePlace`). The rest of `TransferInv` says, for
each place, what the message or slot may say: the descriptor it names is live,
belongs to the sender's task and has told the receiver (`CommandInv`,
`MessageInv`, `ServingInv`, `ReceiveInv`, `LiveInv`); what the loop of
`dague_remote_dep_activate` has met so far (`LoopInv`) and sent so far
(`SentInv`), so that the descriptor is cleaned up exactly when the last pair of output and rank
is done; that the free list holds blank descriptors, each once (`FreeInv`); and
that an activation accepted once never comes again (`AcceptInv`), which is
`ReleasedOnce`. `FlyingExact` is then a count of places: each step moves one
activation from one to the next. The refinement of `TaskGraph` needs that a node is back from
`dague_wait` only when its own tasks are done and it owes no message, and that
a released input has its producer done on whatever node.

All this holds as long as the loop of `dague_remote_dep_activate` owns the
descriptor it reads: `LoopOwnsDesc`, a condition on the states of a run, says
that a thread with ranks left to meet finds its own task in the descriptor.
Every theorem of the module has it as a hypothesis, and not every program
meets it. When a rank needs two outputs both are sent after the first
activation, and if the task keeps no output for its own node the count may then
be reached and the descriptor recycled under the loop; section 3 says what TLC
finds in that case, and what the loop then does with a reference on a stale
datum is beyond the model. `LoopOwnsDescCorrect` proves that it does not
happen for the graphs of `LoopOutlivesSends`: every task keeps an output on
its own node, or sends no rank two outputs. A task that keeps an output counts it,
nothing sends it, so the count is never reached and the descriptor never
recycled; and without two outputs for one rank the last one cannot be sent before
the loop has met it.

The condition does not exclude the graph of `remote_dep_overrun`: there the loop
has met its last rank and only the test of the count reads a descriptor that is
no longer its own. The theorems hold of such a run too, but after the overrun
only of the model, where the thread takes no further step; the code goes on past
the descriptor, and nothing is proved of what it does there.

`RightData` is about tags. A receiver takes a block of tags for each activation
and posts receives for them; the sender answers to the tag in the request.
`AskedInv` and `PutInv` tie every request and every datum under way to the slot that
waits for it, `WaitInv` says the converse, that a slot waits only for what a
request or a datum will bring, and `TagInv` that the blocks of two slots in use
are disjoint. The last needs `FreshTags`: the code lets tags wrap at the largest
tag of MPI and tests nothing when they do, so what is asked of a run is that
whenever a node may accept an activation the next block of tags meets none in
use. Tags may wrap in such a run. `FreshTagsCorrect` gives two cases in which
every run is one: no more activations than blocks (`TagsSuffice`), or a single
slot for them. With the three slots of the code and more activations than
blocks nothing ensures it: one transfer may stay in use while the others go
round. `ServedBeforeOff` follows from `WaitInv` and `FlyingExact`.

`FreedNotUsed` says little of a step: that the count is the number of users is
what keeps it (`RefsExact`). The users of a chunk are the thread that runs the task that
passes it on, until the end of `release_deps`; the local successors from their
release to the end of theirs; and the ranks that were told of the output and
wait for it, wherever the activation is, and the rank the loop is about to tell
(`Flights`, the `Waits` of `TransferInv` once more). Every step that takes or drops a reference moves one of these sets
by one element. The loop takes the reference when it meets the pair, the
rank starts to wait when it is told, with its first output: `ToldInv` says that
every rank the loop has met was told, and `FirstSent` that the first output is
the received one, so the reference comes just before. No task is among its own
successors once it has run (`NotOwnSuccessor`), so the two references of
`Drop` are of different holders.

*Bounded buffers.* That each thread finds every queue is first a fact about
`ByDistance`, for any tree of cores: going round the cores from the next one on
meets each other thread once, each is at one level between 0 and that of the
machine, and the concatenation of what disjoint levels name is what they name
together (`FlattenEnumerates`, by the least bad length, since the induction
theorems cannot be used). Then `SetupOf` ties the place of a
thread to the barriers it has met, and those to the buffers made by then.
`PopIsBest` is not inductive: `PopOf` adds that what is present is still in its
slot, and that the candidate is no worse than what the scan has passed. A push
of another thread fills empty slots only and a take empties the slot
of a task nobody has to find any more (`Kept`), so no step of another thread
disturbs it.

The refinement of `TaskGraph` rests on `RInv`. A task that is ready and has not
run is in one place: a slot, the overflow queue, the chain a pusher holds or
the hands of the thread that took it (`OnePlace`); what is in a place is ready
and still waits (`TaskInv`), and a running task is that of one thread.
So a compare-and-swap that succeeds on a slot with a task found there moves that
task and no other, and a push that fails moves none. A task new in a hand was
not ready before, hence nowhere (`NewTask`): this is where `SourcesAssumption` is
needed, that a task comes from the startup list, one predecessor or one received
message. The module is given, for each task, the source that makes it ready; that it is one source
is what dependency tracking guarantees to the queues (the masks of `Scheduling`, `ReleasedOnce` of `RemoteDep`). For `dague_wait`, `PhaseOf` gives the barriers each place lies
between and `RoundInv` says that `taskstodo` is the number of tasks nobody has
counted off (`Untaken`): past the last barrier all threads have arrived there,
so none runs a task, and none is untaken.

Only model-checked: liveness (`CallsReturn`, `PushReturns`,
`AllRoundsComplete`, `EveryWaitReturns`, `RoundEnds`, `AllTasksRun`), since the
proof system does not handle fairness; and all that is about the compiler, whose expressions and loops are recursive
operators (`Jdf`, `JdfCode` and what extends them), which no proof can use.

## 5. What is not modelled

* Of the remote dependencies: the collective topologies and flow control (off
  by default), several rounds and objects registered at different times, and
  the limits of the MPI library (blocking sends, largest tag). `JdfRun` has
  several programs but one object in each execution.
* Of the hwloc build: the shared queues of `USE_HIERARCHICAL_QUEUES`, whose code
  does not compile, and what hwloc itself answers. The LIFO queue types and the
  cache-aware build: other options of the build.
* The caches of weak memory: every read and write is sequentially consistent.
  The code places a fence before it publishes a pointer or frees a lock.
* `dague_schedule` and `dague_register_nb_tasks`, which only test programs use.
* Of the compiler: the lexer, the precedence of operators (the model starts from
  the tree), inline C in bodies, types, and the code printed for profiling, PAPI, the
  grapher and the cache. The interpreter of expressions (`src/expr.c`) and the
  printing of symbols (`src/symbol.c`): the generated code evaluates its expressions inline,
  and these serve debugging output.
* Of the matrices: reading and writing files, the float and LU variants of the
  generators.
* Chunks modified in place while another successor still reads them: the
  compiler does not check for it and the programs modelled do not do it.
* Binding of threads, profiling, statistics, off-line tools, test programs: no
  shared state the properties depend on.
* Failures: the code has none to handle; a failing `malloc` or MPI call aborts.

## 6. Plan

What is left, the most important first.

1. `RemoteDep` goes on: several rounds on nodes that advance at different
   speeds, with the registration of objects; the collective topologies (every
   rank of a bitmap is reached once) as operators.
2. The freelist over `Lifo`, with its condition of one popper (`OnePopper`).
