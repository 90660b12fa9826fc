------------------------------- MODULE Arena -------------------------------
(***************************************************************************)
(* dague_arena_t (src/arena.c, include/arena.h): chunks of memory taken    *)
(* with dague_arena_get, shared with AREF, given back when an AUNREF       *)
(* brings the reference count to zero, and kept in a LIFO or really freed. *)
(*                                                                         *)
(* The threads respect the contract of a reference count: the thread that  *)
(* got a chunk counts one reference for every user before it hands the     *)
(* chunk over, and a reference is duplicated only while it is held. The    *)
(* LIFO is atomic here; module Lifo has its pointers.                      *)
(***************************************************************************)
EXTENDS Integers, Sequences, FiniteSets

CONSTANTS
    Threads,
    Chunks,        \* the blocks malloc can return
    Unlimited,     \* INT32_MAX
    MaxUsed,       \* arena->max_used
    MaxReleased,   \* arena->max_released
    MaxRefs,       \* bound: references a chunk has at a time
    NoChunk

LimitsUsed     == MaxUsed # Unlimited
LimitsReleased == MaxReleased # Unlimited
Garbage        == -1     \* refcount of a chunk whose memory holds list pointers

ASSUME ArenaAssumption ==
    /\ IsFiniteSet(Threads) /\ IsFiniteSet(Chunks) /\ NoChunk \notin Chunks
    /\ Unlimited \in Nat /\ MaxUsed \in Nat /\ MaxReleased \in Nat
    /\ MaxRefs \in Nat

VARIABLES
    used,      \* arena->used
    released,  \* arena->released
    lifo,      \* arena->lifo, top first
    allocated, \* chunks malloc returned and free has not taken back
    refcount,  \* chunk->refcount
    pool,      \* history: references of each chunk its users still hold
    pc,        \* where each thread is
    chunk      \* the chunk each thread works on

vars == <<used, released, lifo, allocated, refcount, pool, pc, chunk>>

Init ==
    /\ used = 0
    /\ released = 0
    /\ lifo = <<>>
    /\ allocated = {}
    /\ refcount = [c \in Chunks |-> Garbage]
    /\ pool = [c \in Chunks |-> 0]
    /\ pc = [t \in Threads |-> "idle"]
    /\ chunk = [t \in Threads |-> NoChunk]

Goto(t, l) == pc' = [pc EXCEPT ![t] = l]

-----------------------------------------------------------------------------
(* dague_arena_get                                                         *)

GetBegin(t) ==
    /\ pc[t] = "idle"
    /\ IF LimitsUsed
       THEN used' = used + 1 /\ Goto(t, "get_check")
       ELSE Goto(t, "get_pop") /\ UNCHANGED used
    /\ UNCHANGED <<released, lifo, allocated, refcount, pool, chunk>>

\* The limit is compared with the counter read again, not with the result of
\* the increment. (Here and below, the first of two definitions side by side
\* is a mistake the properties must find.)
OverLimitByTwo == used > MaxUsed + 1
OverLimit == used > MaxUsed

GetCheck(t) ==
    /\ pc[t] = "get_check"
    /\ Goto(t, IF OverLimit THEN "get_undo" ELSE "get_pop")
    /\ UNCHANGED <<used, released, lifo, allocated, refcount, pool, chunk>>

NotUndone == used
Undone == used - 1

GetUndo(t) ==
    /\ pc[t] = "get_undo"
    /\ used' = Undone
    /\ Goto(t, "idle")
    /\ UNCHANGED <<released, lifo, allocated, refcount, pool, chunk>>

\* Only a chunk of the LIFO counts in released.
ForgetReleased == "own"
AfterPop == IF LimitsReleased THEN "get_dec" ELSE "own"
AfterMalloc == "own"

\* A chunk of the LIFO, or a new one. Its prefix is initialised.
GetChunk(t) ==
    /\ pc[t] = "get_pop"
    /\ IF lifo # <<>>
       THEN /\ chunk' = [chunk EXCEPT ![t] = Head(lifo)]
            /\ lifo' = Tail(lifo)
            /\ Goto(t, AfterPop)
            /\ UNCHANGED allocated
       ELSE \E c \in Chunks \ allocated :
            /\ chunk' = [chunk EXCEPT ![t] = c]
            /\ allocated' = allocated \cup {c}
            /\ Goto(t, AfterMalloc)
            /\ UNCHANGED lifo
    /\ refcount' = [refcount EXCEPT ![chunk'[t]] = 0]
    /\ UNCHANGED <<used, released, pool>>

GetDec(t) ==
    /\ pc[t] = "get_dec"
    /\ released' = released - 1
    /\ Goto(t, "own")
    /\ UNCHANGED <<used, lifo, allocated, refcount, pool, chunk>>

-----------------------------------------------------------------------------
(* The users of a chunk.                                                   *)

\* The thread that got the chunk counts a reference for one more user.
Ref(t) ==
    /\ pc[t] = "own"
    /\ pool[chunk[t]] < MaxRefs
    /\ refcount' = [refcount EXCEPT ![chunk[t]] = @ + 1]
    /\ pool' = [pool EXCEPT ![chunk[t]] = @ + 1]
    /\ UNCHANGED <<used, released, lifo, allocated, pc, chunk>>

\* It hands the chunk over.
HandOver(t) ==
    /\ pc[t] = "own"
    /\ pool[chunk[t]] > 0
    /\ Goto(t, "idle")
    /\ chunk' = [chunk EXCEPT ![t] = NoChunk]
    /\ UNCHANGED <<used, released, lifo, allocated, refcount, pool>>

HandedOver(c) == pool[c] > 0 /\ \A t \in Threads : ~(pc[t] = "own" /\ chunk[t] = c)

\* A user duplicates its reference.
Share(t) ==
    /\ pc[t] = "idle"
    /\ \E c \in Chunks :
         /\ HandedOver(c) /\ pool[c] < MaxRefs
         /\ refcount' = [refcount EXCEPT ![c] = @ + 1]
         /\ pool' = [pool EXCEPT ![c] = @ + 1]
    /\ UNCHANGED <<used, released, lifo, allocated, pc, chunk>>

\* The decrement brings the count to zero.
LastButOne(c) == refcount[c] - 1 <= 1
LastRef(c) == refcount[c] - 1 = 0

\* A user drops its reference: dague_arena_unref.
Unref(t) ==
    /\ pc[t] = "idle"
    /\ \E c \in Chunks :
         /\ HandedOver(c)
         /\ pool' = [pool EXCEPT ![c] = @ - 1]
         /\ refcount' = [refcount EXCEPT ![c] = @ - 1]
         /\ IF LastRef(c)
            THEN Goto(t, "rel_test") /\ chunk' = [chunk EXCEPT ![t] = c]
            ELSE UNCHANGED <<pc, chunk>>
    /\ UNCHANGED <<used, released, lifo, allocated>>

-----------------------------------------------------------------------------
(* dague_arena_release                                                     *)

ReleaseTest(t) ==
    /\ pc[t] = "rel_test"
    /\ IF released >= MaxReleased
       THEN allocated' = allocated \ {chunk[t]} /\ Goto(t, "rel_used")
       ELSE /\ Goto(t, IF LimitsReleased THEN "rel_inc" ELSE "rel_push")
            /\ UNCHANGED allocated
    /\ UNCHANGED <<used, released, lifo, refcount, pool, chunk>>

ReleaseInc(t) ==
    /\ pc[t] = "rel_inc"
    /\ released' = released + 1
    /\ Goto(t, "rel_push")
    /\ UNCHANGED <<used, lifo, allocated, refcount, pool, chunk>>

\* The list pointers of the LIFO overwrite the prefix of the chunk.
ReleasePush(t) ==
    /\ pc[t] = "rel_push"
    /\ lifo' = <<chunk[t]>> \o lifo
    /\ refcount' = [refcount EXCEPT ![chunk[t]] = Garbage]
    /\ Goto(t, "rel_used")
    /\ UNCHANGED <<used, released, allocated, pool, chunk>>

ReleaseUsed(t) ==
    /\ pc[t] = "rel_used"
    /\ used' = IF LimitsUsed THEN used - 1 ELSE used
    /\ chunk' = [chunk EXCEPT ![t] = NoChunk]
    /\ Goto(t, "idle")
    /\ UNCHANGED <<released, lifo, allocated, refcount, pool>>

-----------------------------------------------------------------------------
Get(t)     == GetBegin(t) \/ GetCheck(t) \/ GetUndo(t) \/ GetChunk(t) \/ GetDec(t)
Release(t) == ReleaseTest(t) \/ ReleaseInc(t) \/ ReleasePush(t) \/ ReleaseUsed(t)

Next == \E t \in Threads :
    Get(t) \/ Ref(t) \/ HandOver(t) \/ Share(t) \/ Unref(t) \/ Release(t)

Spec == Init /\ [][Next]_vars

-----------------------------------------------------------------------------
(* Correctness.                                                            *)

At(ls) == {t \in Threads : pc[t] \in ls}

\* The chunks some thread or some user has: got and not yet back in the LIFO
\* or freed.
Owners  == At({"get_dec", "own", "rel_test", "rel_inc", "rel_push"})
Outside == {c \in Chunks : pool[c] > 0} \cup {chunk[t] : t \in Owners}

\* arena->used is exactly the chunks outside, and arena->released those of the
\* LIFO, plus the calls in between the update of the counter and the move of
\* the chunk: neither is ever negative (the assertions of dague_arena_get and
\* dague_arena_release), whatever the calls that test a counter others change.
CountersExact ==
    /\ LimitsUsed =>
           used = Cardinality(Outside)
                    + Cardinality(At({"get_check", "get_undo", "get_pop", "rel_used"}))
    /\ LimitsReleased => released = Len(lifo) + Cardinality(At({"get_dec", "rel_push"}))

\* The limit holds although dague_arena_get tests it after the increment:
\* the chunks outside are never more than max_used.
OutsideWithinLimit == LimitsUsed => Cardinality(Outside) <= MaxUsed

\* A chunk is in one place: in the LIFO once, or in the hands of one thread,
\* or with its users; a chunk somebody refers to is never reused.
OnePlace ==
    /\ \A i, j \in DOMAIN lifo : lifo[i] = lifo[j] => i = j
    /\ \A i \in DOMAIN lifo : lifo[i] \notin Outside /\ lifo[i] \in allocated
    /\ Outside \subseteq allocated
    /\ \A t, u \in Owners : chunk[t] = chunk[u] => t = u
    /\ \A t \in Owners : pool[chunk[t]] > 0 => pc[t] = "own"
=============================================================================
