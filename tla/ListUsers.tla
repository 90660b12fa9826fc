------------------------------ MODULE ListUsers ------------------------------
(***************************************************************************)
(* What the linked lists of the engine share: threads that have items of   *)
(* their own, lend them to a list and get them back, and a ghost element   *)
(* that stands for the end of the list (include/lifo.h, include/dequeue.h).*)
(***************************************************************************)
EXTENDS Naturals, Sequences, FiniteSets

CONSTANTS
    Items,     \* the list items
    Ghost,     \* &lifo->lifo_ghost, &dequeue->ghost_element
    Threads

ASSUME ItemsAssumption == IsFiniteSet(Items) /\ Ghost \notin Items

VARIABLES
    outside,   \* the items the users have
    pc         \* where each thread is

Goto(t, l) == pc' = [pc EXCEPT ![t] = l]
=============================================================================
