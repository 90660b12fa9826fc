-------------------------- MODULE AbstractBarrier --------------------------
(***************************************************************************)
(* What a reusable barrier promises: a thread that has arrived goes on     *)
(* only when every thread has arrived as often as it has.                  *)
(***************************************************************************)
EXTENDS Naturals

CONSTANT Threads

VARIABLES
    bar,      \* number of arrivals of each thread
    inside    \* threads that have arrived and have not gone on

vars == <<bar, inside>>

Released(t) == \A u \in Threads : bar[u] >= bar[t]

Init ==
    /\ bar = [t \in Threads |-> 0]
    /\ inside = {}

Arrive(t) ==
    /\ t \notin inside
    /\ bar' = [bar EXCEPT ![t] = @ + 1]
    /\ inside' = inside \cup {t}

Leave(t) ==
    /\ t \in inside
    /\ Released(t)
    /\ inside' = inside \ {t}
    /\ UNCHANGED bar

Next == \E t \in Threads : Arrive(t) \/ Leave(t)

Spec == Init /\ [][Next]_vars
=============================================================================
