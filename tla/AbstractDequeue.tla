-------------------------- MODULE AbstractDequeue --------------------------
(***************************************************************************)
(* What the dequeue promises: chains of elements pushed and elements       *)
(* popped at either end of a sequence, each in one indivisible step.       *)
(***************************************************************************)
EXTENDS Naturals, Sequences, FiniteSets

CONSTANT Items

VARIABLES
    deque,      \* the elements queued, front first
    outside     \* the elements the users have

vars == <<deque, outside>>

Init == deque = <<>> /\ outside = Items

Elements(chain) == {chain[i] : i \in DOMAIN chain}

Push(chain) ==
    /\ Elements(chain) \subseteq outside
    /\ Cardinality(Elements(chain)) = Len(chain)
    /\ outside' = outside \ Elements(chain)
    /\ deque' = chain \o deque \/ deque' = deque \o chain

Pop ==
    /\ deque # <<>>
    /\ \/ /\ deque' = Tail(deque)
          /\ outside' = outside \cup {Head(deque)}
       \/ /\ deque' = SubSeq(deque, 1, Len(deque) - 1)
          /\ outside' = outside \cup {deque[Len(deque)]}

\* Chains of one or two elements stand for all.
Next == (\E a, b \in Items : Push(<<a>>) \/ Push(<<a, b>>)) \/ Pop

Spec == Init /\ [][Next]_vars
=============================================================================
