---------------------------- MODULE AbstractLifo ----------------------------
(***************************************************************************)
(* What a concurrent LIFO promises: a push puts a chain of elements on top *)
(* in one indivisible step and a pop takes the top element in another, so  *)
(* an element is on the stack or outside, never both and never twice.      *)
(***************************************************************************)
EXTENDS Sequences, FiniteSets

CONSTANT Items

VARIABLES
    stack,      \* the elements on the stack, top first
    outside     \* the elements the users have

vars == <<stack, outside>>

Init == stack = <<>> /\ outside = Items

\* A chain of distinct elements that are outside.
Push(chain) ==
    /\ {chain[i] : i \in DOMAIN chain} \subseteq outside
    /\ Cardinality({chain[i] : i \in DOMAIN chain}) = Len(chain)
    /\ stack' = chain \o stack
    /\ outside' = outside \ {chain[i] : i \in DOMAIN chain}

Pop ==
    /\ stack # <<>>
    /\ stack' = Tail(stack)
    /\ outside' = outside \cup {Head(stack)}

\* Chains of one or two elements are enough for the users of the LIFO.
Next == (\E a, b \in Items : Push(<<a>>) \/ Push(<<a, b>>)) \/ Pop

Spec == Init /\ [][Next]_vars
=============================================================================
