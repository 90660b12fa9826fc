----------------------------- MODULE ReadyList -----------------------------
(***************************************************************************)
(* The list of ready tasks a release builds before it hands them to the    *)
(* scheduler: the circular list of dague_execution_context_t that          *)
(* dague_list_add_single_elem_by_priority (include/dague.h) inserts into.  *)
(* A list is the sequence of its elements, read from the head.             *)
(***************************************************************************)
EXTENDS Naturals, Sequences, FiniteSets

\* The elements the scan goes past: those from the head on that have a higher
\* priority than the element to insert.
Passed(list, elem, priority) ==
    Cardinality({i \in DOMAIN list : \A k \in 1..i : priority[list[k]] > priority[elem]})

InsertAfter(list, n, elem) == SubSeq(list, 1, n) \o <<elem>> \o SubSeq(list, n + 1, Len(list))

\* Two mistakes the properties must find: the head pointer never moves; the
\* element the scan stops at is dropped.
AddBehindHead(list, elem, priority) == Append(list, elem)
AddReplacing(list, elem, priority) ==
    LET n == Passed(list, elem, priority)
    IN  SubSeq(list, 1, n) \o <<elem>> \o SubSeq(list, n + 2, Len(list))

\* One insertion, before the element the scan stops at. "Before the head" is
\* the end of the ring unless the head pointer moves too, which it does only
\* for a priority strictly higher than the head's.
AddByPriority(list, elem, priority) ==
    LET n == Passed(list, elem, priority)
    IN  IF n > 0 THEN InsertAfter(list, n, elem)
        ELSE IF list # <<>> /\ priority[list[1]] < priority[elem] THEN <<elem>> \o list
        ELSE Append(list, elem)
=============================================================================
