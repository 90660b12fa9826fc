---------------------------- MODULE MCScheduling ----------------------------
(***************************************************************************)
(* An instance of Scheduling for TLC. The first object has a task that     *)
(* releases three others, more than a placeholder holds, which race to     *)
(* complete the last one; it also reads one input from memory. The second  *)
(* object holds a task without successors. Priorities and the high         *)
(* priority class differ so that every insertion order and both ends of    *)
(* the dequeues are used.                                                  *)
(***************************************************************************)
EXTENDS Scheduling

MCTasks == {"a", "b", "c", "x", "d", "e"}
MCFlows == {"A", "B", "C", "M"}
MCObjectOf == [t \in MCTasks |-> IF t = "e" THEN 2 ELSE 1]
MCGoal == [t \in MCTasks |-> CASE t = "d" -> {"A", "B", "C", "M"}
                               [] t = "c" -> {"A", "M"}
                               [] t \in {"b", "x"} -> {"A"}
                               [] OTHER   -> {"M"}]
MCDirect == [t \in MCTasks |-> IF t \in {"b", "x"} THEN {} ELSE {"M"}]
MCOut == [t \in MCTasks |-> CASE t = "a" -> <<<<"b", "A">>, <<"c", "A">>, <<"x", "A">>>>
                              [] t = "b" -> <<<<"d", "A">>>>
                              [] t = "c" -> <<<<"d", "B">>>>
                              [] t = "x" -> <<<<"d", "C">>>>
                              [] OTHER   -> <<>>]
MCStartup == <<<<"a">>, <<"e">>>>
MCPriority == [t \in MCTasks |-> IF t = "c" THEN 2 ELSE 1]
MCHigh == {"c", "e"}
=============================================================================
