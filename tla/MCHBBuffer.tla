----------------------------- MODULE MCHBBuffer -----------------------------
(***************************************************************************)
(* An instance of HBBuffer for TLC: two sockets of one core, buffers the   *)
(* startup list overfills, a task that makes two others ready while the    *)
(* buffer of its thread is still occupied, one task from another node.     *)
(***************************************************************************)
EXTENDS HBBuffer

MCCores == <<"core0", "core1">>
MCParent == [o \in {"core0", "core1", "socket0", "socket1", "machine"} |->
                CASE o = "core0" -> "socket0" [] o = "core1" -> "socket1"
                  [] o = "machine" -> Null [] OTHER -> "machine"]
MCTasks == {"a", "b", "c", "d", "e", "r"}
MCSpawns == [t \in MCTasks |-> IF t = "a" THEN <<"d", "e">> ELSE <<>>]
MCStartup == <<"a", "b", "c">>
MCReceived == <<<<"r">>>>
MCRank == [t \in MCTasks |-> CASE t = "c" -> 3 [] t \in {"b", "d"} -> 2 [] OTHER -> 1]
=============================================================================
