---------------------------- MODULE MCRemoteDep ----------------------------
(***************************************************************************)
(* Instances of RemoteDep for TLC. In the first, node 0 runs "a", whose    *)
(* output 0 goes to both nodes and output 3 to node 1 only, and "b" and    *)
(* "e", each with one output for node 1. The only task of node 1 waits for *)
(* all of them: it gets three activations, one of them for two outputs,    *)
(* and node 0 three requests, with two slots for each kind, so the last    *)
(* message may find both in use. "c" passes a received chunk back to node  *)
(* 0, where "d" joins it with a local input. The descriptor of "b" comes   *)
(* back to the free list of node 0, for "a", for "e" or for the reception  *)
(* of the output of "c".                                                   *)
(***************************************************************************)
EXTENDS RemoteDep

Nothing == [k \in 0..4 |-> {}]

MCTasks == {"a", "b", "c", "d", "e"}
MCRank == [t \in MCTasks |-> IF t = "c" THEN 1 ELSE 0]
MCOut == [t \in MCTasks |->
            CASE t = "a" -> [Nothing EXCEPT ![0] = {"c", "d", "e"}, ![3] = {"c"}]
              [] t = "b" -> [Nothing EXCEPT ![0] = {"c"}]
              [] t = "e" -> [Nothing EXCEPT ![0] = {"c"}]
              [] t = "c" -> [Nothing EXCEPT ![0] = {"d"}]
              [] OTHER   -> Nothing]
MCReceived == {<<"c", 0>>}

\* Here "b" and the task "f" it feeds on node 1 have nothing to do with "a" and
\* "c", and "f" passes its chunk back too: its descriptor is free again while
\* node 1 still receives output 0 of "a", which two nodes need.
BackTasks == {"a", "b", "c", "d", "f"}
BackRank == [t \in BackTasks |-> IF t \in {"c", "f"} THEN 1 ELSE 0]
BackOut == [t \in BackTasks |->
            CASE t = "a" -> [Nothing EXCEPT ![0] = {"c", "d"}, ![3] = {"c"}]
              [] t = "b" -> [Nothing EXCEPT ![0] = {"f"}]
              [] t \in {"c", "f"} -> [Nothing EXCEPT ![0] = {"d"}]
              [] OTHER   -> Nothing]
BackReceived == {<<"c", 0>>, <<"f", 0>>}
=============================================================================
