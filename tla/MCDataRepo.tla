---------------------------- MODULE MCDataRepo ----------------------------
(***************************************************************************)
(* Instances of DataRepo for TLC. The remote task "R" has two outputs that *)
(* arrive in two receptions of one key (ra, rb); "s" is a startup task.    *)
(* The tasks "x" and "y" take an input from both, so that either may run   *)
(* while the other producer still explores its successors.                 *)
(***************************************************************************)
EXTENDS DataRepo

MCLocal    == {"s", "x", "y", "z"}
MCReceipts == {"ra", "rb"}
MCKeys     == {"S", "R", "X", "Y", "Z"}
MCParams   == {1, 2}
MCKeyOf == [a \in MCLocal \cup MCReceipts |->
              CASE a = "s" -> "S" [] a = "x" -> "X" [] a = "y" -> "Y" [] a = "z" -> "Z"
                [] OTHER -> "R"]
MCIn == [t \in MCLocal |->
           CASE t = "s" -> <<>>
             [] t = "x" -> <<<<"R", 1>>, <<"S", 1>>>>
             [] t = "y" -> <<<<"S", 1>>, <<"R", 2>>>>
             [] t = "z" -> <<<<"X", 1>>, <<"X", 1>>, <<"Y", 1>>>>]
MCOut == [a \in MCLocal \cup MCReceipts |->
            CASE a = "s"  -> <<<<1, "x", 2>>, <<1, "y", 1>>>>
              [] a = "ra" -> <<<<1, "x", 1>>>>
              [] a = "rb" -> <<<<2, "y", 2>>>>
              [] a = "x"  -> <<<<1, "z", 1>>, <<1, "z", 2>>>>
              [] a = "y"  -> <<<<1, "z", 3>>>>
              [] OTHER    -> <<>>]
MCCarries == [t \in MCLocal |-> [p \in MCParams |->
                CASE t = "x" /\ p = 1 -> 1 [] t = "y" /\ p = 1 -> 2 [] OTHER -> 0]]

\* One output of the remote task goes to two local tasks, which only read it.
SharedOut == [a \in MCLocal \cup MCReceipts |->
                IF a = "ra" THEN <<<<1, "x", 1>>, <<1, "y", 2>>>>
                ELSE IF a = "rb" THEN <<>> ELSE MCOut[a]]
SharedIn  == [MCIn EXCEPT !["y"] = <<<<"S", 1>>, <<"R", 1>>>>]
SharedCarries == [t \in MCLocal |-> [p \in MCParams |-> 0]]
=============================================================================
