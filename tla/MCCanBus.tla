------------------------------- MODULE MCCanBus -------------------------------
(* A node with its ID and one more parameter, and images of two and a half   *)
(* chunks, of two whole chunks, and of a part of one.                        *)
EXTENDS CanBus

MCNames == <<"CAN_NODE", "X">>
Set(n) == [name |-> n, value |-> 1]
MCBatches == {<<>>, <<Set("X")>>, <<Set("CAN_NODE"), Set("X")>>}
MCImages == {[name |-> "odd", full |-> 2, tail |-> 1], [name |-> "even", full |-> 2, tail |-> 0],
             [name |-> "small", full |-> 0, tail |-> 1]}
==============================================================================
