---------------------------- MODULE MCPcdUpdate ----------------------------
(* Two releases of the network core's firmware that differ in their last    *)
(* chunk only, and a third that differs in all.                             *)
EXTENDS PcdUpdate

MCChunks == [r1 |-> << "a", "b", "c" >>, r2 |-> << "a", "b", "d" >>,
             r3 |-> << "e", "f", "g" >>, in |-> << "h", "i" >>]
=============================================================================
