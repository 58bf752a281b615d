---------------------------- MODULE MCBootLoader ----------------------------
(* Two application images and two of the network core, one of them in       *)
(* internal flash, in slots of two sectors.                                 *)
EXTENDS BootLoader

MCChunks == [net |-> << "a", "b", "c" >>, int |-> << "d", "e" >>]
=============================================================================
