---------------------------- MODULE MCBlockQueue ----------------------------
(* BlockQueue on the two producers and two consumers of its main.cc.       *)
EXTENDS BlockQueue
=============================================================================
