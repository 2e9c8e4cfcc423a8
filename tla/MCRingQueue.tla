---------------------------- MODULE MCRingQueue ----------------------------
(* RingQueue with two threads on each side and three slots.                *)
EXTENDS RingQueue
=============================================================================
