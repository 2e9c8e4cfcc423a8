---------------------------- MODULE MCThreadPool ----------------------------
(* ThreadPool and its singleton with two workers and a pusher of each kind.*)
EXTENDS PoolProgram
=============================================================================
