---------------------------- MODULE MCPoolServer ----------------------------
(* PoolServer with as many workers as clients, one of which may be reset.  *)
EXTENDS PoolServer
=============================================================================
