---------------------------- MODULE MCChatServer ----------------------------
(* ChatServer with three users and a queue of two messages. *)
EXTENDS ChatServer
=============================================================================
