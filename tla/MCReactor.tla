----------------------------- MODULE MCReactor -----------------------------
(* Reactor on a few clients.                                               *)
EXTENDS Reactor, TLC

Some == CHOOSE c \in Clients : TRUE

(* Requests per client: one each; one client that pipelines two faster     *)
(* than it reads, beside clients that send none but come and go; or one    *)
(* that sends none, beside clients that send one.                          *)
OneEach == [k \in Clients |-> 1]
OneBusy == [k \in Clients |-> IF k = Some THEN 2 ELSE 0]
OneSilent == [k \in Clients |-> IF k = Some THEN 0 ELSE 1]
=============================================================================
