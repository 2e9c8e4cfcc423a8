------------------------------ MODULE MCNetCal ------------------------------
(* NetCal with a client that types sums. *)
EXTENDS NetCal

Sums == {[x |-> x, op |-> "+", y |-> 1] : x \in 0..1}
=============================================================================
