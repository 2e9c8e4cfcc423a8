------------------------------ MODULE MCServers ------------------------------
(* Servers with small ints and texts.  An int has two bits: the requests    *)
(* hold the least one, the one quotient that does not fit, both zero        *)
(* divisors, a sum, a difference and a product that wrap, a quotient that   *)
(* is not the one rounded down, a negative remainder and an operator that   *)
(* does not exist.                                                          *)
EXTENDS Servers, Integers

Request(x, op, y) == [x |-> x, op |-> op, y |-> y]

SmallRequests ==
  {Request(-2, "/", -1), Request(1, "/", 0), Request(1, "%", 0),
   Request(1, "+", 1), Request(-2, "-", 1), Request(-2, "*", -1),
   Request(-1, "%", -2), Request(1, "/", -2), Request(1, "?", 1)}

SmallTexts == {<<>>, <<"a">>, <<"b", "a", "b">>}

\* One speaker's name leaves room for two characters, the others' for one.
SmallRoom == LET shortest == CHOOSE s \in Speakers : TRUE
             IN [s \in Speakers |-> IF s = shortest THEN 2 ELSE 1]
=============================================================================
