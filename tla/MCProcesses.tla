----------------------------- MODULE MCProcesses -----------------------------
(* Processes with three lines for each kind of shell command: words alone,  *)
(* one operator of each kind, two operators, >> with a blank before the     *)
(* name, exports of two names with and without a value, and lines that are   *)
(* blank or empty.                                                           *)
EXTENDS Processes, TLC

SomeLines ==
  {<<>>, <<" ">>, <<"ls">>, <<"cd", " ", "d">>, <<"ls", " ", "-a", ">", "f">>,
   <<"ls", ">", ">", " ", "f">>, <<"wc", "<", "f", ">", "g">>,
   <<"wc", " ", ">", "g", "<", "f">>, <<"export">>, <<"export", " ", "A=1">>,
   <<"export", " ", "B=1">>, <<"export", " ", "B=2">>, <<"export", " ", "A">>,
   <<"export", " ", "B">>}

SomeEnvironment == <<"A=0", "C=0">>

NameTable == ("empty" :> "empty" @@ "A=0" :> "A" @@ "A=1" :> "A" @@ "B=1" :> "B"
              @@ "B=2" :> "B" @@ "C=0" :> "C" @@ "A" :> "empty"
              @@ "B" :> "empty")
=============================================================================
