----------------------------- MODULE ThreadNames -----------------------------
(* 10-11/demo/mythread.cc: main prints the name of each thread into one     *)
(* buffer, creates the thread with the buffer as its argument and sleeps;   *)
(* the thread copies the name when it gets to run.  The sleep is any delay, *)
(* so the copy may come when main has printed other names, or while it      *)
(* prints one: snprintf empties the buffer before it fills it.              *)
EXTENDS Naturals

CONSTANT NameCount  \* 5, the threads that main creates

NamesAssumption == NameCount \in Nat \ {0}

VARIABLES nameMain,  \* where main is
          nameLoop,  \* i
          nameBuf,   \* the thread whose name is in the buffer, or Torn
          named      \* the name each thread has copied, or where it is

nameVars == <<nameMain, nameLoop, nameBuf, named>>

Named == 0..NameCount - 1
Torn == NameCount  \* empty, or partly one name and partly another
None == NameCount + 1
Created == NameCount + 2

\* The type invariant.
NamesTypeOK == /\ nameMain \in {"print", "printing", "create", "loop"}
               /\ nameLoop \in 0..NameCount
               /\ nameBuf \in Named \cup {Torn}
               /\ named \in [Named -> Named \cup {Torn, None, Created}]

NamesInit == /\ nameMain = "print" /\ nameLoop = 0
             /\ nameBuf = Torn
             /\ named = [i \in Named |-> None]

----------------------------------------------------------------------------
(* main *)

BeginName == /\ nameMain = "print"
             /\ nameBuf' = Torn
             /\ nameMain' = "printing"
             /\ UNCHANGED <<nameLoop, named>>

EndName == /\ nameMain = "printing"
           /\ nameBuf' = nameLoop
           /\ nameMain' = "create"
           /\ UNCHANGED <<nameLoop, named>>

\* pthread_create, whose failure is not looked at, and the sleep.
CreateNamed == /\ nameMain = "create"
               /\ named' \in {named, [named EXCEPT ![nameLoop] = Created]}
               /\ nameLoop' = nameLoop + 1
               /\ nameMain' = IF nameLoop' = NameCount THEN "loop" ELSE "print"
               /\ UNCHANGED nameBuf

----------------------------------------------------------------------------
(* threadRun: the copy; what follows is a loop that shows it.               *)

CopyName(i) == /\ named[i] = Created
               /\ named' = [named EXCEPT ![i] = nameBuf]
               /\ UNCHANGED <<nameMain, nameLoop, nameBuf>>

NamesNext == \/ BeginName \/ EndName \/ CreateNamed
             \/ \E i \in Named : CopyName(i)

NamesSpec == NamesInit /\ [][NamesNext]_nameVars

----------------------------------------------------------------------------

\* A thread shows its own name or that of one created after it, never that of
\* one created before; a torn name is possible as long as another was still to
\* come, so the last thread always has its own.
NamesFit == /\ \A i \in Named : named[i] \in Named => named[i] >= i
            /\ named[NameCount - 1] # Torn
=============================================================================
