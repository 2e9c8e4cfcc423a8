------------------------------ MODULE Exercises ------------------------------
(* Four programs that fork one child: `program' is "fill" (10-1/pipe, the   *)
(* child writes to a pipe that nobody reads), "poll" (9-11, the parent asks *)
(* with WNOHANG), "trap" (10-7, the child divides by zero) or "handler"     *)
(* (10-10, the parent reaps in a handler of SIGCHLD and never ends).        *)
(* Sleeps are any delay; fork() may fail.                                   *)
EXTENDS Naturals

CONSTANT PipeBytes  \* bytes that the pipe holds before write() blocks

ExercisesAssumption == PipeBytes \in Nat \ {0}

VARIABLES program,     \* which program it is, or another
          parentAt,    \* where the parent is
          childAt,     \* where its child is
          pipeBytes,   \* the bytes in the pipe
          readEnd,     \* whether the parent holds the pipe's read end
          handled,     \* whether SIGCHLD has a handler
          pending      \* whether the parent has a SIGCHLD to handle

exerciseVars == <<parentAt, childAt, pipeBytes, readEnd, handled, pending>>

\* The type invariant.
ExerciseTypeOK ==
  /\ parentAt \in {"start", "fork", "wait", "sleep", "spin", "handler", "exit"}
  /\ childAt \in {"none", "run", "zombie", "reaped"}
  /\ pipeBytes \in 0..PipeBytes
  /\ \A flag \in {readEnd, handled, pending} : flag \in BOOLEAN

ExerciseInit == /\ parentAt = "start" /\ childAt = "none"
                /\ pipeBytes = 0 /\ readEnd = FALSE
                /\ handled = FALSE /\ pending = FALSE

----------------------------------------------------------------------------
(* The parent *)

\* pipe() in "fill", which ends if that fails; signal() in "handler".
Prepare == /\ parentAt = "start"
           /\ \/ parentAt' = "fork" /\ readEnd' = (program = "fill")
              \/ program = "fill" /\ parentAt' = "exit" /\ readEnd' = FALSE
           /\ handled' = (program = "handler")
           /\ UNCHANGED <<childAt, pipeBytes, pending>>

ForkOne == /\ parentAt = "fork"
           /\ childAt' \in {"none", "run"}
           /\ parentAt' = IF program = "handler" THEN "spin" ELSE "wait"
           /\ UNCHANGED <<pipeBytes, readEnd, handled, pending>>

\* waitpid() without WNOHANG, or WNOHANG that finds the child: the parent goes
\* on, and ends.  Without a child it is told so.
Reap == /\ parentAt = "wait" /\ childAt \in {"none", "zombie"}
        /\ childAt' = IF childAt = "zombie" THEN "reaped" ELSE childAt
        /\ parentAt' = "exit" /\ readEnd' = FALSE
        /\ UNCHANGED <<pipeBytes, handled, pending>>

\* WNOHANG, too early: the parent does other things and asks again.
AskAgain == /\ program = "poll" /\ parentAt = "wait" /\ childAt = "run"
            /\ parentAt' = "sleep"
            /\ UNCHANGED <<childAt, pipeBytes, readEnd, handled, pending>>

DoOtherThings == /\ parentAt = "sleep"
                 /\ parentAt' = "wait"
                 /\ UNCHANGED <<childAt, pipeBytes, readEnd, handled, pending>>

----------------------------------------------------------------------------
(* The handler of "handler" *)

EnterHandler == /\ parentAt = "spin" /\ pending
                /\ parentAt' = "handler" /\ pending' = FALSE
                /\ UNCHANGED <<childAt, pipeBytes, readEnd, handled>>

\* while (waitpid(-1, NULL, WNOHANG) > 0).
Handler == /\ parentAt = "handler"
           /\ IF childAt = "zombie"
              THEN childAt' = "reaped" /\ UNCHANGED parentAt
              ELSE parentAt' = "spin" /\ UNCHANGED childAt
           /\ UNCHANGED <<pipeBytes, readEnd, handled, pending>>

----------------------------------------------------------------------------
(* The child *)

WriteByte == /\ program = "fill" /\ childAt = "run" /\ pipeBytes < PipeBytes
             /\ readEnd
             /\ pipeBytes' = pipeBytes + 1
             /\ UNCHANGED <<parentAt, childAt, readEnd, handled, pending>>

\* exit() or the signal of the division; SIGCHLD is lost on a parent without a
\* handler.
ChildEnds == /\ program # "fill" /\ childAt = "run"
             /\ childAt' = "zombie" /\ pending' = handled
             /\ UNCHANGED <<parentAt, pipeBytes, readEnd, handled>>

----------------------------------------------------------------------------

ExerciseStep == \/ Prepare \/ ForkOne \/ Reap \/ AskAgain \/ DoOtherThings
                \/ EnterHandler \/ Handler
ExerciseChildStep == WriteByte \/ ChildEnds
ExerciseNext == ExerciseStep \/ ExerciseChildStep

ExerciseSpec == /\ ExerciseInit
                /\ program \in {"fill", "poll", "trap", "handler"}
                /\ [][ExerciseNext /\ UNCHANGED program]_<<program, exerciseVars>>
                /\ WF_exerciseVars(ExerciseStep)
                /\ WF_exerciseVars(ExerciseChildStep)

----------------------------------------------------------------------------

\* Every child that ends is reaped: by the parent that waits or polls, and by
\* the handler though it and the child's end may come at any moment; only the
\* child that fills the pipe never ends, for the parent keeps the read end
\* open while it waits, and both wait for ever.
ChildrenReaped ==
  /\ childAt = "run" ~> (childAt = "reaped" \/ program = "fill")
  /\ (program = "fill" /\ childAt = "run") ~>
       [](pipeBytes = PipeBytes /\ childAt = "run" /\ parentAt = "wait")
=============================================================================
