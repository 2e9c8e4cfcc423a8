------------------------------ MODULE Processes ------------------------------
(* The programs of one machine: processes, threads, pipes, FIFOs, shared    *)
(* memory.  The initial state chooses the program that runs, and only its   *)
(* component moves; every other one stays in its own initial state.         *)
(*                                                                          *)
(* "pool" is ProcessPool, "page" SharedPage, "fifo" FifoServer, "sale"      *)
(* Tickets, "names" ThreadNames; the others are those of Shells and of      *)
(* Exercises.                                                               *)
EXTENDS ProcessPool

CONSTANTS MaxServers, MaxTokens,       \* SharedPage
          Nums, PipeSize,              \* FifoServer
          THREAD_NUM, InitialTickets,  \* Tickets
          NameCount,                   \* ThreadNames
          Lines, Inherited, NameOf,    \* Shells
          PipeBytes                    \* Exercises

VARIABLES program,
          shmServer, shmRun, shmKey, fifoName, pages, tokens, shmClient,
          cPage, cFifo, cutOff, aborted,
          fifoParent, fifoLoop, fifoChild, fifoExists, fifoData, writer, unread,
          saleMain, saleLoop, seller, mtx, tickets, printed,
          nameMain, nameLoop, nameBuf, named,
          shellAt, cmdLine, gArgv, redirStatus, sep, gMyval, environ,
          lastExport, exported, shellChild,
          parentAt, childAt, pipeBytes, readEnd, handled, pending

Shm == INSTANCE SharedPage
Fifo == INSTANCE FifoServer
Sale == INSTANCE Tickets
Names == INSTANCE ThreadNames
Sh == INSTANCE Shells
Ex == INSTANCE Exercises

ASSUME ProcessesAssumption ==
  /\ Shm!PageAssumption /\ Fifo!FifoAssumption /\ Sale!TicketsAssumption
  /\ Names!NamesAssumption /\ Sh!ShellsAssumption /\ Ex!ExercisesAssumption

ShellPrograms == {"minshell", "myshell", "redirshell"}
ExercisePrograms == {"fill", "poll", "trap", "handler"}
Programs == {"pool", "page", "fifo", "sale", "names"} \cup ShellPrograms
              \cup ExercisePrograms

poolVars == vars
pageVars == <<shmServer, shmRun, shmKey, fifoName, pages, tokens, shmClient,
              cPage, cFifo, cutOff, aborted>>
fifoVars == <<fifoParent, fifoLoop, fifoChild, fifoExists, fifoData, writer,
              unread>>
saleVars == <<saleMain, saleLoop, seller, mtx, tickets, printed>>
nameVars == <<nameMain, nameLoop, nameBuf, named>>
shellVars == <<shellAt, cmdLine, gArgv, redirStatus, sep, gMyval, environ,
               lastExport, exported, shellChild>>
exerciseVars == <<parentAt, childAt, pipeBytes, readEnd, handled, pending>>
processesVars == <<program, poolVars, pageVars, fifoVars, saleVars, nameVars,
                   shellVars, exerciseVars>>

\* The type invariants of all components.
TypesOK == /\ program \in Programs /\ TypeOK
           /\ Shm!PageTypeOK /\ Fifo!FifoTypeOK /\ Sale!SaleTypeOK
           /\ Names!NamesTypeOK /\ Sh!ShellTypeOK /\ Ex!ExerciseTypeOK

ProcessesInit == /\ program \in Programs
                 /\ Init /\ Shm!PageInit /\ Fifo!FifoInit /\ Sale!SaleInit
                 /\ Names!NamesInit /\ Sh!ShellInit /\ Ex!ExerciseInit

----------------------------------------------------------------------------

\* One disjunct for each component; what does not run stays as it is.
ProcessesNext ==
  \/ /\ program = "pool" /\ Next
     /\ UNCHANGED <<program, pageVars, fifoVars, saleVars, nameVars, shellVars,
                    exerciseVars>>
  \/ /\ program = "page" /\ Shm!PageNext
     /\ UNCHANGED <<program, poolVars, fifoVars, saleVars, nameVars, shellVars,
                    exerciseVars>>
  \/ /\ program = "fifo" /\ Fifo!FifoNext
     /\ UNCHANGED <<program, poolVars, pageVars, saleVars, nameVars, shellVars,
                    exerciseVars>>
  \/ /\ program = "sale" /\ Sale!SaleNext
     /\ UNCHANGED <<program, poolVars, pageVars, fifoVars, nameVars, shellVars,
                    exerciseVars>>
  \/ /\ program = "names" /\ Names!NamesNext
     /\ UNCHANGED <<program, poolVars, pageVars, fifoVars, saleVars, shellVars,
                    exerciseVars>>
  \/ /\ program \in ShellPrograms /\ Sh!ShellNext
     /\ UNCHANGED <<program, poolVars, pageVars, fifoVars, saleVars, nameVars,
                    exerciseVars>>
  \/ /\ program \in ExercisePrograms /\ Ex!ExerciseNext
     /\ UNCHANGED <<program, poolVars, pageVars, fifoVars, saleVars, nameVars, shellVars>>

\* Each component that runs has the fairness of its own specification.
Fairness ==
  /\ WF_poolVars(program = "pool" /\ ParentStep)
  /\ \A k \in Children : WF_poolVars(program = "pool" /\ ChildStep(k))
  /\ WF_pageVars(program = "page" /\ Shm!PageServerStep)
  /\ WF_pageVars(program = "page" /\ Shm!PageClientStep)
  /\ WF_fifoVars(program = "fifo" /\ Fifo!FifoParentStep)
  /\ \A r \in Fifo!Readers :
       WF_fifoVars(program = "fifo" /\ Fifo!FifoChildStep(r))
  /\ WF_saleVars(program = "sale" /\ Sale!SaleMainStep)
  /\ \A t \in Sale!Sellers : WF_saleVars(program = "sale" /\ Sale!SellerStep(t))
  /\ WF_shellVars(program \in ShellPrograms /\ Sh!ShellStep)
  /\ WF_shellVars(program \in ShellPrograms /\ Sh!ShellChildStep)
  /\ WF_exerciseVars(program \in ExercisePrograms /\ Ex!ExerciseStep)
  /\ WF_exerciseVars(program \in ExercisePrograms /\ Ex!ExerciseChildStep)

ProcessesSpec == ProcessesInit /\ [][ProcessesNext]_processesVars /\ Fairness

----------------------------------------------------------------------------

\* The shared memory server aborts only when its client was cut off from it.
AbortsOnlyIfCutOff == Shm!AbortsOnlyIfCutOff

\* Threads that share a counter or a buffer: each ticket is sold once, and no
\* thread takes the name of one before it.
ThreadsRight == Sale!SoldOnce /\ Names!NamesFit

\* A shell's command runs with the latest export and with the redirection of
\* the last operator of its own line.
RunsWithLatest == Sh!RunsWithLatest

\* Nobody waits for ever, in the way and with the exceptions that each
\* component states: the pool's processes, the shared memory server that was
\* told to quit, the FIFO's server without clients, the ticket sale, a shell
\* whose command ended, and the children of the exercises.
NobodyWaits == /\ NobodyHangs
               /\ Shm!QuitEndsServer
               /\ Fifo!FifoServed
               /\ Sale!SaleEnds
               /\ Sh!PromptsAgain
               /\ Ex!ChildrenReaped
=============================================================================
