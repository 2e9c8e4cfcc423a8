------------------------------- MODULE Tickets -------------------------------
(* 10-12/pthread_mutex.cc: threads sell the tickets of one counter under a  *)
(* mutex that lives on main's stack.  The sleeps are any delay, and threads *)
(* can be created as long as main wants some.                               *)
EXTENDS Naturals, Sequences

CONSTANTS THREAD_NUM,
          InitialTickets  \* what tickets starts with

TicketsAssumption == THREAD_NUM \in Nat \ {0} /\ InitialTickets \in Nat

VARIABLES saleMain,  \* where main is
          saleLoop,  \* i, in either of its loops
          seller,    \* where each thread is
          mtx,       \* the owner of the mutex, NoOwner or Destroyed
          tickets,   \* the counter
          printed    \* the numbers that were printed, in their order

saleVars == <<saleMain, saleLoop, seller, mtx, tickets, printed>>

Sellers == 1..THREAD_NUM
NoOwner == 0
Destroyed == THREAD_NUM + 1

\* The type invariant.
SaleTypeOK ==
  /\ saleMain \in {"init", "create", "join", "destroy", "exit"}
  /\ saleLoop \in 0..THREAD_NUM
  /\ seller \in [Sellers -> {"none", "lock", "check", "print", "drop", "sold",
                             "empty", "ended"}]
  /\ mtx \in 0..THREAD_NUM + 1
  /\ tickets \in 0..InitialTickets
  /\ Len(printed) <= InitialTickets /\ printed \in Seq(1..InitialTickets)

SaleInit == /\ saleMain = "init" /\ saleLoop = 0
            /\ seller = [t \in Sellers |-> "none"]
            /\ mtx = NoOwner /\ tickets = InitialTickets /\ printed = <<>>

----------------------------------------------------------------------------
(* main *)

InitMutex == /\ saleMain = "init"
             /\ saleMain' = "create"
             /\ UNCHANGED <<saleLoop, seller, mtx, tickets, printed>>

Turn(i) == IF i + 1 = THREAD_NUM THEN 0 ELSE i + 1
Last(i) == i + 1 = THREAD_NUM

CreateSeller == /\ saleMain = "create"
                /\ seller' = [seller EXCEPT ![saleLoop + 1] = "lock"]
                /\ saleLoop' = Turn(saleLoop)
                /\ saleMain' = IF Last(saleLoop) THEN "join" ELSE "create"
                /\ UNCHANGED <<mtx, tickets, printed>>

JoinSeller == /\ saleMain = "join" /\ seller[saleLoop + 1] = "ended"
              /\ saleLoop' = Turn(saleLoop)
              /\ saleMain' = IF Last(saleLoop) THEN "destroy" ELSE "join"
              /\ UNCHANGED <<seller, mtx, tickets, printed>>

DestroyMutex == /\ saleMain = "destroy"
                /\ saleMain' = "exit" /\ mtx' = Destroyed
                /\ UNCHANGED <<saleLoop, seller, tickets, printed>>

----------------------------------------------------------------------------
(* getTickets *)

\* Mutant of LockMutex: the thread does not wait.
LockMutexAny(t) == /\ seller[t] = "lock"
                   /\ seller' = [seller EXCEPT ![t] = "check"]
                   /\ mtx' = t
                   /\ UNCHANGED <<saleMain, saleLoop, tickets, printed>>

LockMutex(t) == /\ seller[t] = "lock" /\ mtx = NoOwner
                /\ seller' = [seller EXCEPT ![t] = "check"]
                /\ mtx' = t
                /\ UNCHANGED <<saleMain, saleLoop, tickets, printed>>

CheckTickets(t) == /\ seller[t] = "check"
                   /\ seller' = [seller EXCEPT ![t] = IF tickets > 0 THEN "print"
                                                   ELSE "empty"]
                   /\ UNCHANGED <<saleMain, saleLoop, mtx, tickets, printed>>

PrintTicket(t) == /\ seller[t] = "print"
                  /\ seller' = [seller EXCEPT ![t] = "drop"]
                  /\ printed' = Append(printed, tickets)
                  /\ UNCHANGED <<saleMain, saleLoop, mtx, tickets>>

DropTicket(t) == /\ seller[t] = "drop"
                 /\ seller' = [seller EXCEPT ![t] = "sold"]
                 /\ tickets' = tickets - 1
                 /\ UNCHANGED <<saleMain, saleLoop, mtx, printed>>

UnlockMutex(t) == /\ seller[t] \in {"sold", "empty"}
                  /\ seller' = [seller EXCEPT ![t] = IF @ = "sold" THEN "lock"
                                                  ELSE "ended"]
                  /\ mtx' = NoOwner
                  /\ UNCHANGED <<saleMain, saleLoop, tickets, printed>>

----------------------------------------------------------------------------

SaleMainStep == InitMutex \/ CreateSeller \/ JoinSeller \/ DestroyMutex
SellerStep(t) == \/ LockMutex(t) \/ CheckTickets(t) \/ PrintTicket(t)
                 \/ DropTicket(t) \/ UnlockMutex(t)

SaleNext == SaleMainStep \/ \E t \in Sellers : SellerStep(t)

SaleSpec == /\ SaleInit /\ [][SaleNext]_saleVars
            /\ WF_saleVars(SaleMainStep)
            /\ \A t \in Sellers : WF_saleVars(SellerStep(t))

----------------------------------------------------------------------------

\* The numbers come out from the first to the last, each once, whoever sells
\* it; all of them when the mutex is destroyed, and nobody is at the mutex then.
SoldOnce ==
  /\ \A i \in 1..Len(printed) : printed[i] = InitialTickets + 1 - i
  /\ saleMain = "exit" => /\ Len(printed) = InitialTickets
                          /\ \A t \in Sellers : seller[t] = "ended"

\* The sale comes to its end, though the mutex is not fair and main waits for
\* the threads one by one.
SaleEnds == saleMain = "create" ~> saleMain = "exit"
=============================================================================
