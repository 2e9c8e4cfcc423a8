--------------------------- MODULE PoolSingleton ---------------------------
(***************************************************************************)
(* ThreadPool::getThreadPool of 10-21/ThreadPool/threadPool.hpp and        *)
(* 10-16/ThreadPool/threadPool.hpp: the pool is created by the first       *)
(* caller, with a test before and a test after the lock.  Each caller      *)
(* makes one call.  The unlocked read of thread_ptr is a data race; the    *)
(* build reads and writes the pointer in one access, and the pointer is    *)
(* stored after the constructor, whose calls the compiler cannot see into. *)
(***************************************************************************)
EXTENDS Naturals, FiniteSets

CONSTANTS Callers,  \* threads that ask for the pool
          Null,     \* nullptr
          Num       \* num_, the number of workers to create

VARIABLES
  thread_ptr,  \* Null or the pool, named for the caller that made it
  threads_,    \* threads_[c]: workers created in the pool that c makes
  mutex,       \* the caller that holds mutex, or Null
  pc,          \* where each caller is
  pool         \* pool[c]: what getThreadPool returned to c

vars == <<thread_ptr, threads_, mutex, pc, pool>>

Init ==
  /\ thread_ptr = Null /\ mutex = Null
  /\ threads_ = [c \in Callers |-> 0]
  /\ pc = [c \in Callers |-> "call"]
  /\ pool = [c \in Callers |-> Null]

Goto(c, there) == pc' = [pc EXCEPT ![c] = there]

(* if (nullptr == thread_ptr), without the lock                            *)
FirstTest(c) ==
  /\ pc[c] = "call"
  /\ Goto(c, IF thread_ptr = Null THEN "lock" ELSE "return")
  /\ UNCHANGED <<thread_ptr, threads_, mutex, pool>>

Lock(c) ==
  /\ pc[c] = "lock" /\ mutex = Null
  /\ mutex' = c /\ Goto(c, "test")
  /\ UNCHANGED <<thread_ptr, threads_, pool>>

(* if (nullptr == thread_ptr), under the lock                              *)
SecondTestNone(c) ==                   \* faulty: the second test is left out
  /\ pc[c] = "test" /\ Goto(c, "construct")
  /\ UNCHANGED <<thread_ptr, threads_, mutex, pool>>
SecondTest(c) ==
  /\ pc[c] = "test"
  /\ Goto(c, IF thread_ptr = Null THEN "construct" ELSE "unlock")
  /\ UNCHANGED <<thread_ptr, threads_, mutex, pool>>

(* The constructor's loop: one worker more.                                *)
Construct(c) ==
  /\ pc[c] = "construct" /\ threads_[c] < Num
  /\ threads_' = [threads_ EXCEPT ![c] = @ + 1]
  /\ UNCHANGED <<thread_ptr, mutex, pc, pool>>

(* thread_ptr = new ThreadPool(num): the pointer is stored last.           *)
PublishEarly(c) ==                     \* faulty: stored before it is complete
  /\ pc[c] = "construct"
  /\ thread_ptr' = c
  /\ IF threads_[c] = Num THEN Goto(c, "unlock") ELSE UNCHANGED pc
  /\ UNCHANGED <<threads_, mutex, pool>>
Publish(c) ==
  /\ pc[c] = "construct" /\ threads_[c] = Num
  /\ thread_ptr' = c
  /\ Goto(c, "unlock")
  /\ UNCHANGED <<threads_, mutex, pool>>

(* The lock guard goes out of scope.                                       *)
UnlockNone(c) ==                       \* faulty: returns with the lock held
  /\ pc[c] = "unlock" /\ Goto(c, "return")
  /\ UNCHANGED <<thread_ptr, threads_, mutex, pool>>
Unlock(c) ==
  /\ pc[c] = "unlock" /\ Goto(c, "return")
  /\ mutex' = Null
  /\ UNCHANGED <<thread_ptr, threads_, pool>>

Return(c) ==
  /\ pc[c] = "return" /\ Goto(c, "done")
  /\ pool' = [pool EXCEPT ![c] = thread_ptr]
  /\ UNCHANGED <<thread_ptr, threads_, mutex>>

Step(c) == \/ FirstTest(c) \/ Lock(c) \/ SecondTest(c) \/ Construct(c)
           \/ Publish(c) \/ Unlock(c) \/ Return(c)

-----------------------------------------------------------------------------
(* All callers share one pool, however their calls overlap, and get it     *)
(* only after its constructor has ended, also those that took the path     *)
(* without the lock.                                                       *)
OnePool ==
  \E d \in Callers : \A c \in Callers :
    pc[c] = "done" => pool[c] = d /\ threads_[d] = Num

(* Every caller gets its pool.                                             *)
CallsReturn == <>(\A c \in Callers : pc[c] = "done")
=============================================================================
