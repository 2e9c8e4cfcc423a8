---------------------------- MODULE PoolProgram ----------------------------
(***************************************************************************)
(* ThreadPool behind its singleton, as 10-16/ThreadPool/testMain.cc and    *)
(* TcpServer of 10-21 use it: each pusher gets the pool from getThreadPool *)
(* before it pushes, and the workers exist once the pool has been made and *)
(* run() called.                                                           *)
(***************************************************************************)
EXTENDS ThreadPool

(* main, or the acceptor of TcpServer, asks for the pool.                  *)
ASSUME PoolProgramAssumption == Pushers # {}

VARIABLES thread_ptr, threads_, mutex, at, pool

getVars == <<thread_ptr, threads_, mutex, at, pool>>

Get == INSTANCE PoolSingleton
         WITH Callers <- Pushers, Null <- NoThread, Num <- Cardinality(Workers),
              pc <- at

ProgramInit == Init /\ Get!Init

GetThreadPool(p) == Get!Step(p) /\ UNCHANGED vars

(* pushTask needs the pool that getThreadPool returned.                    *)
PushTask(p, t) == at[p] = "done" /\ Make(p, t) /\ UNCHANGED getVars

(* The steps of the pool's own threads, once run() has started them.       *)
Started == \E p \in Pushers : at[p] = "done"
RunLock(t) == Started /\ Lock(t) /\ UNCHANGED getVars
RunPusher(p) == PusherStep(p) /\ UNCHANGED getVars
RunWorker(w) == Started /\ WorkerStep(w) /\ UNCHANGED getVars
RunSpurious(w) == SpuriousWakeup(w) /\ UNCHANGED getVars

ProgramNext ==
  \/ \E p \in Pushers : \/ GetThreadPool(p) \/ RunPusher(p)
                        \/ \E t \in Tasks : PushTask(p, t)
  \/ \E w \in Workers : RunWorker(w) \/ RunSpurious(w)
  \/ \E t \in Threads : RunLock(t)

programVars == <<vars, getVars>>

(* Every thread is scheduled and every task ends.  Nothing makes a pusher  *)
(* push, and nothing is assumed of who gets a mutex that several want.     *)
(* Spurious wakeups do not go on for ever.                                 *)
ProgramSpec ==
  /\ ProgramInit /\ [][ProgramNext]_programVars
  /\ \A p \in Pushers : WF_programVars(GetThreadPool(p)) /\ WF_programVars(RunPusher(p))
  /\ \A w \in Workers : WF_programVars(RunWorker(w))
  /\ \A t \in Threads : WF_programVars(RunLock(t))
  /\ <>[][~\E w \in Workers : RunSpurious(w)]_programVars
-----------------------------------------------------------------------------
(* All pushers share one pool, however their calls overlap, and get it     *)
(* only after its constructor has ended, also those that took the path     *)
(* without the lock.                                                       *)
OnePool == Get!OnePool

(* Every pusher gets its pool.                                             *)
CallsReturn == Get!CallsReturn
=============================================================================
