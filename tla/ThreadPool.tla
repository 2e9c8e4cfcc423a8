----------------------------- MODULE ThreadPool -----------------------------
(***************************************************************************)
(* The thread pools of 10-21/ThreadPool and 10-16/ThreadPool               *)
(* (threadPool.hpp) and of importent-code/PthreadPool (threadpool.hpp).    *)
(* Workers take tasks from one unbounded queue under one mutex and sleep   *)
(* on one condition variable while it is empty; a task runs outside the    *)
(* mutex.  The pools differ in when push signals: the first two do it      *)
(* before they release the mutex, the third after.                         *)
(***************************************************************************)
EXTENDS Naturals, Sequences, FiniteSets

CONSTANTS Pushers,      \* threads that call pushTask
          Workers,      \* the threads of the pool
          Tasks,        \* bound: the tasks in the system at one time
          NoTask,       \* no task
          NoThread,     \* the owner of a free mutex
          Early         \* pushers that signal before they release the mutex:
                        \* all of a pool's, or none of them

ASSUME ThreadPoolAssumption ==
  /\ Pushers \cap Workers = {}
  /\ IsFiniteSet(Pushers) /\ IsFiniteSet(Workers) /\ IsFiniteSet(Tasks)
  /\ NoThread \notin Pushers \cup Workers
  /\ NoTask \notin Tasks
  /\ Early \subseteq Pushers

VARIABLES
  task_queue,  \* task_queue_, oldest task first
  lock,        \* the thread that holds the mutex, or NoThread
  cond,        \* the workers blocked in pthread_cond_wait
  pc,          \* where each thread is, see States
  arg,         \* arg[p]: the argument of p's pushTask
  task         \* task[w]: the task that w took last

vars == <<task_queue, lock, cond, pc, arg, task>>

Threads == Pushers \cup Workers

(* "idle": outside of pushTask.  "locking": needs the mutex.  "inside":    *)
(* holds it.  "signal": has released it and is about to signal.            *)
(* "waiting": in pthread_cond_wait.  "run": runs its task.                 *)
States == {"idle", "locking", "inside", "signal", "waiting", "run"}

(* run() creates the workers, whose routine begins with the lock.          *)
Init ==
  /\ task_queue = <<>>
  /\ lock = NoThread
  /\ cond = {}
  /\ pc = [t \in Threads |-> IF t \in Workers THEN "locking" ELSE "idle"]
  /\ arg = [p \in Pushers |-> NoTask]
  /\ task = [w \in Workers |-> NoTask]

Queued == {task_queue[i] : i \in DOMAIN task_queue}
Running == {task[w] : w \in {v \in Workers : pc[v] = "run"}}
Offered == {arg[p] : p \in Pushers} \ {NoTask}

(* A task that is not in the system is made, and pushTask called with it.  *)
Make(p, t) ==
  /\ pc[p] = "idle"
  /\ t \notin Queued \cup Running \cup Offered
  /\ arg' = [arg EXCEPT ![p] = t]
  /\ pc' = [pc EXCEPT ![p] = "locking"]
  /\ UNCHANGED <<task_queue, lock, cond, task>>

Lock(t) ==
  /\ pc[t] = "locking" /\ lock = NoThread
  /\ lock' = t
  /\ pc' = [pc EXCEPT ![t] = "inside"]
  /\ UNCHANGED <<task_queue, cond, arg, task>>

(* What a pthread_cond_signal may release: one waiter, if there is one.    *)
Signalled == IF cond = {} THEN {{}} ELSE {{w} : w \in cond}

(* p goes on at there and the workers of ws leave their wait.              *)
Wake(p, there, ws) ==
  /\ cond' = cond \ ws
  /\ pc' = [t \in Threads |-> IF t = p THEN there
                              ELSE IF t \in ws THEN "locking" ELSE pc[t]]

(* Faulty variant: only the push into an empty queue signals.              *)
SignalIfEmpty(p, there) ==
  \E ws \in IF task_queue = <<>> THEN Signalled ELSE {{}} : Wake(p, there, ws)
(* pthread_cond_signal(&cond)                                              *)
Signal(p, there) == \E ws \in Signalled : Wake(p, there, ws)

(* task_queue_.push(task)                                                  *)
Enqueue(p) ==
  task_queue' = Append(task_queue, arg[p]) /\ arg' = [arg EXCEPT ![p] = NoTask]

(* pushTask under the mutex: append, signal if it is done here, unlock.    *)
Push(p) ==
  /\ pc[p] = "inside" /\ p \in Pushers
  /\ Enqueue(p)
  /\ lock' = NoThread
  /\ IF p \in Early THEN Signal(p, "idle") ELSE Wake(p, "signal", {})
  /\ UNCHANGED task

(* Wakeup() after unLockQ()                                                *)
WakeupNone(p) ==                       \* faulty: the signal is left out
  /\ pc[p] = "signal" /\ Wake(p, "idle", {})
  /\ UNCHANGED <<task_queue, lock, arg, task>>
Wakeup(p) ==
  /\ pc[p] = "signal" /\ Signal(p, "idle")
  /\ UNCHANGED <<task_queue, lock, arg, task>>

(* while(isEmpty()) waitCond()                                             *)
WaitCond(w) ==
  /\ pc[w] = "inside" /\ task_queue = <<>>
  /\ cond' = cond \cup {w}
  /\ pc' = [pc EXCEPT ![w] = "waiting"]
  /\ lock' = NoThread
  /\ UNCHANGED <<task_queue, arg, task>>

(* Faulty variant: the newest task is removed instead of the oldest.       *)
PopBack == task_queue' = SubSeq(task_queue, 1, Len(task_queue) - 1)
(* task_queue_.pop()                                                       *)
PopFront == task_queue' = Tail(task_queue)

(* getTask, then the guard releases the mutex.                             *)
GetTask(w) ==
  /\ pc[w] = "inside" /\ task_queue # <<>>
  /\ task' = [task EXCEPT ![w] = Head(task_queue)]
  /\ PopFront
  /\ pc' = [pc EXCEPT ![w] = "run"]
  /\ lock' = NoThread
  /\ UNCHANGED <<cond, arg>>

(* task(td->name_) returns and the loop starts over.                       *)
Finish(w) ==
  /\ pc[w] = "run"
  /\ pc' = [pc EXCEPT ![w] = "locking"]
  /\ UNCHANGED <<task_queue, lock, cond, arg, task>>

SpuriousWakeup(w) ==
  /\ w \in cond
  /\ Wake(NoThread, "idle", {w})
  /\ UNCHANGED <<task_queue, lock, arg, task>>

PusherStep(p) == Push(p) \/ Wakeup(p)
WorkerStep(w) == WaitCond(w) \/ GetTask(w) \/ Finish(w)

Next ==
  \/ \E p \in Pushers : PusherStep(p) \/ \E t \in Tasks : Make(p, t)
  \/ \E w \in Workers : WorkerStep(w) \/ SpuriousWakeup(w)
  \/ \E t \in Threads : Lock(t)

Spec == Init /\ [][Next]_vars
-----------------------------------------------------------------------------
TypeOK ==
  /\ task_queue \in Seq(Tasks)
  /\ lock \in Threads \cup {NoThread}
  /\ cond \subseteq Workers
  /\ pc \in [Threads -> States]
  /\ arg \in [Pushers -> Tasks \cup {NoTask}]
  /\ task \in [Workers -> Tasks \cup {NoTask}]

(* The mutex excludes, the sleepers are those the condition variable knows *)
(* of, and a thread has a task exactly when it is on its way with it.      *)
Consistent ==
  /\ \A t \in Threads : pc[t] = "inside" <=> lock = t
  /\ cond = {w \in Workers : pc[w] = "waiting"}
  /\ \A p \in Pushers : /\ pc[p] \notin {"waiting", "run"}
                        /\ arg[p] = NoTask <=> pc[p] \in {"idle", "signal"}
  /\ \A w \in Workers : /\ pc[w] \notin {"idle", "signal"}
                        /\ pc[w] = "run" => task[w] # NoTask

(* As long as a worker sleeps, every queued task has a worker that is      *)
(* awake and on its way to it, or a pusher that has yet to signal: a       *)
(* wakeup stolen by a busy worker, or sent after the unlock, is not lost.  *)
Awake == {w \in Workers : pc[w] \in {"locking", "inside"}}
Signalling == {p \in Pushers : pc[p] = "signal"}
NoLostWakeup ==
  cond # {} => Len(task_queue) <= Cardinality(Awake) + Cardinality(Signalling)

(* A task is in one place at a time: offered by one pusher, once in the    *)
(* queue, or run by one worker.                                            *)
RunOnce ==
  /\ \A i, j \in DOMAIN task_queue : task_queue[i] = task_queue[j] => i = j
  /\ \A v, w \in Workers :
       pc[v] = "run" /\ pc[w] = "run" /\ task[v] = task[w] => v = w
  /\ \A p, q \in Pushers : arg[p] = arg[q] /\ arg[p] # NoTask => p = q
  /\ Queued \cap Running = {} /\ Offered \cap (Queued \cup Running) = {}

(* The pool hands the tasks to its workers in the order they were pushed,  *)
(* each once: it is a first-in first-out queue that never is full.         *)
Fifo == INSTANCE BoundedFifo
          WITH Producers <- Pushers, Consumers <- Workers, Values <- Tasks,
               NoValue <- NoTask, Capacity <- Cardinality(Tasks),
               buf <- task_queue, offer <- arg, got <- task
ImplementsFifo == Fifo!Spec

(* A queued task is run, if the pushes ever pause for good: no worker is   *)
(* left asleep beside a task and none loses the mutex to the other workers *)
(* for ever.  While pushes go on without end nothing is promised, since    *)
(* the mutex is not fair and the queue is unbounded.                       *)
PushesEndless == []<><<\E p \in Pushers : Push(p)>>_vars
TasksRun == PushesEndless \/ \A t \in Tasks : t \in Queued ~> t \in Running
=============================================================================
