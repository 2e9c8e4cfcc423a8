----------------------------- MODULE BlockQueue -----------------------------
(***************************************************************************)
(* The blocking queue of 11-11/BlockQueue/BlockQueue.hpp (the same class,  *)
(* with other spellings, is in 10-14/BlockQueue.hpp) under the endless     *)
(* producer and consumer threads of its main.cc.                           *)
(*                                                                         *)
(* One mutex guards the queue.  A producer that finds it full waits on the *)
(* condition variable _full, a consumer that finds it empty waits on       *)
(* _empty; each successful operation signals the other side once, before   *)
(* the lock guard releases the mutex.  What happens between lock and       *)
(* unlock or wait is visible to nobody else, so it is one step here.       *)
(***************************************************************************)
EXTENDS Naturals, Sequences, FiniteSets

CONSTANTS Producers, Consumers,  \* the threads main() creates
          Values, NoValue,       \* the tasks, and "no task"
          Capacity,              \* _capacity
          NoThread               \* the owner of a free mutex

ASSUME BlockQueueAssumption ==
  /\ Capacity \in Nat \ {0}
  /\ Producers \cap Consumers = {}
  /\ IsFiniteSet(Producers) /\ IsFiniteSet(Consumers)
  /\ NoThread \notin Producers \cup Consumers
  /\ NoValue \notin Values

VARIABLES
  bq,     \* _bq, oldest task first
  mtx,    \* the thread that holds _mtx, or NoThread
  empty,  \* threads blocked in pthread_cond_wait(&_empty, ..)
  full,   \* threads blocked in pthread_cond_wait(&_full, ..)
  pc,     \* where each thread is, see States
  arg,    \* arg[p]: the argument of p's push
  out     \* out[c]: what c's last pop stored through its pointer

vars == <<bq, mtx, empty, full, pc, arg, out>>

Threads == Producers \cup Consumers

(* "idle": between two calls.  "locking": needs the mutex, to enter or to  *)
(* come back from a wait.  "inside": holds it and is at the while test.    *)
(* "waiting": in pthread_cond_wait.                                        *)
States == {"idle", "locking", "inside", "waiting"}

Init ==
  /\ bq = <<>>
  /\ mtx = NoThread
  /\ empty = {} /\ full = {}
  /\ pc = [t \in Threads |-> "idle"]
  /\ arg = [p \in Producers |-> NoValue]
  /\ out = [c \in Consumers |-> NoValue]

(* Faulty variant: the test is off by one.                                 *)
isfullOffByOne == Len(bq) > Capacity

isfull  == Len(bq) = Capacity
isempty == Len(bq) = 0

(* The producer's loop makes a task and calls push with it.                *)
Produce(p, v) ==
  /\ pc[p] = "idle"
  /\ arg' = [arg EXCEPT ![p] = v]
  /\ pc' = [pc EXCEPT ![p] = "locking"]
  /\ UNCHANGED <<bq, mtx, empty, full, out>>

(* The consumer's loop calls pop.                                          *)
Consume(c) ==
  /\ pc[c] = "idle"
  /\ pc' = [pc EXCEPT ![c] = "locking"]
  /\ UNCHANGED <<bq, mtx, empty, full, arg, out>>

(* The mutex is granted, in no particular order.                           *)
Lock(t) ==
  /\ pc[t] = "locking"
  /\ mtx = NoThread
  /\ mtx' = t
  /\ pc' = [pc EXCEPT ![t] = "inside"]
  /\ UNCHANGED <<bq, empty, full, arg, out>>

(* while(isfull()) pthread_cond_wait(&_full,&_mtx)                         *)
PushWait(p) ==
  /\ pc[p] = "inside"
  /\ isfull
  /\ full' = full \cup {p}
  /\ pc' = [pc EXCEPT ![p] = "waiting"]
  /\ mtx' = NoThread
  /\ UNCHANGED <<bq, empty, arg, out>>

(* while(isempty()) pthread_cond_wait(&_empty,&_mtx)                       *)
PopWait(c) ==
  /\ pc[c] = "inside"
  /\ isempty
  /\ empty' = empty \cup {c}
  /\ pc' = [pc EXCEPT ![c] = "waiting"]
  /\ mtx' = NoThread
  /\ UNCHANGED <<bq, full, arg, out>>

(* The threads a pthread_cond_signal to the waiters ws may release: one of *)
(* them, none if nobody waits.                                             *)
Signalled(ws) == IF ws = {} THEN {{}} ELSE {{t} : t \in ws}

(* t returns to its caller and the threads of ws leave their wait.         *)
ReturnAndWake(t, ws) ==
  pc' = [u \in Threads |-> IF u = t THEN "idle"
                           ELSE IF u \in ws THEN "locking" ELSE pc[u]]

(* Faulty variants of the signals: only if the queue was empty, and to the *)
(* wrong condition variable.                                               *)
SignalEmptyIfEmpty(p) ==
  \E ws \in IF isempty THEN Signalled(empty) ELSE {{}} :
    empty' = empty \ ws /\ ReturnAndWake(p, ws) /\ UNCHANGED full
SignalFullWrong(c) ==
  \E ws \in Signalled(empty) :
    empty' = empty \ ws /\ ReturnAndWake(c, ws) /\ UNCHANGED full

(* pthread_cond_signal(&_empty), then unlock and return.                   *)
SignalEmpty(p) ==
  \E ws \in Signalled(empty) :
    empty' = empty \ ws /\ ReturnAndWake(p, ws) /\ UNCHANGED full

(* pthread_cond_signal(&_full), then unlock and return.                    *)
SignalFull(c) ==
  \E ws \in Signalled(full) :
    full' = full \ ws /\ ReturnAndWake(c, ws) /\ UNCHANGED empty

(* _bq.push(in)                                                            *)
Enqueue(p) ==
  bq' = Append(bq, arg[p]) /\ arg' = [arg EXCEPT ![p] = NoValue]

(* The rest of push: append, signal _empty, unlock.                        *)
PushBody(p) ==
  /\ pc[p] = "inside"
  /\ ~isfull
  /\ Enqueue(p)
  /\ SignalEmpty(p)
  /\ mtx' = NoThread
  /\ UNCHANGED out

(* The rest of pop: take the front, signal _full, unlock.                  *)
PopBody(c) ==
  /\ pc[c] = "inside"
  /\ ~isempty
  /\ out' = [out EXCEPT ![c] = Head(bq)]
  /\ bq' = Tail(bq)
  /\ SignalFull(c)
  /\ mtx' = NoThread
  /\ UNCHANGED arg

(* pthread_cond_wait may return although nobody signalled.                 *)
SpuriousWakeup(t) ==
  /\ t \in empty \cup full
  /\ empty' = empty \ {t}
  /\ full' = full \ {t}
  /\ pc' = [pc EXCEPT ![t] = "locking"]
  /\ UNCHANGED <<bq, mtx, arg, out>>

Push(p) == PushWait(p) \/ PushBody(p) \/ \E v \in Values : Produce(p, v)
Pop(c)  == PopWait(c) \/ PopBody(c) \/ Consume(c)

Next ==
  \/ \E p \in Producers : Push(p)
  \/ \E c \in Consumers : Pop(c)
  \/ \E t \in Threads : Lock(t) \/ SpuriousWakeup(t)

Spec == Init /\ [][Next]_vars

(* The threads loop for ever and the scheduler runs each of them.  Nothing *)
(* is assumed of which contender gets the mutex.  Spurious wakeups are     *)
(* allowed, but not without end: a thread that is spuriously woken again   *)
(* and again could keep the mutex busy for ever.                           *)
Fairness ==
  /\ \A p \in Producers : WF_vars(Push(p))
  /\ \A c \in Consumers : WF_vars(Pop(c))
  /\ \A t \in Threads : WF_vars(Lock(t))
  /\ <>[][~\E t \in Threads : SpuriousWakeup(t)]_vars

FairSpec == Spec /\ Fairness
-----------------------------------------------------------------------------
TypeOK ==
  /\ bq \in Seq(Values)
  /\ mtx \in Threads \cup {NoThread}
  /\ empty \subseteq Threads /\ full \subseteq Threads
  /\ pc \in [Threads -> States]
  /\ arg \in [Producers -> Values \cup {NoValue}]
  /\ out \in [Consumers -> Values \cup {NoValue}]

(* The strengthening that makes the properties below inductive: the thread *)
(* that is inside owns the mutex, each role waits on its own condition     *)
(* variable, and a producer has an argument exactly while it pushes.       *)
Consistent ==
  /\ \A t \in Threads : pc[t] = "inside" <=> mtx = t
  /\ empty = {c \in Consumers : pc[c] = "waiting"}
  /\ full = {p \in Producers : pc[p] = "waiting"}
  /\ \A p \in Producers : pc[p] = "idle" <=> arg[p] = NoValue
  /\ Len(bq) <= Capacity

(* Threads inside a call that are not blocked on a condition variable.     *)
Running(ts) == {t \in ts : pc[t] \in {"locking", "inside"}}

(* A signal is never lost to the consumers: as long as one of them sleeps  *)
(* on _empty, every task in the queue has a consumer that is awake and on  *)
(* its way to it, however wakeups are stolen or spurious (push signals     *)
(* _empty once per task, pop tests in a while loop).                       *)
NoLostConsumerWakeup ==
  empty # {} => Len(bq) <= Cardinality(Running(Consumers))

(* The same for the producers: as long as one sleeps on _full, every free  *)
(* place has a producer that is awake and on its way to it (pop signals    *)
(* _full once per task it removes).                                        *)
NoLostProducerWakeup ==
  full # {} => Capacity - Len(bq) <= Cardinality(Running(Producers))

NoLostWakeup == NoLostConsumerWakeup /\ NoLostProducerWakeup

(* The queue behaves as a bounded first-in first-out queue: push and pop   *)
(* take effect once, in one step, within the capacity.                     *)
Fifo == INSTANCE BoundedFifo WITH buf <- bq, offer <- arg, got <- out
ImplementsBoundedFifo == Fifo!Spec

(* Tasks keep flowing: pushes and pops complete again and again, whatever  *)
(* order the mutex is granted in.  Neither side stops for ever while the   *)
(* other sleeps on its condition variable.                                 *)
Flow ==
  /\ []<><<\E p \in Producers : PushBody(p)>>_vars
  /\ []<><<\E c \in Consumers : PopBody(c)>>_vars
=============================================================================
