-------------------------- MODULE ThreadPoolProofs --------------------------
(***************************************************************************)
(* Proofs about ThreadPool for any finite number of threads and tasks, for *)
(* the pools that signal under the mutex and the one that signals after:   *)
(* no wakeup is lost, no task is run twice at a time, and the pool is a    *)
(* first-in first-out queue that is never full.  The program that gets its *)
(* pool from the singleton runs that pool, and its callers share it.       *)
(***************************************************************************)
EXTENDS PoolProgram, TLAPS, FiniteSetTheorems

Inv == TypeOK /\ Consistent

(* Wake moves thread p and the workers of ws, and nobody else.             *)
LEMMA SignalledWakes ==
  ASSUME NEW ws \in Signalled
  PROVE  /\ ws \subseteq cond
         /\ cond # {} => \E w \in cond : ws = {w}
BY DEF Signalled

(* The three ways a push ends: it signals, or leaves that to Wakeup.       *)
LEMMA PushWakes ==
  ASSUME NEW p, Push(p)
  PROVE  \E ws \in Signalled \cup {{}} :
           /\ ws # {} \/ cond = {} \/ p \notin Early
           /\ Wake(p, IF p \in Early THEN "idle" ELSE "signal", ws)
           /\ p \notin Early => ws = {}
<1>1. CASE p \in Early
  <2>1. PICK ws \in Signalled : Wake(p, "idle", ws)
    BY <1>1 DEF Push, Signal
  <2>2. ws # {} \/ cond = {}
    BY SignalledWakes
  <2> QED
    BY <1>1, <2>1, <2>2
<1>2. CASE p \notin Early
  BY <1>2 DEF Push
<1> QED
  BY <1>1, <1>2

LEMMA InitInv == Init => Inv
<1> SUFFICES ASSUME Init PROVE Inv
  OBVIOUS
<1> USE ThreadPoolAssumption DEF Init, Threads, States
<1>1. TypeOK
  BY DEF TypeOK
<1>2. Consistent
  BY DEF Consistent
<1> QED
  BY <1>1, <1>2 DEF Inv

(* Every step of every thread preserves the invariant.                     *)
LEMMA NextInv == Inv /\ [Next]_vars => Inv'
<1> SUFFICES ASSUME Inv, [Next]_vars PROVE Inv'
  OBVIOUS
<1> USE ThreadPoolAssumption DEF Threads, States
<1> USE DEF Inv, TypeOK, Consistent
<1>1. ASSUME NEW p \in Pushers, NEW t \in Tasks, Make(p, t) PROVE Inv'
  BY <1>1 DEF Make
<1>2. ASSUME NEW t \in Threads, Lock(t) PROVE Inv'
  BY <1>2 DEF Lock
<1>3. ASSUME NEW p \in Pushers, Push(p) PROVE Inv'
  <2> DEFINE there == IF p \in Early THEN "idle" ELSE "signal"
  <2>1. PICK ws \in Signalled \cup {{}} : Wake(p, there, ws)
    BY <1>3, PushWakes
  <2>2. ws \subseteq cond
    BY <2>1, SignalledWakes
  <2>3. arg[p] \in Tasks /\ task_queue' \in Seq(Tasks)
    BY <1>3 DEF Push, Enqueue
  <2>4. /\ lock = p /\ lock' = NoThread /\ cond' = cond \ ws /\ task' = task
        /\ arg' = [arg EXCEPT ![p] = NoTask]
        /\ pc' = [t \in Threads |-> IF t = p THEN there
                                    ELSE IF t \in ws THEN "locking" ELSE pc[t]]
    BY <1>3, <2>1 DEF Push, Enqueue, Wake
  <2> HIDE DEF there
  <2>5. there \in {"idle", "signal"}
    BY DEF there
  <2>6. TypeOK'
    BY <2>2, <2>3, <2>4, <2>5
  <2>7. Consistent'
    BY <2>2, <2>4, <2>5
  <2> QED
    BY <2>6, <2>7
<1>4. ASSUME NEW p \in Pushers, Wakeup(p) PROVE Inv'
  <2>1. PICK ws \in Signalled : Wake(p, "idle", ws)
    BY <1>4 DEF Wakeup, Signal
  <2>2. ws \subseteq cond
    BY SignalledWakes
  <2> QED
    BY <1>4, <2>1, <2>2 DEF Wakeup, Wake
<1>5. ASSUME NEW w \in Workers, WaitCond(w) PROVE Inv'
  BY <1>5 DEF WaitCond
<1>6. ASSUME NEW w \in Workers, GetTask(w) PROVE Inv'
  <2>1. Head(task_queue) \in Tasks /\ task_queue' \in Seq(Tasks)
    BY <1>6 DEF GetTask, PopFront
  <2> QED
    BY <1>6, <2>1 DEF GetTask
<1>7. ASSUME NEW w \in Workers, Finish(w) PROVE Inv'
  BY <1>7 DEF Finish
<1>8. ASSUME NEW w \in Workers, SpuriousWakeup(w) PROVE Inv'
  BY <1>8 DEF SpuriousWakeup, Wake
<1>9. CASE UNCHANGED vars
  BY <1>9 DEF vars
<1> QED
  BY <1>1, <1>2, <1>3, <1>4, <1>5, <1>6, <1>7, <1>8, <1>9
  DEF Next, PusherStep, WorkerStep

(* Every reachable state is well typed and consistent.                     *)
THEOREM Invariance == Spec => []Inv
BY InitInv, NextInv, PTL DEF Spec

(* The thread pool is well typed.                                          *)
THEOREM TypeCorrect == Spec => []TypeOK
BY Invariance, PTL DEF Inv
-----------------------------------------------------------------------------
(* The workers awake and the pushers that signal, together: who answers    *)
(* for the queued tasks.                                                   *)
Heading == Awake \cup Signalling

HeadingCounted ==
  /\ IsFiniteSet(Heading) /\ Cardinality(Heading) \in Nat
  /\ Cardinality(Heading) = Cardinality(Awake) + Cardinality(Signalling)

LEMMA HeadingCount == Inv => HeadingCounted
<1> SUFFICES ASSUME Inv PROVE HeadingCounted
  OBVIOUS
<1>1. IsFiniteSet(Awake) /\ IsFiniteSet(Signalling)
  BY ThreadPoolAssumption, FS_Subset DEF Awake, Signalling
<1>2. Cardinality(Awake \cap Signalling) = 0
  <2>1. Awake \cap Signalling = {}
    BY ThreadPoolAssumption DEF Awake, Signalling
  <2> QED
    BY <2>1, FS_EmptySet
<1>3. Cardinality(Awake) \in Nat /\ Cardinality(Signalling) \in Nat
  BY <1>1, FS_CardinalityType
<1>4. /\ IsFiniteSet(Heading)
      /\ Cardinality(Heading) =
           Cardinality(Awake) + Cardinality(Signalling) - Cardinality(Awake \cap Signalling)
  BY <1>1, FS_Union DEF Heading
<1> QED
  BY <1>2, <1>3, <1>4 DEF HeadingCounted

LEMMA OneMore ==
  ASSUME NEW S, IsFiniteSet(S), NEW x, x \notin S
  PROVE  Cardinality(S \cup {x}) = Cardinality(S) + 1
BY FS_AddElement

LEMMA OneFewer ==
  ASSUME NEW S, IsFiniteSet(S), NEW x \in S
  PROVE  Cardinality(S \ {x}) = Cardinality(S) - 1
BY FS_RemoveElement

(* No step takes from a sleeping worker a signal that it needed.           *)
LEMMA NextWakeup == Inv /\ Inv' /\ NoLostWakeup /\ [Next]_vars => NoLostWakeup'
<1>0. Inv' => HeadingCounted'
  BY HeadingCount, PTL
<1> SUFFICES ASSUME Inv, Inv', NoLostWakeup, [Next]_vars, cond' # {}
             PROVE  Len(task_queue') <= Cardinality(Heading')
  BY <1>0 DEF NoLostWakeup, HeadingCounted
<1> DEFINE H == Heading
<1> USE ThreadPoolAssumption DEF Threads, States, Inv, TypeOK, Consistent
<1>1. /\ IsFiniteSet(H) /\ Cardinality(H) \in Nat /\ Len(task_queue) \in Nat
      /\ Len(task_queue') \in Nat
      /\ cond # {} => Len(task_queue) <= Cardinality(H)
  BY HeadingCount DEF NoLostWakeup, HeadingCounted
<1>2. ASSUME NEW t \in H, H' = H \ {t}
      PROVE  Cardinality(H') = Cardinality(H) - 1
  BY <1>1, <1>2, OneFewer
<1>3. ASSUME NEW t, t \notin H, H' = H \cup {t}
      PROVE  Cardinality(H') = Cardinality(H) + 1
  BY <1>1, <1>3, OneMore
<1> USE DEF Heading, Awake, Signalling
<1>4. ASSUME NEW p \in Pushers, NEW t \in Tasks, Make(p, t)
      PROVE  Len(task_queue') <= Cardinality(H')
  <2>1. H' = H /\ cond' = cond /\ task_queue' = task_queue
    BY <1>4 DEF Make
  <2> QED
    BY <1>1, <2>1
<1>5. ASSUME NEW t \in Threads, Lock(t)
      PROVE  Len(task_queue') <= Cardinality(H')
  <2>1. H' = H /\ cond' = cond /\ task_queue' = task_queue
    BY <1>5 DEF Lock
  <2> QED
    BY <1>1, <2>1
<1>6. ASSUME NEW p \in Pushers, Push(p)
      PROVE  Len(task_queue') <= Cardinality(H')
  <2> DEFINE there == IF p \in Early THEN "idle" ELSE "signal"
  <2>1. PICK ws \in Signalled \cup {{}} :
           /\ ws # {} \/ cond = {} \/ p \notin Early
           /\ Wake(p, there, ws)
           /\ p \notin Early => ws = {}
    BY <1>6, PushWakes
  <2>2. Len(task_queue') = Len(task_queue) + 1
    BY <1>6 DEF Push, Enqueue
  <2>3. cond # {} /\ cond' = cond \ ws
    BY <2>1 DEF Wake
  <2>4. CASE p \in Early
    <3>1. PICK w \in cond : ws = {w}
      BY <2>1, <2>3, <2>4, SignalledWakes
    <3>2. H' = H \cup {w} /\ w \notin H
      BY <1>6, <2>1, <2>4, <3>1 DEF Push, Wake
    <3> QED
      BY <1>1, <1>3, <2>2, <2>3, <3>2
  <2>5. CASE p \notin Early
    <3>1. H' = H \cup {p} /\ p \notin H
      BY <1>6, <2>1, <2>5 DEF Push, Wake
    <3> QED
      BY <1>1, <1>3, <2>2, <2>3, <3>1
  <2> QED
    BY <2>4, <2>5
<1>7. ASSUME NEW p \in Pushers, Wakeup(p)
      PROVE  Len(task_queue') <= Cardinality(H')
  <2>1. PICK ws \in Signalled : Wake(p, "idle", ws)
    BY <1>7 DEF Wakeup, Signal
  <2>2. cond # {} /\ task_queue' = task_queue
    BY <1>7, <2>1 DEF Wakeup, Wake
  <2>3. PICK w \in cond : ws = {w}
    BY <2>2, SignalledWakes
  <2>4. p \in H /\ w \notin H /\ w # p
    BY <1>7, <2>3 DEF Wakeup
  <2>5. H' = (H \ {p}) \cup {w}
    BY <1>7, <2>1, <2>3 DEF Wakeup, Wake
  <2> HIDE DEF H
  <2>6. IsFiniteSet(H \ {p}) /\ w \notin H \ {p}
    BY <1>1, <2>4, FS_RemoveElement
  <2>7. Cardinality(H \ {p}) = Cardinality(H) - 1
    BY <1>1, <2>4, OneFewer
  <2>8. Cardinality((H \ {p}) \cup {w}) = Cardinality(H \ {p}) + 1
    BY <2>6, OneMore
  <2> QED
    BY <1>1, <2>2, <2>5, <2>7, <2>8
<1>8. ASSUME NEW w \in Workers, WaitCond(w)
      PROVE  Len(task_queue') <= Cardinality(H')
  <2>1. Len(task_queue') = 0
    BY <1>8 DEF WaitCond
  <2>2. HeadingCounted'
    BY <1>0
  <2>3. Cardinality(H') \in Nat
    BY <2>2 DEF HeadingCounted
  <2> QED
    BY <2>1, <2>3
<1>9. ASSUME NEW w \in Workers, GetTask(w)
      PROVE  Len(task_queue') <= Cardinality(H')
  <2>1. Len(task_queue') = Len(task_queue) - 1 /\ cond' = cond
    BY <1>9 DEF GetTask, PopFront
  <2>2. H' = H \ {w} /\ w \in H
    BY <1>9 DEF GetTask
  <2> QED
    BY <1>1, <1>2, <2>1, <2>2
<1>10. ASSUME NEW w \in Workers, Finish(w)
       PROVE  Len(task_queue') <= Cardinality(H')
  <2>1. H' = H \cup {w} /\ w \notin H /\ cond' = cond /\ task_queue' = task_queue
    BY <1>10 DEF Finish
  <2> QED
    BY <1>1, <1>3, <2>1
<1>11. ASSUME NEW w \in Workers, SpuriousWakeup(w)
       PROVE  Len(task_queue') <= Cardinality(H')
  <2>1. H' = H \cup {w} /\ w \notin H /\ cond # {} /\ task_queue' = task_queue
    BY <1>11 DEF SpuriousWakeup, Wake
  <2> QED
    BY <1>1, <1>3, <2>1
<1>12. CASE UNCHANGED vars
  <2>1. H' = H /\ cond' = cond /\ task_queue' = task_queue
    BY <1>12 DEF vars
  <2> QED
    BY <1>1, <2>1
<1> QED
  BY <1>4, <1>5, <1>6, <1>7, <1>8, <1>9, <1>10, <1>11, <1>12
  DEF Next, PusherStep, WorkerStep

(* While a worker sleeps, every queued task has somebody on the way to it, *)
(* whether push signals before it releases the mutex or after.             *)
THEOREM Wakeups == Spec => []NoLostWakeup
<1>1. Init => NoLostWakeup
  BY DEF Init, NoLostWakeup
<1> QED
  BY <1>1, Invariance, NextWakeup, PTL DEF Spec
-----------------------------------------------------------------------------
(* RunOnce, place by place.                                                *)
Apart ==
  /\ \A i, j \in 1..Len(task_queue) : task_queue[i] = task_queue[j] => i = j
  /\ \A v, w \in Workers :
       pc[v] = "run" /\ pc[w] = "run" /\ task[v] = task[w] => v = w
  /\ \A p, q \in Pushers : arg[p] = arg[q] /\ arg[p] # NoTask => p = q
  /\ \A i \in 1..Len(task_queue), w \in Workers :
       pc[w] = "run" => task_queue[i] # task[w]
  /\ \A i \in 1..Len(task_queue), p \in Pushers : task_queue[i] # arg[p]
  /\ \A p \in Pushers, w \in Workers :
       pc[w] = "run" /\ arg[p] # NoTask => arg[p] # task[w]

LEMMA ApartIsRunOnce == Inv => (Apart <=> RunOnce)
<1> SUFFICES ASSUME Inv PROVE Apart <=> RunOnce
  OBVIOUS
<1>1. /\ DOMAIN task_queue = 1..Len(task_queue)
      /\ \A i \in 1..Len(task_queue) : task_queue[i] # NoTask
  BY ThreadPoolAssumption DEF Inv, TypeOK
<1>2. Queued \cap Running = {} <=>
        \A i \in 1..Len(task_queue), w \in Workers :
          pc[w] = "run" => task_queue[i] # task[w]
  BY <1>1 DEF Queued, Running
<1>3. Offered \cap Queued = {} <=>
        \A i \in 1..Len(task_queue), p \in Pushers : task_queue[i] # arg[p]
  BY <1>1 DEF Queued, Offered
<1>4. Offered \cap Running = {} <=>
        \A p \in Pushers, w \in Workers :
          pc[w] = "run" /\ arg[p] # NoTask => arg[p] # task[w]
  BY DEF Running, Offered
<1>5. Offered \cap (Queued \cup Running) = {} <=>
        Offered \cap Queued = {} /\ Offered \cap Running = {}
  OBVIOUS
<1> QED
  BY <1>1, <1>2, <1>3, <1>4, <1>5 DEF Apart, RunOnce

(* No step puts a task in two places.                                      *)
LEMMA NextApart == Inv /\ Apart /\ [Next]_vars => Apart'
<1> SUFFICES ASSUME Inv, Apart, [Next]_vars PROVE Apart'
  OBVIOUS
<1> USE ThreadPoolAssumption DEF Threads, States, Inv, TypeOK, Consistent
<1>1. ASSUME NEW p \in Pushers, NEW t \in Tasks, Make(p, t) PROVE Apart'
  <2>1. /\ \A i \in 1..Len(task_queue) : task_queue[i] # t
        /\ \A w \in Workers : pc[w] = "run" => task[w] # t
        /\ \A q \in Pushers : arg[q] # t
    BY <1>1 DEF Make, Queued, Running, Offered
  <2>2. /\ task_queue' = task_queue /\ task' = task
        /\ \A q \in Pushers : arg'[q] = IF q = p THEN t ELSE arg[q]
        /\ \A w \in Workers : pc'[w] = pc[w]
    BY <1>1 DEF Make
  <2> QED
    BY <2>1, <2>2 DEF Apart
<1>2. ASSUME task_queue' = task_queue, task' = task, arg' = arg,
             \A w \in Workers : pc'[w] = "run" => pc[w] = "run"
      PROVE  Apart'
  BY <1>2 DEF Apart
<1>3. ASSUME NEW t \in Threads, Lock(t) PROVE Apart'
  BY <1>2, <1>3 DEF Lock
<1>4. ASSUME NEW p \in Pushers, Push(p) PROVE Apart'
  <2>1. /\ arg[p] # NoTask /\ task' = task
        /\ \A q \in Pushers : arg'[q] = IF q = p THEN NoTask ELSE arg[q]
        /\ \A w \in Workers : pc'[w] = "run" => pc[w] = "run"
    <3>1. \A w \in Workers : pc'[w] = "run" => pc[w] = "run"
      BY <1>4, PushWakes DEF Wake
    <3> QED
      BY <1>4, <3>1 DEF Push, Enqueue
  <2>2. /\ Len(task_queue') = Len(task_queue) + 1
        /\ \A i \in 1..Len(task_queue) : task_queue'[i] = task_queue[i]
        /\ task_queue'[Len(task_queue) + 1] = arg[p]
    BY <1>4 DEF Push, Enqueue
  <2>3. /\ \A i \in 1..Len(task_queue') :
             task_queue'[i] = IF i = Len(task_queue) + 1 THEN arg[p] ELSE task_queue[i]
        /\ \A i \in 1..Len(task_queue') :
             i # Len(task_queue) + 1 => i \in 1..Len(task_queue)
        /\ \A i \in 1..Len(task_queue) : task_queue[i] \in Tasks
    BY <2>2
  <2> QED
    BY <2>1, <2>3 DEF Apart
<1>5. ASSUME NEW p \in Pushers, Wakeup(p) PROVE Apart'
  <2>1. PICK ws \in Signalled : Wake(p, "idle", ws)
    BY <1>5 DEF Wakeup, Signal
  <2> QED
    BY <1>2, <1>5, <2>1 DEF Wakeup, Wake
<1>6. ASSUME NEW w \in Workers, WaitCond(w) PROVE Apart'
  BY <1>2, <1>6 DEF WaitCond
<1>7. ASSUME NEW w \in Workers, GetTask(w) PROVE Apart'
  <2>1. /\ arg' = arg
        /\ \A v \in Workers : task'[v] = IF v = w THEN task_queue[1] ELSE task[v]
        /\ \A v \in Workers : pc'[v] = IF v = w THEN "run" ELSE pc[v]
    BY <1>7 DEF GetTask
  <2>2. /\ Len(task_queue') = Len(task_queue) - 1 /\ 1 \in 1..Len(task_queue)
        /\ \A i \in 1..Len(task_queue') :
             task_queue'[i] = task_queue[i + 1] /\ i + 1 \in 1..Len(task_queue)
    BY <1>7 DEF GetTask, PopFront
  <2>3. \A i, j \in 1..Len(task_queue') : i + 1 = j + 1 => i = j
    BY <2>2
  <2>4. \A i \in 1..Len(task_queue') : i + 1 # 1
    BY <2>2
  <2>5. \A i, j \in 1..Len(task_queue') : task_queue'[i] = task_queue'[j] => i = j
    BY <2>2, <2>3 DEF Apart
  <2>6. \A u, v \in Workers :
          pc'[u] = "run" /\ pc'[v] = "run" /\ task'[u] = task'[v] => u = v
    BY <2>1, <2>2 DEF Apart
  <2>7. \A i \in 1..Len(task_queue'), v \in Workers :
          pc'[v] = "run" => task_queue'[i] # task'[v]
    <3>1. \A i \in 1..Len(task_queue') : task_queue[i + 1] # task_queue[1]
      BY <2>2, <2>4 DEF Apart
    <3> QED
      BY <2>1, <2>2, <3>1 DEF Apart
  <2>8. \A i \in 1..Len(task_queue'), p \in Pushers : task_queue'[i] # arg'[p]
    BY <2>1, <2>2 DEF Apart
  <2>9. \A p \in Pushers, v \in Workers :
          pc'[v] = "run" /\ arg'[p] # NoTask => arg'[p] # task'[v]
    BY <2>1, <2>2 DEF Apart
  <2> QED
    BY <2>1, <2>5, <2>6, <2>7, <2>8, <2>9 DEF Apart
<1>8. ASSUME NEW w \in Workers, Finish(w) PROVE Apart'
  BY <1>2, <1>8 DEF Finish
<1>9. ASSUME NEW w \in Workers, SpuriousWakeup(w) PROVE Apart'
  BY <1>2, <1>9 DEF SpuriousWakeup, Wake
<1>10. CASE UNCHANGED vars
  BY <1>2, <1>10 DEF vars
<1> QED
  BY <1>1, <1>3, <1>4, <1>5, <1>6, <1>7, <1>8, <1>9, <1>10
  DEF Next, PusherStep, WorkerStep

LEMMA ApartInvariance == Spec => [](Inv /\ Apart)
<1>1. ASSUME Init PROVE Apart
  <2>1. Len(task_queue) = 0 /\ 1..Len(task_queue) = {}
    BY <1>1, Len(<<>>) = 0 DEF Init
  <2>2. /\ \A w \in Workers : pc[w] # "run"
        /\ \A p \in Pushers : arg[p] = NoTask
    BY <1>1 DEF Init, Threads
  <2> QED
    BY <2>1, <2>2 DEF Apart
<1> QED
  BY <1>1, Invariance, NextApart, PTL DEF Spec

(* A task is in one place at a time: no task is queued or run twice.       *)
THEOREM TasksRunOnce == Spec => []RunOnce
BY ApartInvariance, ApartIsRunOnce, PTL
-----------------------------------------------------------------------------
(* The queue has room as long as some task is outside of it.               *)
LEMMA QueueHasRoom ==
  ASSUME Inv, Apart, NEW t \in Tasks, \A i \in 1..Len(task_queue) : task_queue[i] # t
  PROVE  Len(task_queue) < Cardinality(Tasks)
<1>1. /\ Len(task_queue) \in Nat /\ DOMAIN task_queue = 1..Len(task_queue)
      /\ \A i \in 1..Len(task_queue) : task_queue[i] \in Tasks
  BY DEF Inv, TypeOK
<1>2. IsFiniteSet(Tasks) /\ IsFiniteSet(Queued) /\ Queued \subseteq Tasks \ {t}
  BY <1>1, ThreadPoolAssumption, FS_Subset DEF Queued
<1>3. Cardinality(Queued) = Len(task_queue)
  <2>1. task_queue \in [1..Len(task_queue) -> Queued]
    <3>1. task_queue \in [1..Len(task_queue) -> Tasks]
      BY DEF Inv, TypeOK
    <3> QED
      BY <1>1, <3>1 DEF Queued
  <2>2. \A i, j \in 1..Len(task_queue) : task_queue[i] = task_queue[j] => i = j
    BY DEF Apart
  <2>3. \A x \in Queued : \E i \in 1..Len(task_queue) : task_queue[i] = x
    BY <1>1 DEF Queued
  <2>4. task_queue \in Bijection(1..Len(task_queue), Queued)
    BY <2>1, <2>2, <2>3 DEF Bijection, Injection, Surjection, IsInjective
  <2> QED
    BY <1>1, <2>4, FS_CountingElements DEF ExistsBijection
<1>4. Cardinality(Queued) <= Cardinality(Tasks \ {t})
  BY <1>2, FS_Subset, FS_RemoveElement
<1>5. Cardinality(Tasks \ {t}) = Cardinality(Tasks) - 1
  BY <1>2, OneFewer
<1> QED
  BY <1>1, <1>2, <1>3, <1>4, <1>5, FS_CardinalityType

(* Every step is a step of the bounded queue or leaves it as it is.        *)
LEMMA NextFifo == Inv /\ Apart /\ [Next]_vars => [Fifo!Next]_(Fifo!vars)
<1> SUFFICES ASSUME Inv, Apart, [Next]_vars PROVE [Fifo!Next]_(Fifo!vars)
  OBVIOUS
<1> USE ThreadPoolAssumption DEF Threads, States, Inv, TypeOK, Consistent
<1>1. ASSUME NEW p \in Pushers, NEW t \in Tasks, Make(p, t) PROVE Fifo!Next
  <2>1. Fifo!Offer(p, t)
    BY <1>1 DEF Make, Fifo!Offer
  <2> QED
    BY <2>1 DEF Fifo!Next
<1>2. ASSUME task_queue' = task_queue, task' = task, arg' = arg
      PROVE  [Fifo!Next]_(Fifo!vars)
  BY <1>2 DEF Fifo!vars
<1>3. ASSUME NEW p \in Pushers, Push(p) PROVE Fifo!Next
  <2>1. arg[p] \in Tasks
    BY <1>3 DEF Push
  <2>2. Len(task_queue) < Cardinality(Tasks)
    BY <2>1, QueueHasRoom DEF Apart
  <2>3. Fifo!Put(p)
    BY <1>3, <2>1, <2>2 DEF Push, Enqueue, Fifo!Put
  <2> QED
    BY <2>3 DEF Fifo!Next
<1>4. ASSUME NEW w \in Workers, GetTask(w) PROVE Fifo!Next
  <2>1. Fifo!Get(w)
    BY <1>4 DEF GetTask, PopFront, Fifo!Get
  <2> QED
    BY <2>1 DEF Fifo!Next
<1>5. ASSUME NEW t \in Threads, Lock(t) PROVE [Fifo!Next]_(Fifo!vars)
  BY <1>2, <1>5 DEF Lock
<1>6. ASSUME NEW p \in Pushers, Wakeup(p) PROVE [Fifo!Next]_(Fifo!vars)
  BY <1>2, <1>6 DEF Wakeup
<1>7. ASSUME NEW w \in Workers, WaitCond(w) \/ Finish(w) \/ SpuriousWakeup(w)
      PROVE  [Fifo!Next]_(Fifo!vars)
  BY <1>2, <1>7 DEF WaitCond, Finish, SpuriousWakeup
<1>8. CASE UNCHANGED vars
  BY <1>2, <1>8 DEF vars
<1> QED
  BY <1>1, <1>3, <1>4, <1>5, <1>6, <1>7, <1>8 DEF Next, PusherStep, WorkerStep

(* The pool is a first-in first-out queue with room for every task.        *)
THEOREM Refinement == Spec => ImplementsFifo
<1>1. Init => Fifo!Init
  BY DEF Init, Fifo!Init
<1> QED
  BY <1>1, ApartInvariance, NextFifo, PTL DEF Spec, ImplementsFifo, Fifo!Spec
-----------------------------------------------------------------------------
(* The programs that get their pool from getThreadPool.                    *)
Places == {"call", "lock", "test", "construct", "unlock", "return", "done"}

PoolTypeOK ==
  /\ thread_ptr \in Pushers \cup {NoThread}
  /\ threads_ \in [Pushers -> Nat]
  /\ at \in [Pushers -> Places]
  /\ pool \in [Pushers -> Pushers \cup {NoThread}]

(* The mutex is held from the second test to the end of the block.         *)
PoolMutex ==
  \A c \in Pushers : mutex = c <=> at[c] \in {"test", "construct", "unlock"}

(* The pointer is stored once, with every worker created, and is what each *)
(* caller on its way out returns.                                          *)
PoolComplete ==
  /\ thread_ptr # NoThread => threads_[thread_ptr] = Cardinality(Workers)
  /\ \A c \in Pushers :
       /\ at[c] = "construct" => thread_ptr = NoThread
       /\ at[c] \in {"unlock", "return", "done"} => thread_ptr # NoThread
       /\ at[c] = "done" => pool[c] = thread_ptr

PoolInv == PoolTypeOK /\ PoolMutex /\ PoolComplete

(* Every step of getThreadPool preserves the invariant.                    *)
LEMMA StepPoolInv ==
  ASSUME PoolInv, NEW c \in Pushers, Get!Step(c)
  PROVE  PoolInv'
<1> USE ThreadPoolAssumption DEF Places, PoolTypeOK, PoolMutex, PoolComplete, PoolInv, Get!Goto
<1>1. CASE Get!FirstTest(c)
  BY <1>1 DEF Get!FirstTest
<1>2. CASE Get!Lock(c)
  BY <1>2 DEF Get!Lock
<1>3. CASE Get!SecondTest(c)
  BY <1>3 DEF Get!SecondTest
<1>4. CASE Get!Construct(c)
  BY <1>4 DEF Get!Construct
<1>5. CASE Get!Publish(c)
  BY <1>5 DEF Get!Publish
<1>6. CASE Get!Unlock(c)
  BY <1>6 DEF Get!Unlock
<1>7. CASE Get!Return(c)
  BY <1>7 DEF Get!Return
<1> QED
  BY <1>1, <1>2, <1>3, <1>4, <1>5, <1>6, <1>7 DEF Get!Step

LEMMA PoolInvariance == ProgramSpec => []PoolInv
<1>1. ProgramInit => PoolInv
  BY ThreadPoolAssumption
  DEF ProgramInit, Get!Init, PoolInv, PoolTypeOK, PoolMutex, PoolComplete, Places
<1>2. PoolInv /\ [ProgramNext]_programVars => PoolInv'
  <2> SUFFICES ASSUME PoolInv, [ProgramNext]_programVars PROVE PoolInv'
    OBVIOUS
  <2>1. ASSUME NEW p \in Pushers, GetThreadPool(p) PROVE PoolInv'
    BY <2>1, StepPoolInv DEF GetThreadPool
  <2>2. CASE UNCHANGED getVars
    BY <2>2 DEF getVars, PoolInv, PoolTypeOK, PoolMutex, PoolComplete
  <2> QED
    BY <2>1, <2>2 DEF ProgramNext, programVars, RunPusher, PushTask, RunWorker,
                      RunSpurious, RunLock
<1> QED
  BY <1>1, <1>2, PTL DEF ProgramSpec

(* All callers of getThreadPool share one pool whose workers all exist,    *)
(* whichever of the two tests each of them went by.                        *)
THEOREM OnePoolForAll == ProgramSpec => []OnePool
<1>1. PoolInv => OnePool
  <2> SUFFICES ASSUME PoolInv PROVE OnePool
    OBVIOUS
  <2> USE DEF PoolInv, PoolTypeOK, PoolComplete, OnePool, Get!OnePool
  <2>1. CASE thread_ptr = NoThread
    BY <2>1, PoolProgramAssumption
  <2>2. CASE thread_ptr \in Pushers
    BY <2>2, ThreadPoolAssumption
  <2> QED
    BY <2>1, <2>2
<1> QED
  BY <1>1, PoolInvariance, PTL

(* What the program does to its pool is what a pool by itself may do: all  *)
(* that is proved above of the pool holds of the program.                  *)
THEOREM ProgramRunsPool == ProgramSpec => Spec
<1>1. ProgramInit => Init
  BY DEF ProgramInit
<1>2. [ProgramNext]_programVars => [Next]_vars
  <2> SUFFICES ASSUME [ProgramNext]_programVars PROVE [Next]_vars
    OBVIOUS
  <2>1. ASSUME NEW p \in Pushers, GetThreadPool(p) PROVE UNCHANGED vars
    BY <2>1 DEF GetThreadPool
  <2>2. ASSUME NEW p \in Pushers, RunPusher(p) \/ \E t \in Tasks : PushTask(p, t)
        PROVE  Next
    BY <2>2 DEF RunPusher, PushTask, Next
  <2>3. ASSUME NEW w \in Workers, RunWorker(w) \/ RunSpurious(w) PROVE Next
    BY <2>3 DEF RunWorker, RunSpurious, Next
  <2>4. ASSUME NEW t \in Threads, RunLock(t) PROVE Next
    BY <2>4 DEF RunLock, Next
  <2>5. CASE UNCHANGED programVars
    BY <2>5 DEF programVars, vars
  <2> QED
    BY <2>1, <2>2, <2>3, <2>4, <2>5 DEF ProgramNext
<1> QED
  BY <1>1, <1>2, PTL DEF ProgramSpec, Spec
=============================================================================
