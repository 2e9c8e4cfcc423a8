-------------------------- MODULE BlockQueueProofs --------------------------
(***************************************************************************)
(* Proofs about BlockQueue for any finite number of threads and any        *)
(* capacity: the inductive invariant, that no wakeup is lost, and that the *)
(* queue implements BoundedFifo.                                           *)
(***************************************************************************)
EXTENDS BlockQueue, TLAPS, FiniteSetTheorems

Inv == TypeOK /\ Consistent

(* What a signal may release: nobody, or one of the waiters.               *)
LEMMA SignalledWakes ==
  ASSUME NEW ws, NEW s \in Signalled(ws)
  PROVE  /\ s \subseteq ws
         /\ ws # {} => \E t \in ws : s = {t}
BY DEF Signalled

LEMMA InitInv == Init => Inv
<1> SUFFICES ASSUME Init PROVE Inv
  OBVIOUS
<1> USE BlockQueueAssumption DEF Init, Threads, States
<1>1. TypeOK
  BY DEF TypeOK
<1>2. Consistent
  BY DEF Consistent
<1> QED
  BY <1>1, <1>2 DEF Inv

(* Every step of every thread preserves the invariant.                     *)
LEMMA NextInv == Inv /\ [Next]_vars => Inv'
<1> SUFFICES ASSUME Inv, [Next]_vars PROVE Inv'
  OBVIOUS
<1> USE BlockQueueAssumption DEF Threads, States
<1> USE DEF Inv, TypeOK, Consistent
<1>1. ASSUME NEW p \in Producers, NEW v \in Values, Produce(p, v) PROVE Inv'
  BY <1>1 DEF Produce
<1>2. ASSUME NEW c \in Consumers, Consume(c) PROVE Inv'
  BY <1>2 DEF Consume
<1>3. ASSUME NEW t \in Threads, Lock(t) PROVE Inv'
  BY <1>3 DEF Lock
<1>4. ASSUME NEW p \in Producers, PushWait(p) PROVE Inv'
  BY <1>4 DEF PushWait, isfull
<1>5. ASSUME NEW c \in Consumers, PopWait(c) PROVE Inv'
  BY <1>5 DEF PopWait, isempty
<1>6. ASSUME NEW p \in Producers, PushBody(p) PROVE Inv'
  <2>1. PICK ws \in Signalled(empty) :
          empty' = empty \ ws /\ ReturnAndWake(p, ws)
    BY <1>6 DEF PushBody, Enqueue, SignalEmpty
  <2>2. ws \subseteq empty
    BY <2>1, SignalledWakes
  <2>3. arg[p] \in Values
    BY <1>6 DEF PushBody, Enqueue, SignalEmpty
  <2>4. bq' \in Seq(Values) /\ Len(bq') = Len(bq) + 1 /\ Len(bq') <= Capacity
    BY <1>6, <2>3 DEF PushBody, Enqueue, SignalEmpty, isfull
  <2>5. TypeOK'
    BY <1>6, <2>1, <2>2, <2>4 DEF PushBody, Enqueue, SignalEmpty, ReturnAndWake
  <2>6. Consistent'
    <3>1. \A t \in Threads : pc'[t] = "inside" <=> mtx' = t
      BY <1>6, <2>1, <2>2 DEF PushBody, Enqueue, SignalEmpty, ReturnAndWake
    <3>2. empty' = {c \in Consumers : pc'[c] = "waiting"}
      BY <1>6, <2>1, <2>2 DEF PushBody, Enqueue, SignalEmpty, ReturnAndWake
    <3>3. full' = {q \in Producers : pc'[q] = "waiting"}
      BY <1>6, <2>1, <2>2 DEF PushBody, Enqueue, SignalEmpty, ReturnAndWake
    <3>4. \A q \in Producers : pc'[q] = "idle" <=> arg'[q] = NoValue
      BY <1>6, <2>1, <2>2 DEF PushBody, Enqueue, SignalEmpty, ReturnAndWake
    <3> QED
      BY <2>4, <3>1, <3>2, <3>3, <3>4
  <2> QED
    BY <2>5, <2>6
<1>7. ASSUME NEW c \in Consumers, PopBody(c) PROVE Inv'
  <2>1. PICK ws \in Signalled(full) :
          full' = full \ ws /\ ReturnAndWake(c, ws)
    BY <1>7 DEF PopBody, SignalFull
  <2>2. ws \subseteq full
    BY <2>1, SignalledWakes
  <2>3. /\ bq # <<>>
        /\ Head(bq) \in Values
        /\ bq' \in Seq(Values)
        /\ Len(bq') = Len(bq) - 1
    BY <1>7 DEF PopBody, SignalFull, isempty
  <2>4. TypeOK'
    BY <1>7, <2>1, <2>2, <2>3 DEF PopBody, SignalFull, ReturnAndWake
  <2>5. Consistent'
    <3>1. \A t \in Threads : pc'[t] = "inside" <=> mtx' = t
      BY <1>7, <2>1, <2>2 DEF PopBody, SignalFull, ReturnAndWake
    <3>2. empty' = {d \in Consumers : pc'[d] = "waiting"}
      BY <1>7, <2>1, <2>2 DEF PopBody, SignalFull, ReturnAndWake
    <3>3. full' = {q \in Producers : pc'[q] = "waiting"}
      BY <1>7, <2>1, <2>2 DEF PopBody, SignalFull, ReturnAndWake
    <3>4. \A q \in Producers : pc'[q] = "idle" <=> arg'[q] = NoValue
      BY <1>7, <2>1, <2>2 DEF PopBody, SignalFull, ReturnAndWake
    <3> QED
      BY <2>3, <3>1, <3>2, <3>3, <3>4
  <2> QED
    BY <2>4, <2>5
<1>8. ASSUME NEW t \in Threads, SpuriousWakeup(t) PROVE Inv'
  BY <1>8 DEF SpuriousWakeup
<1>9. CASE UNCHANGED vars
  BY <1>9 DEF vars
<1> QED
  BY <1>1, <1>2, <1>3, <1>4, <1>5, <1>6, <1>7, <1>8, <1>9
  DEF Next, Push, Pop

(* Every reachable state is well typed, the mutex excludes, and the queue  *)
(* never outgrows its capacity.                                            *)
THEOREM Invariance == Spec => []Inv
BY InitInv, NextInv, PTL DEF Spec
-----------------------------------------------------------------------------
(* One thread more, or one fewer, in a finite set of running threads.      *)
LEMMA OneMore ==
  ASSUME NEW S, IsFiniteSet(S), NEW x, x \notin S
  PROVE  Cardinality(S \cup {x}) = Cardinality(S) + 1
BY FS_AddElement

LEMMA OneFewer ==
  ASSUME NEW S, IsFiniteSet(S), NEW x \in S
  PROVE  Cardinality(S \ {x}) = Cardinality(S) - 1
BY FS_RemoveElement

LEMMA RunningFinite ==
  ASSUME NEW ts, IsFiniteSet(ts)
  PROVE  IsFiniteSet(Running(ts)) /\ Cardinality(Running(ts)) \in Nat
BY FS_Subset, FS_CardinalityType DEF Running

(* No step loses a signal that a sleeping consumer needed.                 *)
LEMMA NextConsumerWakeup ==
  Inv /\ Inv' /\ NoLostConsumerWakeup /\ [Next]_vars => NoLostConsumerWakeup'
<1> SUFFICES ASSUME Inv, Inv', NoLostConsumerWakeup, [Next]_vars, empty' # {}
             PROVE  Len(bq') <= Cardinality(Running(Consumers)')
  BY DEF NoLostConsumerWakeup
<1> DEFINE R == Running(Consumers)
<1> USE BlockQueueAssumption DEF Threads, States
<1> USE DEF Inv, TypeOK, Consistent, NoLostConsumerWakeup
<1>1. /\ IsFiniteSet(R) /\ Cardinality(R) \in Nat
      /\ Cardinality(R') \in Nat /\ Len(bq) \in Nat /\ Len(bq') \in Nat
  <2>1. IsFiniteSet(Running(Consumers)') /\ Cardinality(Running(Consumers)') \in Nat
    BY FS_Subset, FS_CardinalityType DEF Running
  <2> QED
    BY <2>1, RunningFinite
<1>2. ASSUME R' = R, empty' = empty, bq' = bq
      PROVE  Len(bq') <= Cardinality(R')
  BY <1>2
<1>3. ASSUME NEW p \in Producers, NEW v \in Values, Produce(p, v)
      PROVE  Len(bq') <= Cardinality(R')
  <2>1. R' = R
    BY <1>3 DEF Produce, Running
  <2> QED
    BY <2>1, <1>2, <1>3 DEF Produce
<1>4. ASSUME NEW c \in Consumers, Consume(c)
      PROVE  Len(bq') <= Cardinality(R')
  <2>1. R' = R \cup {c} /\ c \notin R
    BY <1>4 DEF Consume, Running
  <2>2. Cardinality(R') = Cardinality(R) + 1
    BY <2>1, <1>1, OneMore
  <2> QED
    BY <2>2, <1>1, <1>4 DEF Consume
<1>5. ASSUME NEW t \in Threads, Lock(t)
      PROVE  Len(bq') <= Cardinality(R')
  <2>1. R' = R
    BY <1>5 DEF Lock, Running
  <2> QED
    BY <2>1, <1>2, <1>5 DEF Lock
<1>6. ASSUME NEW p \in Producers, PushWait(p)
      PROVE  Len(bq') <= Cardinality(R')
  <2>1. R' = R
    BY <1>6 DEF PushWait, Running
  <2> QED
    BY <2>1, <1>2, <1>6 DEF PushWait
<1>7. ASSUME NEW c \in Consumers, PopWait(c)
      PROVE  Len(bq') <= Cardinality(R')
  BY <1>1, <1>7 DEF PopWait, isempty
<1>8. ASSUME NEW p \in Producers, PushBody(p)
      PROVE  Len(bq') <= Cardinality(R')
  <2>1. PICK ws \in Signalled(empty) :
          empty' = empty \ ws /\ ReturnAndWake(p, ws)
    BY <1>8 DEF PushBody, Enqueue, SignalEmpty
  <2>2. empty # {}
    BY <2>1
  <2>3. PICK t \in empty : ws = {t}
    BY <2>1, <2>2, SignalledWakes
  <2>4. R' = R \cup {t} /\ t \notin R
    BY <2>1, <2>3 DEF ReturnAndWake, Running
  <2>5. Cardinality(R') = Cardinality(R) + 1
    BY <2>4, <1>1, OneMore
  <2>6. Len(bq') = Len(bq) + 1
    BY <1>8 DEF PushBody, Enqueue, SignalEmpty
  <2> QED
    BY <2>2, <2>5, <2>6, <1>1
<1>9. ASSUME NEW c \in Consumers, PopBody(c)
      PROVE  Len(bq') <= Cardinality(R')
  <2>1. PICK ws \in Signalled(full) :
          full' = full \ ws /\ ReturnAndWake(c, ws)
    BY <1>9 DEF PopBody, SignalFull
  <2>2. ws \subseteq full
    BY <2>1, SignalledWakes
  <2>3. R' = R \ {c} /\ c \in R
    BY <1>9, <2>1, <2>2 DEF PopBody, SignalFull, ReturnAndWake, Running
  <2>4. Cardinality(R') = Cardinality(R) - 1
    BY <2>3, <1>1, OneFewer
  <2>5. Len(bq') = Len(bq) - 1 /\ empty' = empty
    BY <1>9 DEF PopBody, SignalFull, isempty
  <2> QED
    BY <2>4, <2>5, <1>1
<1>10. ASSUME NEW t \in Threads, SpuriousWakeup(t)
       PROVE  Len(bq') <= Cardinality(R')
  <2>1. CASE t \in Producers
    <3>1. R' = R /\ empty' = empty
      BY <1>10, <2>1 DEF SpuriousWakeup, Running
    <3> QED
      BY <3>1, <1>2, <1>10 DEF SpuriousWakeup
  <2>2. CASE t \in Consumers
    <3>1. R' = R \cup {t} /\ t \notin R /\ empty # {}
      BY <1>10, <2>2 DEF SpuriousWakeup, Running
    <3>2. Cardinality(R') = Cardinality(R) + 1
      BY <3>1, <1>1, OneMore
    <3> QED
      BY <3>1, <3>2, <1>1, <1>10 DEF SpuriousWakeup
  <2> QED
    BY <2>1, <2>2
<1>11. CASE UNCHANGED vars
  BY <1>2, <1>11 DEF vars, Running
<1> QED
  BY <1>3, <1>4, <1>5, <1>6, <1>7, <1>8, <1>9, <1>10, <1>11
  DEF Next, Push, Pop

(* While a consumer sleeps on _empty every queued task has a consumer that *)
(* is awake and heading for it: push's signals are never lost.             *)
LEMMA ConsumerWakeups == Spec => []NoLostConsumerWakeup
<1>1. Init => NoLostConsumerWakeup
  BY DEF Init, NoLostConsumerWakeup
<1> QED
  BY <1>1, Invariance, NextConsumerWakeup, PTL DEF Spec

(* No step loses a signal that a sleeping producer needed.                 *)
LEMMA NextProducerWakeup ==
  Inv /\ Inv' /\ NoLostProducerWakeup /\ [Next]_vars => NoLostProducerWakeup'
<1> SUFFICES ASSUME Inv, Inv', NoLostProducerWakeup, [Next]_vars, full' # {}
             PROVE  Capacity - Len(bq') <= Cardinality(Running(Producers)')
  BY DEF NoLostProducerWakeup
<1> DEFINE R == Running(Producers)
<1> USE BlockQueueAssumption DEF Threads, States
<1> USE DEF Inv, TypeOK, Consistent, NoLostProducerWakeup
<1>1. /\ IsFiniteSet(R) /\ Cardinality(R) \in Nat
      /\ Cardinality(R') \in Nat /\ Len(bq) \in Nat /\ Len(bq') \in Nat
  <2>1. IsFiniteSet(Running(Producers)') /\ Cardinality(Running(Producers)') \in Nat
    BY FS_Subset, FS_CardinalityType DEF Running
  <2> QED
    BY <2>1, RunningFinite
<1>2. ASSUME R' = R, full' = full, bq' = bq
      PROVE  Capacity - Len(bq') <= Cardinality(R')
  BY <1>2
<1>3. ASSUME NEW p \in Producers, NEW v \in Values, Produce(p, v)
      PROVE  Capacity - Len(bq') <= Cardinality(R')
  <2>1. R' = R \cup {p} /\ p \notin R
    BY <1>3 DEF Produce, Running
  <2>2. Cardinality(R') = Cardinality(R) + 1
    BY <2>1, <1>1, OneMore
  <2> QED
    BY <2>2, <1>1, <1>3 DEF Produce
<1>4. ASSUME NEW c \in Consumers, Consume(c)
      PROVE  Capacity - Len(bq') <= Cardinality(R')
  <2>1. R' = R
    BY <1>4 DEF Consume, Running
  <2> QED
    BY <2>1, <1>2, <1>4 DEF Consume
<1>5. ASSUME NEW t \in Threads, Lock(t)
      PROVE  Capacity - Len(bq') <= Cardinality(R')
  <2>1. R' = R
    BY <1>5 DEF Lock, Running
  <2> QED
    BY <2>1, <1>2, <1>5 DEF Lock
<1>6. ASSUME NEW p \in Producers, PushWait(p)
      PROVE  Capacity - Len(bq') <= Cardinality(R')
  BY <1>1, <1>6 DEF PushWait, isfull
<1>7. ASSUME NEW c \in Consumers, PopWait(c)
      PROVE  Capacity - Len(bq') <= Cardinality(R')
  <2>1. R' = R
    BY <1>7 DEF PopWait, Running
  <2> QED
    BY <2>1, <1>2, <1>7 DEF PopWait
<1>8. ASSUME NEW p \in Producers, PushBody(p)
      PROVE  Capacity - Len(bq') <= Cardinality(R')
  <2>1. PICK ws \in Signalled(empty) :
          empty' = empty \ ws /\ ReturnAndWake(p, ws)
    BY <1>8 DEF PushBody, Enqueue, SignalEmpty
  <2>2. ws \subseteq empty
    BY <2>1, SignalledWakes
  <2>3. R' = R \ {p} /\ p \in R
    BY <1>8, <2>1, <2>2 DEF PushBody, Enqueue, SignalEmpty, ReturnAndWake, Running
  <2>4. Cardinality(R') = Cardinality(R) - 1
    BY <2>3, <1>1, OneFewer
  <2>5. Len(bq') = Len(bq) + 1 /\ full' = full
    BY <1>8 DEF PushBody, Enqueue, SignalEmpty
  <2> QED
    BY <2>4, <2>5, <1>1
<1>9. ASSUME NEW c \in Consumers, PopBody(c)
      PROVE  Capacity - Len(bq') <= Cardinality(R')
  <2>1. PICK ws \in Signalled(full) :
          full' = full \ ws /\ ReturnAndWake(c, ws)
    BY <1>9 DEF PopBody, SignalFull
  <2>2. full # {}
    BY <2>1
  <2>3. PICK t \in full : ws = {t}
    BY <2>1, <2>2, SignalledWakes
  <2>4. R' = R \cup {t} /\ t \notin R
    BY <2>1, <2>3 DEF ReturnAndWake, Running
  <2>5. Cardinality(R') = Cardinality(R) + 1
    BY <2>4, <1>1, OneMore
  <2>6. Len(bq') = Len(bq) - 1
    BY <1>9 DEF PopBody, SignalFull, isempty
  <2> QED
    BY <2>2, <2>5, <2>6, <1>1
<1>10. ASSUME NEW t \in Threads, SpuriousWakeup(t)
       PROVE  Capacity - Len(bq') <= Cardinality(R')
  <2>1. CASE t \in Consumers
    <3>1. R' = R /\ full' = full
      BY <1>10, <2>1 DEF SpuriousWakeup, Running
    <3> QED
      BY <3>1, <1>2, <1>10 DEF SpuriousWakeup
  <2>2. CASE t \in Producers
    <3>1. R' = R \cup {t} /\ t \notin R /\ full # {}
      BY <1>10, <2>2 DEF SpuriousWakeup, Running
    <3>2. Cardinality(R') = Cardinality(R) + 1
      BY <3>1, <1>1, OneMore
    <3> QED
      BY <3>1, <3>2, <1>1, <1>10 DEF SpuriousWakeup
  <2> QED
    BY <2>1, <2>2
<1>11. CASE UNCHANGED vars
  BY <1>2, <1>11 DEF vars, Running
<1> QED
  BY <1>3, <1>4, <1>5, <1>6, <1>7, <1>8, <1>9, <1>10, <1>11
  DEF Next, Push, Pop

(* While a producer sleeps on _full every free place has a producer that   *)
(* is awake and heading for it: pop's signals are never lost.              *)
LEMMA ProducerWakeups == Spec => []NoLostProducerWakeup
<1>1. Init => NoLostProducerWakeup
  BY DEF Init, NoLostProducerWakeup
<1> QED
  BY <1>1, Invariance, NextProducerWakeup, PTL DEF Spec

(* Neither push nor pop loses a signal that a sleeping thread needed.      *)
THEOREM Wakeups == Spec => []NoLostWakeup
BY ConsumerWakeups, ProducerWakeups, PTL DEF NoLostWakeup
-----------------------------------------------------------------------------
(* Every step of BlockQueue is a step of BoundedFifo or leaves it alone.   *)
LEMMA NextRefines == Inv /\ [Next]_vars => [Fifo!Next]_(Fifo!vars)
<1> SUFFICES ASSUME Inv, [Next]_vars
             PROVE  Fifo!Next \/ UNCHANGED <<bq, arg, out>>
  BY DEF Fifo!vars
<1> USE BlockQueueAssumption DEF Threads, States, Inv, TypeOK, Consistent
<1>1. ASSUME NEW p \in Producers, NEW v \in Values, Produce(p, v)
      PROVE  Fifo!Offer(p, v)
  BY <1>1 DEF Produce, Fifo!Offer
<1>2. ASSUME NEW p \in Producers, PushBody(p)
      PROVE  Fifo!Put(p)
  BY <1>2 DEF PushBody, Enqueue, SignalEmpty, isfull, Fifo!Put
<1>3. ASSUME NEW c \in Consumers, PopBody(c)
      PROVE  Fifo!Get(c)
  BY <1>3 DEF PopBody, SignalFull, isempty, Fifo!Get
<1>4. ASSUME NEW p \in Producers, PushWait(p)
      PROVE  UNCHANGED <<bq, arg, out>>
  BY <1>4 DEF PushWait
<1>5. ASSUME NEW c \in Consumers, PopWait(c) \/ Consume(c)
      PROVE  UNCHANGED <<bq, arg, out>>
  BY <1>5 DEF PopWait, Consume
<1>6. ASSUME NEW t \in Threads, Lock(t) \/ SpuriousWakeup(t)
      PROVE  UNCHANGED <<bq, arg, out>>
  BY <1>6 DEF Lock, SpuriousWakeup
<1>7. CASE UNCHANGED vars
  BY <1>7 DEF vars
<1> QED
  BY <1>1, <1>2, <1>3, <1>4, <1>5, <1>6, <1>7 DEF Next, Push, Pop, Fifo!Next

(* BlockQueue is a bounded first-in first-out queue: every push and every  *)
(* pop takes effect exactly once, in one step, in queue order.             *)
THEOREM Refinement == Spec => ImplementsBoundedFifo
<1>1. Init => Fifo!Init
  BY DEF Init, Fifo!Init
<1> QED
  BY <1>1, Invariance, NextRefines, PTL DEF Spec, ImplementsBoundedFifo, Fifo!Spec
=============================================================================
