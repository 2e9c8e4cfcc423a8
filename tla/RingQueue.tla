----------------------------- MODULE RingQueue -----------------------------
(***************************************************************************)
(* The ring queue of 11-11/RingQueue (RingQueue.hpp, Sem.hpp) under the    *)
(* endless producers and consumers of its main.cc; 10-15/RingQueue and     *)
(* importent-code/UdpSocket hold the same algorithm.                       *)
(*                                                                         *)
(* Two semaphores count free places and stored values.  A producer takes a *)
(* place, then plock, which orders the producers among themselves, and     *)
(* copies its value into the slot at p_step; consumers mirror this with    *)
(* clock and c_step.  No lock is common to both sides: only the semaphores *)
(* keep a producer and a consumer off the same slot.                       *)
(***************************************************************************)
EXTENDS Integers, Sequences, FiniteSets

CONSTANTS Producers, Consumers,  \* the threads main() creates
          Values, NoValue,       \* what is pushed, and the initial contents
          Num,                   \* _num
          NoThread               \* the owner of a free mutex

ASSUME RingQueueAssumption ==
  /\ Num \in Nat \ {0}
  /\ Producers \cap Consumers = {}
  /\ IsFiniteSet(Producers) /\ IsFiniteSet(Consumers)
  /\ NoThread \notin Producers \cup Consumers
  /\ NoValue \notin Values

VARIABLES
  rq,                   \* _rq
  p_step, c_step,       \* the slots of the next push and the next pop
  space_sem, data_sem,  \* the values of the semaphores
  plock, clock,         \* the threads that hold the mutexes, or NoThread
  pc,                   \* where each thread is, see States
  arg,                  \* arg[p]: the argument of p's push
  out                   \* out[c]: what c's last pop stored through its pointer

vars == <<rq, p_step, c_step, space_sem, data_sem, plock, clock, pc, arg, out>>

Threads == Producers \cup Consumers
Slots == 0..(Num - 1)

(* "idle": between two calls.  "p": in sem_wait.  "lock": needs the mutex. *)
(* "copy": holds it and copies a value.  "v": about to post.               *)
States == {"idle", "p", "lock", "copy", "v"}

(* Faulty variant: one place too many.                                     *)
SpacesPlusOne == Num + 1
(* space_sem(_num)                                                         *)
Spaces == Num

Init ==
  /\ rq = [s \in Slots |-> NoValue]
  /\ p_step = 0 /\ c_step = 0
  /\ space_sem = Spaces /\ data_sem = 0
  /\ plock = NoThread /\ clock = NoThread
  /\ pc = [t \in Threads |-> "idle"]
  /\ arg = [p \in Producers |-> NoValue]
  /\ out = [c \in Consumers |-> NoValue]

Goto(t, there) == pc' = [pc EXCEPT ![t] = there]

(* step++; step %= _num                                                    *)
After(step) == (step + 1) % Num
-----------------------------------------------------------------------------
(* The producer's loop makes a value and calls push with it.               *)
Produce(p, v) ==
  /\ pc[p] = "idle" /\ Goto(p, "p")
  /\ arg' = [arg EXCEPT ![p] = v]
  /\ UNCHANGED <<rq, p_step, c_step, space_sem, data_sem, plock, clock, out>>

SpaceP(p) ==
  /\ pc[p] = "p" /\ Goto(p, "lock")
  /\ space_sem > 0
  /\ space_sem' = space_sem - 1
  /\ UNCHANGED <<rq, p_step, c_step, data_sem, plock, clock, arg, out>>

(* Faulty variant: no mutex among the producers.                           *)
PLockNone(p) ==
  /\ pc[p] = "lock" /\ Goto(p, "copy")
  /\ plock' = p
  /\ UNCHANGED <<rq, p_step, c_step, space_sem, data_sem, clock, arg, out>>

PLock(p) ==
  /\ pc[p] = "lock" /\ Goto(p, "copy")
  /\ plock = NoThread
  /\ plock' = p
  /\ UNCHANGED <<rq, p_step, c_step, space_sem, data_sem, clock, arg, out>>

(* The copy ends and plock is released.  The copy is not atomic in the     *)
(* code: it lasts as long as the thread is at "copy", see NoSlotRace.      *)
Store(p) ==
  /\ pc[p] = "copy" /\ Goto(p, "v")
  /\ rq' = [rq EXCEPT ![p_step] = arg[p]]
  /\ arg' = [arg EXCEPT ![p] = NoValue]
  /\ p_step' = After(p_step)
  /\ plock' = NoThread
  /\ UNCHANGED <<c_step, space_sem, data_sem, clock, out>>

(* Faulty variant: push posts the semaphore it waited for.                 *)
DataVWrong(p) ==
  /\ pc[p] = "v" /\ Goto(p, "idle")
  /\ space_sem' = space_sem + 1
  /\ UNCHANGED <<rq, p_step, c_step, data_sem, plock, clock, arg, out>>

DataV(p) ==
  /\ pc[p] = "v" /\ Goto(p, "idle")
  /\ data_sem' = data_sem + 1
  /\ UNCHANGED <<rq, p_step, c_step, space_sem, plock, clock, arg, out>>
-----------------------------------------------------------------------------
(* The consumer's loop calls pop.                                          *)
Consume(c) ==
  /\ pc[c] = "idle" /\ Goto(c, "p")
  /\ UNCHANGED <<rq, p_step, c_step, space_sem, data_sem, plock, clock, arg, out>>

DataP(c) ==
  /\ pc[c] = "p" /\ Goto(c, "lock")
  /\ data_sem > 0
  /\ data_sem' = data_sem - 1
  /\ UNCHANGED <<rq, p_step, c_step, space_sem, plock, clock, arg, out>>

CLock(c) ==
  /\ pc[c] = "lock" /\ Goto(c, "copy")
  /\ clock = NoThread
  /\ clock' = c
  /\ UNCHANGED <<rq, p_step, c_step, space_sem, data_sem, plock, arg, out>>

Load(c) ==
  /\ pc[c] = "copy" /\ Goto(c, "v")
  /\ out' = [out EXCEPT ![c] = rq[c_step]]
  /\ c_step' = After(c_step)
  /\ clock' = NoThread
  /\ UNCHANGED <<rq, p_step, space_sem, data_sem, plock, arg>>

SpaceV(c) ==
  /\ pc[c] = "v" /\ Goto(c, "idle")
  /\ space_sem' = space_sem + 1
  /\ UNCHANGED <<rq, p_step, c_step, data_sem, plock, clock, arg, out>>
-----------------------------------------------------------------------------
Push(p) == \/ \E v \in Values : Produce(p, v)
           \/ SpaceP(p) \/ PLock(p) \/ Store(p) \/ DataV(p)
Pop(c)  == Consume(c) \/ DataP(c) \/ CLock(c) \/ Load(c) \/ SpaceV(c)

Next == (\E p \in Producers : Push(p)) \/ (\E c \in Consumers : Pop(c))

Spec == Init /\ [][Next]_vars

(* The threads loop for ever and are scheduled; nothing is assumed of who  *)
(* gets a semaphore or a mutex that several want.                          *)
FairSpec ==
  /\ Spec
  /\ \A p \in Producers : WF_vars(Push(p))
  /\ \A c \in Consumers : WF_vars(Pop(c))
-----------------------------------------------------------------------------
TypeOK ==
  /\ rq \in [Slots -> Values \cup {NoValue}]
  /\ p_step \in Slots /\ c_step \in Slots
  /\ space_sem \in Nat /\ data_sem \in Nat
  /\ plock \in Producers \cup {NoThread}
  /\ clock \in Consumers \cup {NoThread}
  /\ pc \in [Threads -> States]
  /\ arg \in [Producers -> Values \cup {NoValue}]
  /\ out \in [Consumers -> Values \cup {NoValue}]

At(ts, places) == {t \in ts : pc[t] \in places}

(* The slots that hold a value: counted by data_sem, claimed by consumers  *)
(* that have not read them, or stored by producers that have not posted.   *)
Stored == data_sem + Cardinality(At(Consumers, {"lock", "copy"}))
                   + Cardinality(At(Producers, {"v"}))

(* The slots that hold none, by the same count from the other side.        *)
Free == space_sem + Cardinality(At(Producers, {"lock", "copy"}))
                  + Cardinality(At(Consumers, {"v"}))

(* Two threads never copy to or from the same slot at the same time: the   *)
(* mutexes keep equals apart, the semaphores a producer and a consumer,    *)
(* even when the ring is full or empty and the steps are equal.            *)
Slot(t) == IF t \in Producers THEN p_step ELSE c_step
NoSlotRace ==
  \A t, u \in At(Threads, {"copy"}) : t # u => Slot(t) # Slot(u)

(* The strengthening that is inductive: each slot is counted once, p_step  *)
(* is as far ahead of c_step as values are stored, a mutex is held by the  *)
(* thread that copies, and the stored slots hold pushed values.            *)
RingIndex(i) == (c_step + i) % Num

Holders ==
  /\ \A p \in Producers : pc[p] = "copy" <=> plock = p
  /\ \A c \in Consumers : pc[c] = "copy" <=> clock = c
  /\ \A p \in Producers : pc[p] \in {"p", "lock", "copy"} <=> arg[p] # NoValue

Consistent ==
  /\ Stored + Free = Num
  /\ p_step = RingIndex(Stored)
  /\ Holders
  /\ \A i \in 0..(Stored - 1) : rq[RingIndex(i)] \in Values

(* The ring is a bounded first-in first-out queue: a push takes effect     *)
(* when its copy ends, a pop when it reads, whatever the order in which    *)
(* the semaphores are posted.                                              *)
Contents == [i \in 1..Stored |-> rq[RingIndex(i - 1)]]
Fifo == INSTANCE BoundedFifo
          WITH buf <- Contents, offer <- arg, got <- out, Capacity <- Num
ImplementsBoundedFifo == Fifo!Spec

(* Values keep flowing through the ring: pushes and pops complete again    *)
(* and again, neither side waits for ever for the other's semaphore.       *)
Flow ==
  /\ []<><<\E p \in Producers : Store(p)>>_vars
  /\ []<><<\E c \in Consumers : Load(c)>>_vars
=============================================================================
