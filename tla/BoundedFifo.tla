---------------------------- MODULE BoundedFifo ----------------------------
(***************************************************************************)
(* What the bounded queues of this repository (BlockQueue.hpp and          *)
(* RingQueue.hpp) promise their callers.  A producer offers a value by     *)
(* calling push(in); once the queue has room the value joins the tail,     *)
(* exactly once.  A consumer calling pop(out) receives the value at the    *)
(* head, exactly once.  How threads wait for room or for data is left to   *)
(* the implementations.                                                    *)
(***************************************************************************)
EXTENDS Naturals, Sequences

CONSTANTS Producers,  \* threads that push
          Consumers,  \* threads that pop
          Values,     \* what is pushed
          NoValue,    \* no value: nothing is offered, nothing was received
          Capacity    \* the most values the queue holds

VARIABLES buf,    \* the values in the queue, oldest first
          offer,  \* offer[p]: the value producer p is pushing
          got     \* got[c]: the value consumer c popped last

vars == <<buf, offer, got>>

Init ==
  /\ buf = <<>>
  /\ offer = [p \in Producers |-> NoValue]
  /\ got = [c \in Consumers |-> NoValue]

(* A producer calls push with a value.                                     *)
Offer(p, v) ==
  /\ offer[p] = NoValue
  /\ offer' = [offer EXCEPT ![p] = v]
  /\ UNCHANGED <<buf, got>>

(* The value takes effect: it is now in the queue, and not offered again.  *)
Put(p) ==
  /\ offer[p] # NoValue
  /\ Len(buf) < Capacity
  /\ buf' = Append(buf, offer[p])
  /\ offer' = [offer EXCEPT ![p] = NoValue]
  /\ UNCHANGED got

(* A pop takes effect: the oldest value moves to the consumer.             *)
Get(c) ==
  /\ buf # <<>>
  /\ got' = [got EXCEPT ![c] = Head(buf)]
  /\ buf' = Tail(buf)
  /\ UNCHANGED offer

Next ==
  \/ \E p \in Producers : Put(p) \/ \E v \in Values : Offer(p, v)
  \/ \E c \in Consumers : Get(c)

Spec == Init /\ [][Next]_vars
=============================================================================
