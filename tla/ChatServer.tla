----------------------------- MODULE ChatServer -----------------------------
(* The chat server of importent-code/UdpSocket (UdpServer.hpp, LockGuard,   *)
(* Thread.hpp) and its main().  One thread, Recv, receives datagrams, adds  *)
(* their senders to _onlineuser under _mutex and pushes the messages to a   *)
(* RingQueue; the other, Boardcast, pops a message, copies the addresses    *)
(* under _mutex and sends it to all of them.                                *)
(*                                                                          *)
(* The queue is the abstract BoundedFifo that RingQueue implements.  The    *)
(* network may lose, repeat and reorder datagrams, so any user's datagram   *)
(* may be the next; a message is its sender.                                *)
(*                                                                          *)
(* main() lets the UdpServer go out of scope right after Start(): the       *)
(* destructor destroys _mutex while both threads run, then waits for them   *)
(* for ever.  Using a destroyed mutex is undefined; with glibc, destroying  *)
(* one that is held fails and changes nothing, and otherwise every later    *)
(* lock and unlock returns an error, which LockGuard ignores, and excludes  *)
(* nobody.                                                                  *)
EXTENDS Naturals, Sequences

CONSTANTS Users,
          NoUser,
          Capacity  \* N, what the ring queue holds

ASSUME UsersAssumption == NoUser \notin Users
ASSUME CapacityAssumption == Capacity \in Nat \ {0}

VARIABLES mpc,     \* where main is
          rpc,     \* where Recv is
          bpc,     \* where Boardcast is
          owner,   \* who holds _mutex
          mutex,   \* whether _mutex works or was destroyed
          online,  \* the users in _onlineuser
          peer,    \* the sender of the datagram received last
          v,       \* the recipients of the message being sent
          torn,    \* v was copied while addUser changed the table
          rq,      \* the messages in _rq
          offer,   \* the message Recv is about to push
          got      \* the message Boardcast popped last

queueVars == <<rq, offer, got>>
vars == <<mpc, rpc, bpc, owner, mutex, online, peer, v, torn, queueVars>>

Ring == INSTANCE BoundedFifo WITH
          Producers <- {"recv"}, Consumers <- {"boardcast"},
          Values <- Users, NoValue <- NoUser, buf <- rq

\* The type invariant.
TypeOK == /\ mpc \in {"run_c", "run_p", "destroy", "join"}
          /\ rpc \in {"new", "recvfrom", "lock", "insert", "push"}
          /\ bpc \in {"new", "pop", "lock", "copy", "send"}
          /\ owner \in {"recv", "boardcast", "none"}
          /\ mutex \in {"works", "destroyed"}
          /\ online \subseteq Users
          /\ peer \in Users \cup {NoUser}
          /\ v \subseteq Users
          /\ torn \in BOOLEAN
          /\ rq \in Seq(Users) /\ Len(rq) <= Capacity
          /\ offer \in [{"recv"} -> Users \cup {NoUser}]
          /\ got \in [{"boardcast"} -> Users \cup {NoUser}]

Init == /\ mpc = "run_c"
        /\ rpc = "new" /\ bpc = "new"
        /\ owner = "none" /\ mutex = "works"
        /\ online = {} /\ peer = NoUser
        /\ v = {} /\ torn = FALSE
        /\ Ring!Init

----------------------------------------------------------------------------
(* main, Start and ~UdpServer *)

RunC == /\ mpc = "run_c"
        /\ bpc' = "pop"
        /\ mpc' = "run_p"
        /\ UNCHANGED <<rpc, owner, mutex, online, peer, v, torn, queueVars>>

RunP == /\ mpc = "run_p"
        /\ rpc' = "recvfrom"
        /\ mpc' = "destroy"
        /\ UNCHANGED <<bpc, owner, mutex, online, peer, v, torn, queueVars>>

\* pthread_mutex_destroy(&_mutex); then main joins threads that never end.
Destroy == /\ mpc = "destroy"
           /\ mutex' = IF owner = "none" THEN "destroyed" ELSE mutex
           /\ mpc' = "join"
           /\ UNCHANGED <<rpc, bpc, owner, online, peer, v, torn, queueVars>>

----------------------------------------------------------------------------
(* _mutex *)

Lock(t) == IF mutex = "works" THEN owner = "none" /\ owner' = t
                              ELSE UNCHANGED owner

Unlock(t) == IF mutex = "works" THEN owner' = "none" ELSE UNCHANGED owner

----------------------------------------------------------------------------
(* Recv *)

\* Mutant of After: the message is pushed before its sender is added.
AfterPushFirst == [recvfrom |-> "push", push |-> "lock", insert |-> "recvfrom"]

\* The order of the loop's body: a sender is added before its message is
\* pushed.
After == [recvfrom |-> "lock", insert |-> "push", push |-> "recvfrom"]

\* A datagram with n > 0; the others change nothing.
RecvFrom(u) == /\ rpc = "recvfrom"
               /\ peer' = u
               /\ Ring!Offer("recv", u)
               /\ rpc' = After["recvfrom"]
               /\ UNCHANGED <<mpc, bpc, owner, mutex, online, v, torn>>

\* addUser constructs its LockGuard and starts to change the table.
AddUser == /\ rpc = "lock"
           /\ Lock("recv")
           /\ torn' = (torn \/ bpc = "copy")
           /\ rpc' = "insert"
           /\ UNCHANGED <<mpc, bpc, mutex, online, peer, v, queueVars>>

AddUserEnd == /\ rpc = "insert"
              /\ online' = online \cup {peer}
              /\ Unlock("recv")
              /\ rpc' = After["insert"]
              /\ UNCHANGED <<mpc, bpc, mutex, peer, v, torn, queueVars>>

\* Mutant of Push: P(_space_sem) is missing.
PushNoWait == /\ rpc = "push"
              /\ rq' = Append(rq, offer["recv"])
              /\ offer' = [offer EXCEPT !["recv"] = NoUser]
              /\ rpc' = After["push"]
              /\ UNCHANGED <<mpc, bpc, owner, mutex, online, peer, v, torn, got>>

Push == /\ rpc = "push"
        /\ Ring!Put("recv")
        /\ rpc' = After["push"]
        /\ UNCHANGED <<mpc, bpc, owner, mutex, online, peer, v, torn>>

----------------------------------------------------------------------------
(* Boardcast *)

Pop == /\ bpc = "pop"
       /\ Ring!Get("boardcast")
       /\ bpc' = "lock"
       /\ UNCHANGED <<mpc, rpc, owner, mutex, online, peer, v, torn>>

Copy == /\ bpc = "lock"
        /\ Lock("boardcast")
        /\ torn' = (rpc = "insert")
        /\ bpc' = "copy"
        /\ UNCHANGED <<mpc, rpc, mutex, online, peer, v, queueVars>>

Inserting == IF rpc = "insert" THEN {peer} ELSE {}

\* The copy is the table, unless addUser was at work in it: an insertion may
\* relink every node of the table under the iterator, which then misses some,
\* and may show an address that is not filled in yet.
CopyEnd == /\ bpc = "copy"
           /\ v' \in IF torn THEN SUBSET (online \cup Inserting) ELSE {online}
           /\ Unlock("boardcast")
           /\ bpc' = "send"
           /\ UNCHANGED <<mpc, rpc, mutex, online, peer, torn, queueVars>>

\* sendto() for each recipient, whose errors are ignored.
SendAll == /\ bpc = "send"
           /\ v' = {}
           /\ bpc' = "pop"
           /\ UNCHANGED <<mpc, rpc, owner, mutex, online, peer, torn,
                          queueVars>>

----------------------------------------------------------------------------

MainStep == RunC \/ RunP \/ Destroy
RecvStep == AddUser \/ AddUserEnd \/ Push
BoardcastStep == Pop \/ Copy \/ CopyEnd \/ SendAll

Next == \/ MainStep
        \/ RecvStep
        \/ BoardcastStep
        \/ \E u \in Users : RecvFrom(u)

Spec == Init /\ [][Next]_vars

\* Three threads that run whenever they can; _mutex is not fair, and no
\* datagram need ever arrive.
FairSpec == /\ Spec
            /\ WF_vars(MainStep)
            /\ WF_vars(RecvStep)
            /\ WF_vars(BoardcastStep)

----------------------------------------------------------------------------

\* Who speaks is answered: the recipients of a message include its sender,
\* although Recv adds senders while Boardcast works on older messages, and
\* the two share a table and a queue under different locks.  Only a copy that
\* ran into an insertion is excused.
SenderIncluded == bpc = "send" /\ ~torn => got["boardcast"] \in v

\* A message that is in the queue or was popped is sent, although Recv may take
\* _mutex again and again while Boardcast waits for it: when the queue is full
\* Recv waits too.
Delivered == []<>(bpc = "send" \/ (rq = <<>> /\ bpc \in {"new", "pop"}))

\* "The lock protects _onlineuser" (UdpServer.hpp:162): addUser and the loop
\* of Boardcast are never in the table together.
OnlineUserProtected == ~(rpc = "insert" /\ bpc = "copy")
=============================================================================
