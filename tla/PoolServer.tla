----------------------------- MODULE PoolServer -----------------------------
(***************************************************************************)
(* The TCP server of 10-21/tcp_server.hpp.  Its main thread accepts and    *)
(* pushes each connection as a task into the ThreadPool; a worker runs the *)
(* handler that the task was made with.  The code has three: dictOnline,   *)
(* which start() names, and change answer one request and close, service   *)
(* answers until the client ends.  A task is the connection of a client,   *)
(* and a client may come back after its connection was closed.             *)
(***************************************************************************)
EXTENDS ThreadPool

CONSTANT MayReset  \* the clients that may reset their connection

ASSUME PoolServerAssumption == MayReset \subseteq Tasks

VARIABLES
  handler,   \* the handler of all tasks; it never changes
  listening, \* initServer has returned
  conn,      \* conn[k]: "none", "queued" for accept, "open", "closed" by us
  backlog,   \* connections that wait to be accepted
  spoke,     \* clients that have sent their request
  unread,    \* clients whose request is still in the socket
  fin,       \* clients that have closed their end
  rst,       \* clients that have reset their connection
  answered,  \* clients that were answered
  step,      \* step[w]: what dictOnline does next in worker w
  alive      \* no SIGPIPE has ended the process

connVars == <<handler, listening, conn, backlog, spoke, unread, fin, rst, answered>>
serverVars == <<vars, connVars, step, alive>>

Clients == Tasks

ServerInit ==
  /\ Init
  /\ handler \in {"service", "change", "dictOnline"}
  /\ listening = FALSE
  /\ conn = [k \in Clients |-> "none"]
  /\ backlog = <<>>
  /\ spoke = {} /\ unread = {} /\ fin = {} /\ rst = {} /\ answered = {}
  /\ step = [w \in Workers |-> "read"]
  /\ alive = TRUE
-----------------------------------------------------------------------------
(* The clients and the kernel.                                             *)
Connect(k) ==
  /\ listening /\ conn[k] = "none"
  /\ conn' = [conn EXCEPT ![k] = "queued"]
  /\ backlog' = Append(backlog, k)
  /\ UNCHANGED <<vars, handler, listening, spoke, unread, fin, rst, answered, step, alive>>

Up(k) == conn[k] \in {"queued", "open"}

(* One request, and with service another one after each answer.            *)
Say(k) ==
  /\ Up(k) /\ k \notin fin \cup rst
  /\ k \in spoke => handler = "service" /\ k \in answered
  /\ spoke' = spoke \cup {k} /\ unread' = unread \cup {k}
  /\ answered' = answered \ {k}
  /\ UNCHANGED <<vars, handler, listening, conn, backlog, fin, rst, step, alive>>

Leave(k) ==
  /\ Up(k) /\ k \notin fin \cup rst
  /\ fin' = fin \cup {k}
  /\ UNCHANGED <<vars, handler, listening, conn, backlog, spoke, unread, rst, answered, step, alive>>

(* The connection is reset.  A request that had arrived can still be read. *)
Reset(k) ==
  /\ Up(k) /\ k \in MayReset \ rst
  /\ rst' = rst \cup {k}
  /\ UNCHANGED <<vars, handler, listening, conn, backlog, spoke, unread, fin, answered, step, alive>>

(* The client takes note of the close and may connect again later.         *)
Return(k) ==
  /\ conn[k] = "closed"
  /\ conn' = [conn EXCEPT ![k] = "none"]
  /\ spoke' = spoke \ {k} /\ unread' = unread \ {k}
  /\ fin' = fin \ {k} /\ rst' = rst \ {k} /\ answered' = answered \ {k}
  /\ UNCHANGED <<vars, handler, listening, backlog, step, alive>>
-----------------------------------------------------------------------------
(* initServer(): a call that fails ends the process.                       *)
InitServer ==
  /\ ~listening
  /\ \/ listening' = TRUE /\ UNCHANGED alive
     \/ alive' = FALSE /\ UNCHANGED listening
  /\ UNCHANGED <<vars, handler, conn, backlog, spoke, unread, fin, rst, answered, step>>

(* start(): accept, then pushTask(t), whose further steps are those of the *)
(* pool.                                                                   *)
Accept(p) ==
  /\ backlog # <<>>
  /\ Make(p, Head(backlog))
  /\ conn' = [conn EXCEPT ![Head(backlog)] = "open"]
  /\ backlog' = Tail(backlog)
  /\ UNCHANGED <<handler, listening, spoke, unread, fin, rst, answered, step, alive>>

(* The threads of the pool; the workers exist once start() has called      *)
(* run().                                                                  *)
Pool(t) ==
  /\ listening
  /\ Lock(t) \/ (t \in Pushers /\ PusherStep(t))
     \/ (t \in Workers /\ (WaitCond(t) \/ SpuriousWakeup(t)))
  /\ UNCHANGED <<connVars, step, alive>>

(* A worker takes a connection and calls the handler for it.               *)
Begin(w) ==
  /\ listening /\ GetTask(w)
  /\ step' = [step EXCEPT ![w] = "read"]
  /\ UNCHANGED <<connVars, alive>>

At(w, where) == pc[w] = "run" /\ step[w] = where

(* Faulty variant: an end of stream is looked at before the request.       *)
NextStepEof(k) == IF k \in fin THEN "close" ELSE "write"
NextStep(k) == IF k \in unread THEN "write" ELSE "close"

(* read() blocks until there is a request, an end of stream or an error.   *)
Read(w) ==
  LET k == task[w]
  IN /\ At(w, "read")
     /\ k \in unread \cup fin \cup rst
     /\ step' = [step EXCEPT ![w] = NextStep(k)]
     /\ unread' = unread \ {k}
     /\ UNCHANGED <<vars, handler, listening, conn, backlog, spoke, fin, rst, answered, alive>>

(* write() to a reset connection fails, which the code does not look at;   *)
(* if the client had closed its end before, SIGPIPE ends the process.      *)
Write(w, next) ==
  /\ At(w, "write")
  /\ answered' = answered \cup ({task[w]} \ rst)
  /\ alive' = (task[w] \notin fin \cap rst)
  /\ step' = [step EXCEPT ![w] = next]
  /\ UNCHANGED <<vars, handler, listening, conn, backlog, spoke, unread, fin, rst>>

(* Faulty variant: the socket of a client that sent nothing is not closed. *)
CloseAnswered(w) ==
  /\ At(w, "close") /\ Finish(w)
  /\ conn' = [conn EXCEPT ![task[w]] = IF task[w] \in answered THEN "closed" ELSE @]
  /\ UNCHANGED <<handler, listening, backlog, spoke, unread, fin, rst, answered, step, alive>>

(* close(sock); the handler and with it the task return.                   *)
Close(w) ==
  /\ At(w, "close") /\ Finish(w)
  /\ conn' = [conn EXCEPT ![task[w]] = "closed"]
  /\ UNCHANGED <<handler, listening, backlog, spoke, unread, fin, rst, answered, step, alive>>

(* Faulty variant: the connection is kept until its client has left.       *)
DictLinger(w) ==
  handler = "dictOnline" /\ (Read(w) \/ Write(w, "close") \/ (task[w] \in fin /\ Close(w)))

(* The three handlers; what they answer is left out.                       *)
DictOnline(w) == handler = "dictOnline" /\ (Read(w) \/ Write(w, "close") \/ Close(w))
Change(w) == handler = "change" /\ (Read(w) \/ Write(w, "close") \/ Close(w))
Service(w) == handler = "service" /\ (Read(w) \/ Write(w, "read") \/ Close(w))

Serve(w) == Begin(w) \/ DictOnline(w) \/ Change(w) \/ Service(w)
-----------------------------------------------------------------------------
ServerStep ==
  \/ InitServer
  \/ \E k \in Clients : Connect(k) \/ Say(k) \/ Leave(k) \/ Reset(k) \/ Return(k)
  \/ \E p \in Pushers : Accept(p)
  \/ \E t \in Threads : Pool(t)
  \/ \E w \in Workers : Serve(w)

ServerNext == alive /\ ServerStep

ServerSpec == ServerInit /\ [][ServerNext]_serverVars

(* The threads of the server are scheduled.  Clients may stay silent for   *)
(* ever, and a worker blocks in read() as long as its client does.         *)
ServerFairSpec ==
  /\ ServerSpec
  /\ WF_serverVars(alive /\ InitServer)
  /\ \A p \in Pushers : WF_serverVars(alive /\ Accept(p))
  /\ \A t \in Threads :
       WF_serverVars(alive /\ Pool(t) /\ ~(t \in Workers /\ SpuriousWakeup(t)))
  /\ \A w \in Workers : WF_serverVars(alive /\ Serve(w))
  /\ <>[][~\E w \in Workers : SpuriousWakeup(w)]_serverVars
-----------------------------------------------------------------------------
ServerTypeOK ==
  /\ TypeOK
  /\ handler \in {"service", "change", "dictOnline"} /\ listening \in BOOLEAN
  /\ conn \in [Clients -> {"none", "queued", "open", "closed"}]
  /\ backlog \in Seq(Clients)
  /\ spoke \subseteq Clients /\ unread \subseteq Clients
  /\ fin \subseteq Clients /\ rst \subseteq Clients /\ answered \subseteq Clients
  /\ step \in [Workers -> {"read", "write", "close"}]
  /\ alive \in BOOLEAN

(* Every accepted socket has exactly one owner until it is closed, the     *)
(* acceptor, the queue or one worker: none leaks and none is used after    *)
(* its close.                                                              *)
SocketOwned == {k \in Clients : conn[k] = "open"} = Offered \cup Queued \cup Running

(* A client that spoke, even one that left right after, is answered before *)
(* its connection is closed unless it was reset, and no other client is.   *)
AnsweredIfSpoke ==
  \A k \in Clients : conn[k] = "closed" =>
    (k \in answered => k \in spoke) /\ (k \in spoke \ rst => k \in answered)

(* A client that spoke is served although others stay silent for ever, as  *)
(* long as there are no more clients than workers ("at most 10 people      *)
(* online at the same time", say the comments of the handlers): service    *)
(* answers it, the others answer it and close.                             *)
Served ==
  \A k \in Clients :
    k \in spoke ~> \/ conn[k] = "closed"
                   \/ ~alive
                   \/ handler = "service" /\ k \in answered
=============================================================================
