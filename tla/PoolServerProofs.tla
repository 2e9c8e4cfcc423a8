-------------------------- MODULE PoolServerProofs --------------------------
(***************************************************************************)
(* Proofs about PoolServer for any finite sets of clients and workers and  *)
(* whichever handler runs.  The server only ever takes steps of its thread *)
(* pool, so what ThreadPoolProofs shows of the pool carries over; on it    *)
(* rest who owns a socket and who has been answered.                       *)
(***************************************************************************)
EXTENDS PoolServer, ThreadPoolProofs

(* A client waits to be accepted once, and only such clients do.           *)
QueuedOnce ==
  /\ \A i \in 1..Len(backlog) : conn[backlog[i]] = "queued"
  /\ \A i, j \in 1..Len(backlog) : backlog[i] = backlog[j] => i = j

RunBy(w, k) == pc[w] = "run" /\ task[w] = k

(* k's socket is with the acceptor, in the queue, or with a worker.        *)
Owned(k) ==
  \/ \E p \in Pushers : arg[p] = k
  \/ \E i \in 1..Len(task_queue) : task_queue[i] = k
  \/ \E w \in Workers : RunBy(w, k)

OpenOwned == \A k \in Clients : conn[k] = "open" <=> Owned(k)

(* Only who spoke has a request to read, or an answer; a client without a  *)
(* connection has nothing.                                                 *)
Talk ==
  /\ unread \subseteq spoke /\ answered \subseteq spoke
  /\ \A k \in Clients : conn[k] = "none" => k \notin spoke \cup fin \cup rst

Settled(k) == k \in spoke => k \in answered \cup rst

(* As long as no worker has taken it, a request is unread; a closed        *)
(* connection owes no answer.                                              *)
OutsideWorkers ==
  \A k \in Clients :
    /\ conn[k] \in {"queued", "open"} /\ (\A w \in Workers : ~RunBy(w, k)) =>
         (k \in spoke => k \in unread)
    /\ conn[k] = "closed" => Settled(k)

(* What a worker owes its client, by what it does next.  When it is about  *)
(* to close, the client cannot speak any more: it has left or was reset,   *)
(* or has had its one answer.                                              *)
AtRead(w) == At(w, "read") => task[w] \in unread \/ Settled(task[w])
AtWrite(w) == At(w, "write") => task[w] \in spoke
AtClose(w) ==
  At(w, "close") =>
    /\ Settled(task[w])
    /\ task[w] \in fin \cup rst \/ (task[w] \in spoke /\ handler # "service")

InWorkers == \A w \in Workers : AtRead(w) /\ AtWrite(w) /\ AtClose(w)

ClientInv ==
  QueuedOnce /\ OpenOwned /\ Talk /\ OutsideWorkers /\ InWorkers

ServerInv == ServerTypeOK /\ Consistent /\ Apart /\ ClientInv
-----------------------------------------------------------------------------
(* The server and the pool.                                                *)

(* Every step of the server is a step of its pool, or none of the pool's.  *)
LEMMA ServerPoolStep == ServerTypeOK /\ [ServerNext]_serverVars => [Next]_vars
<1> SUFFICES ASSUME ServerTypeOK, [ServerNext]_serverVars PROVE [Next]_vars
  OBVIOUS
<1> USE DEF Next, PusherStep, WorkerStep, Threads
<1>1. ASSUME NEW p \in Pushers, Accept(p) PROVE Next
  <2>1. Head(backlog) \in Tasks
    BY <1>1 DEF Accept, ServerTypeOK, Clients
  <2> QED
    BY <1>1, <2>1 DEF Accept
<1>2. ASSUME NEW t \in Threads, Pool(t) PROVE Next
  BY <1>2 DEF Pool
<1>3. ASSUME NEW w \in Workers, Begin(w) PROVE Next
  BY <1>3 DEF Begin
<1>4. ASSUME NEW w \in Workers, Close(w) PROVE Next
  BY <1>4 DEF Close
<1>5. ASSUME NEW w \in Workers, Read(w) \/ Write(w, "read") \/ Write(w, "close")
      PROVE  UNCHANGED vars
  BY <1>5 DEF Read, Write
<1>6. ASSUME NEW w \in Workers, Serve(w) PROVE [Next]_vars
  BY <1>3, <1>4, <1>5, <1>6 DEF Serve, DictOnline, Change, Service
<1>7. ASSUME NEW k \in Clients, Connect(k) \/ Say(k) \/ Leave(k) \/ Reset(k) \/ Return(k)
      PROVE  UNCHANGED vars
  BY <1>7 DEF Connect, Say, Leave, Reset, Return
<1>8. CASE InitServer
  BY <1>8 DEF InitServer
<1>9. CASE UNCHANGED serverVars
  BY <1>9 DEF serverVars
<1> QED
  BY <1>1, <1>2, <1>6, <1>7, <1>8, <1>9 DEF ServerNext, ServerStep

(* The pool's own steps move a task from the pusher to the queue at most.  *)
LEMMA PoolKeeps ==
  ASSUME Inv, NEW t \in Threads, Pool(t)
  PROVE  /\ task' = task
         /\ \A w \in Workers : pc'[w] = "run" <=> pc[w] = "run"
         /\ \A k \in Clients : Owned(k)' <=> Owned(k)
<1> USE ThreadPoolAssumption DEF Threads, States, Inv, TypeOK, Consistent, Clients
<1>1. ASSUME arg' = arg, task_queue' = task_queue, task' = task,
             \A w \in Workers : pc'[w] = "run" <=> pc[w] = "run"
      PROVE  \A k \in Clients : Owned(k)' <=> Owned(k)
  BY <1>1 DEF Owned, RunBy
<1>2. CASE Lock(t)
  BY <1>1, <1>2 DEF Lock
<1>3. CASE t \in Pushers /\ Push(t)
  <2>1. PICK ws \in Signalled \cup {{}} :
           Wake(t, IF t \in Early THEN "idle" ELSE "signal", ws)
    BY <1>3, PushWakes
  <2>2. ws \subseteq cond
    BY <2>1, SignalledWakes
  <2>3. task' = task /\ \A w \in Workers : pc'[w] = "run" <=> pc[w] = "run"
    BY <1>3, <2>1, <2>2 DEF Push, Wake
  <2>4. arg[t] \in Tasks /\ \A p \in Pushers : arg'[p] = IF p = t THEN NoTask ELSE arg[p]
    BY <1>3 DEF Push, Enqueue
  <2>5. /\ Len(task_queue') = Len(task_queue) + 1
        /\ Len(task_queue) + 1 \in 1..Len(task_queue')
        /\ \A i \in 1..Len(task_queue) : i \in 1..Len(task_queue')
        /\ \A i \in 1..Len(task_queue') :
             i # Len(task_queue) + 1 => i \in 1..Len(task_queue)
        /\ \A i \in 1..Len(task_queue') :
             task_queue'[i] = IF i = Len(task_queue) + 1 THEN arg[t] ELSE task_queue[i]
    BY <1>3 DEF Push, Enqueue
  <2>6. ASSUME NEW k \in Clients PROVE Owned(k)' <=> Owned(k)
    <3>1. (\E w \in Workers : RunBy(w, k))' <=> \E w \in Workers : RunBy(w, k)
      BY <2>3 DEF RunBy
    <3>2. (\E i \in 1..Len(task_queue') : task_queue'[i] = k)
            <=> (k = arg[t] \/ \E i \in 1..Len(task_queue) : task_queue[i] = k)
      <4>1. ASSUME NEW i \in 1..Len(task_queue'), task_queue'[i] = k
            PROVE  k = arg[t] \/ \E j \in 1..Len(task_queue) : task_queue[j] = k
        BY <2>5, <4>1
      <4>2. ASSUME k = arg[t]
            PROVE  \E j \in 1..Len(task_queue') : task_queue'[j] = k
        BY <2>5, <4>2
      <4>3. ASSUME NEW i \in 1..Len(task_queue), task_queue[i] = k
            PROVE  \E j \in 1..Len(task_queue') : task_queue'[j] = k
        <5>1. i # Len(task_queue) + 1
          OBVIOUS
        <5> QED
          BY <2>5, <4>3, <5>1
      <4> QED
        BY <4>1, <4>2, <4>3
    <3>3. (\E p \in Pushers : arg[p] = k) <=> (k = arg[t] \/ \E p \in Pushers : arg'[p] = k)
      BY <1>3, <2>4
    <3> QED
      BY <3>1, <3>2, <3>3 DEF Owned
  <2> QED
    BY <2>3, <2>6
<1>4. CASE t \in Pushers /\ Wakeup(t)
  <2>1. PICK ws \in Signalled : Wake(t, "idle", ws)
    BY <1>4 DEF Wakeup, Signal
  <2>2. ws \subseteq cond
    BY SignalledWakes
  <2> QED
    BY <1>1, <1>4, <2>1, <2>2 DEF Wakeup, Wake
<1>5. CASE t \in Workers /\ WaitCond(t)
  BY <1>1, <1>5 DEF WaitCond
<1>6. CASE t \in Workers /\ SpuriousWakeup(t)
  BY <1>1, <1>6 DEF SpuriousWakeup, Wake
<1> QED
  BY <1>2, <1>3, <1>4, <1>5, <1>6 DEF Pool, PusherStep

(* A worker that takes a task takes one that was queued, and that no other *)
(* worker runs.                                                            *)
LEMMA BeginTakes ==
  ASSUME Inv, Apart, NEW w \in Workers, GetTask(w)
  PROVE  /\ pc[w] # "run" /\ task'[w] \in Clients /\ pc'[w] = "run"
         /\ \E i \in 1..Len(task_queue) : task_queue[i] = task'[w]
         /\ \A v \in Workers : ~RunBy(v, task'[w])
         /\ \A v \in Workers \ {w} : task'[v] = task[v] /\ pc'[v] = pc[v]
         /\ \A k \in Clients : Owned(k)' <=> Owned(k)
<1> USE ThreadPoolAssumption DEF Threads, States, Inv, TypeOK, Consistent, Clients
<1>1. /\ 1 \in 1..Len(task_queue) /\ task_queue[1] \in Tasks /\ arg' = arg
      /\ \A v \in Workers : task'[v] = IF v = w THEN task_queue[1] ELSE task[v]
      /\ \A v \in Workers : pc'[v] = IF v = w THEN "run" ELSE pc[v]
      /\ pc[w] = "inside"
  BY DEF GetTask
<1>2. /\ Len(task_queue') = Len(task_queue) - 1
      /\ \A i \in 1..Len(task_queue') :
           task_queue'[i] = task_queue[i + 1] /\ i + 1 \in 1..Len(task_queue)
      /\ \A i \in 1..Len(task_queue) : i # 1 =>
           i - 1 \in 1..Len(task_queue') /\ task_queue'[i - 1] = task_queue[i]
  BY DEF GetTask, PopFront
<1>3. ASSUME NEW k \in Clients PROVE Owned(k)' <=> Owned(k)
  <2>1. (\E i \in 1..Len(task_queue) : task_queue[i] = k)
          <=> (k = task_queue[1] \/ \E i \in 1..Len(task_queue') : task_queue'[i] = k)
    BY <1>1, <1>2
  <2>2. (\E v \in Workers : RunBy(v, k))'
          <=> (k = task_queue[1] \/ \E v \in Workers : RunBy(v, k))
    BY <1>1 DEF RunBy
  <2>3. (\E p \in Pushers : arg[p] = k)' <=> \E p \in Pushers : arg[p] = k
    BY <1>1
  <2> QED
    BY <2>1, <2>2, <2>3 DEF Owned
<1>4. \A v \in Workers : ~RunBy(v, task'[w])
  BY <1>1 DEF Apart, RunBy
<1> QED
  BY <1>1, <1>3, <1>4
-----------------------------------------------------------------------------
(* The clients' invariant, by who moves.                                   *)

LEMMA ServerInitInv == ServerInit => ServerInv
<1> SUFFICES ASSUME ServerInit PROVE ServerInv
  OBVIOUS
<1> USE ThreadPoolAssumption DEF ServerInit, Clients
<1>1. Inv
  BY InitInv
<1>2. ServerTypeOK
  <2>1. backlog \in Seq(Clients)
    OBVIOUS
  <2> QED
    BY <1>1, <2>1 DEF ServerTypeOK, Inv
<1>3. /\ Len(task_queue) = 0 /\ 1..Len(task_queue) = {}
      /\ Len(backlog) = 0 /\ 1..Len(backlog) = {}
  BY Len(<<>>) = 0 DEF Init
<1>4. /\ \A w \in Workers : pc[w] # "run"
      /\ \A p \in Pushers : arg[p] = NoTask
  BY DEF Init, Threads
<1>5. Apart
  BY <1>3, <1>4 DEF Apart
<1>6. ClientInv
  BY <1>3, <1>4 DEF ClientInv, QueuedOnce, OpenOwned, Owned, RunBy, Talk,
    OutsideWorkers, Settled, InWorkers, AtRead, AtWrite, AtClose, At
<1> QED
  BY <1>1, <1>2, <1>5, <1>6 DEF ServerInv, Inv

(* Every step keeps the variables of the server in their types.            *)
LEMMA ServerNextTyped ==
  ServerTypeOK /\ Consistent /\ TypeOK' /\ [ServerNext]_serverVars => ServerTypeOK'
<1> SUFFICES ASSUME ServerTypeOK, Consistent, TypeOK', [ServerNext]_serverVars
             PROVE  ServerTypeOK'
  OBVIOUS
<1> USE DEF ServerTypeOK, Clients
<1>1. CASE InitServer
  BY <1>1 DEF InitServer
<1>2. ASSUME NEW k \in Clients, Connect(k) PROVE ServerTypeOK'
  BY <1>2 DEF Connect
<1>3. ASSUME NEW k \in Clients, Say(k) \/ Leave(k) \/ Reset(k) \/ Return(k)
      PROVE  ServerTypeOK'
  BY <1>3 DEF Say, Leave, Reset, Return
<1>4. ASSUME NEW p \in Pushers, Accept(p) PROVE ServerTypeOK'
  BY <1>4 DEF Accept
<1>5. ASSUME NEW t \in Threads, Pool(t) PROVE ServerTypeOK'
  BY <1>5 DEF Pool, connVars
<1>6. ASSUME NEW w \in Workers, Begin(w) PROVE ServerTypeOK'
  BY <1>6 DEF Begin, connVars
<1>7. ASSUME NEW w \in Workers, Read(w) PROVE ServerTypeOK'
  BY <1>7 DEF Read, NextStep
<1>8. ASSUME NEW w \in Workers, NEW next \in {"read", "close"}, Write(w, next)
      PROVE  ServerTypeOK'
  <2>1. answered' \subseteq Clients
    <3>1. pc[w] = "run" /\ answered' = answered \cup ({task[w]} \ rst)
      BY <1>8 DEF Write, At
    <3>2. task[w] \in Clients
      BY <3>1 DEF TypeOK, Consistent
    <3> QED
      BY <3>1, <3>2
  <2> QED
    BY <1>8, <2>1 DEF Write
<1>9. ASSUME NEW w \in Workers, Close(w) PROVE ServerTypeOK'
  BY <1>9 DEF Close
<1>10. CASE UNCHANGED serverVars
  BY <1>10 DEF serverVars, connVars
<1> QED
  BY <1>1, <1>2, <1>3, <1>4, <1>5, <1>6, <1>7, <1>8, <1>9, <1>10
  DEF ServerNext, ServerStep, Serve, DictOnline, Change, Service

(* A worker runs for a client whose socket is open, and for one that no    *)
(* other worker runs for.                                                  *)
LEMMA RunsOpen ==
  ASSUME ServerInv, NEW w \in Workers, pc[w] = "run"
  PROVE  /\ task[w] \in Clients /\ conn[task[w]] = "open"
         /\ \A v \in Workers : RunBy(v, task[w]) => v = w
<1>1. task[w] \in Clients
  BY DEF ServerInv, ServerTypeOK, TypeOK, Consistent, Clients
<1>2. Owned(task[w])
  BY DEF Owned, RunBy
<1> QED
  BY <1>1, <1>2 DEF ServerInv, ClientInv, OpenOwned, Apart, RunBy

LEMMA ConnectKeeps ==
  ASSUME ServerInv, NEW k \in Clients, Connect(k)
  PROVE  ClientInv'
<1> USE DEF ServerInv, ClientInv, Connect, vars
<1>1. QueuedOnce'
  <2>1. /\ Len(backlog) \in Nat /\ Len(backlog') = Len(backlog) + 1
        /\ \A i \in 1..Len(backlog') :
             i # Len(backlog) + 1 => i \in 1..Len(backlog)
        /\ \A i \in 1..Len(backlog') :
             backlog'[i] = IF i = Len(backlog) + 1 THEN k ELSE backlog[i]
        /\ \A i \in 1..Len(backlog) : backlog[i] \in Clients /\ backlog[i] # k
    BY DEF ServerTypeOK, QueuedOnce
  <2>2. \A j \in Clients : conn'[j] = IF j = k THEN "queued" ELSE conn[j]
    BY DEF ServerTypeOK
  <2> QED
    BY <2>1, <2>2 DEF QueuedOnce
<1>2. OpenOwned'
  BY DEF ServerTypeOK, OpenOwned, Owned, RunBy
<1>3. Talk'
  BY DEF ServerTypeOK, Talk
<1>4. OutsideWorkers'
  BY DEF ServerTypeOK, OutsideWorkers, Talk, RunBy, Settled
<1>5. InWorkers'
  BY DEF InWorkers, AtRead, AtWrite, AtClose, At, Settled
<1> QED
  BY <1>1, <1>2, <1>3, <1>4, <1>5

LEMMA SayKeeps ==
  ASSUME ServerInv, NEW k \in Clients, Say(k)
  PROVE  ClientInv'
<1> USE DEF ServerInv, ClientInv, Say, Up, vars
<1>1. QueuedOnce'
  BY DEF QueuedOnce
<1>2. OpenOwned'
  BY DEF OpenOwned, Owned, RunBy
<1>3. Talk'
  BY DEF Talk
<1>4. OutsideWorkers'
  BY DEF OutsideWorkers, RunBy, Settled
<1>5. InWorkers'
  BY DEF InWorkers, AtRead, AtWrite, AtClose, At, Settled
<1> QED
  BY <1>1, <1>2, <1>3, <1>4, <1>5

LEMMA LeaveKeeps ==
  ASSUME ServerInv, NEW k \in Clients, Leave(k) \/ Reset(k)
  PROVE  ClientInv'
<1> USE DEF ServerInv, ClientInv, Leave, Reset, Up, vars
<1>1. QueuedOnce'
  BY DEF QueuedOnce
<1>2. OpenOwned'
  BY DEF OpenOwned, Owned, RunBy
<1>3. Talk'
  BY DEF Talk
<1>4. OutsideWorkers'
  BY DEF OutsideWorkers, RunBy, Settled
<1>5. InWorkers'
  BY DEF InWorkers, AtRead, AtWrite, AtClose, At, Settled
<1> QED
  BY <1>1, <1>2, <1>3, <1>4, <1>5

LEMMA ReturnKeeps ==
  ASSUME ServerInv, NEW k \in Clients, Return(k)
  PROVE  ClientInv'
<1> USE DEF ServerInv, ClientInv, Return, vars
<1>0. \A j \in Clients : conn'[j] = IF j = k THEN "none" ELSE conn[j]
  BY DEF ServerTypeOK
<1>1. QueuedOnce'
  <2>1. \A i \in 1..Len(backlog) : backlog[i] \in Clients
    BY DEF ServerTypeOK
  <2> QED
    BY <1>0, <2>1 DEF QueuedOnce
<1>2. OpenOwned'
  BY <1>0 DEF OpenOwned, Owned, RunBy
<1>3. Talk'
  BY <1>0 DEF Talk
<1>4. OutsideWorkers'
  BY <1>0 DEF OutsideWorkers, RunBy, Settled
<1>5. InWorkers'
  <2>1. \A w \in Workers : pc[w] = "run" => task[w] # k
    BY RunsOpen
  <2> QED
    BY <2>1 DEF InWorkers, AtRead, AtWrite, AtClose, At, Settled
<1> QED
  BY <1>1, <1>2, <1>3, <1>4, <1>5

LEMMA AcceptKeeps ==
  ASSUME ServerInv, NEW p \in Pushers, Accept(p)
  PROVE  ClientInv'
<1> USE DEF ServerInv, ClientInv, Accept
<1> PICK k : k = Head(backlog)
  OBVIOUS
<1>0. /\ backlog \in Seq(Clients) /\ Len(backlog) \in Nat /\ backlog # <<>>
      /\ k = backlog[1] /\ 1 \in 1..Len(backlog) /\ k \in Clients
      /\ \A j \in Clients : conn'[j] = IF j = k THEN "open" ELSE conn[j]
      /\ \A i \in 1..Len(backlog) : backlog[i] \in Clients
  BY DEF ServerTypeOK
<1>1. conn[k] = "queued"
  BY <1>0 DEF QueuedOnce
<1>2. QueuedOnce'
  <2>1. /\ Len(backlog') = Len(backlog) - 1
        /\ \A i \in 1..Len(backlog') :
             backlog'[i] = backlog[i + 1] /\ i + 1 \in 1..Len(backlog) /\ i + 1 # 1
        /\ \A i, j \in 1..Len(backlog') : i + 1 = j + 1 => i = j
    BY <1>0
  <2>2. \A i, j \in 1..Len(backlog') : backlog'[i] = backlog'[j] => i = j
    BY <2>1 DEF QueuedOnce
  <2>3. \A i \in 1..Len(backlog') : backlog'[i] # k /\ backlog'[i] \in Clients
    BY <1>0, <2>1 DEF QueuedOnce
  <2>4. \A i \in 1..Len(backlog') : conn'[backlog'[i]] = "queued"
    BY <1>0, <2>1, <2>3 DEF QueuedOnce
  <2> QED
    BY <2>2, <2>4 DEF QueuedOnce
<1>3. /\ task_queue' = task_queue /\ task' = task
      /\ \A w \in Workers : pc'[w] = pc[w]
      /\ \A q \in Pushers : arg'[q] = IF q = p THEN k ELSE arg[q]
      /\ arg[p] = NoTask
  BY ThreadPoolAssumption
  DEF Make, ServerTypeOK, TypeOK, Consistent, Threads
<1>4. OpenOwned'
  <2>1. ASSUME NEW j \in Clients, j # k PROVE Owned(j)' <=> Owned(j)
    BY <1>3, <2>1, ThreadPoolAssumption DEF Owned, RunBy, Clients
  <2>2. Owned(k)'
    BY <1>3 DEF Owned
  <2> QED
    BY <1>0, <2>1, <2>2 DEF OpenOwned
<1>5. Talk'
  BY <1>0 DEF Talk
<1>6. OutsideWorkers'
  BY <1>0, <1>1, <1>3 DEF OutsideWorkers, RunBy, Settled
<1>7. InWorkers'
  BY <1>3 DEF InWorkers, AtRead, AtWrite, AtClose, At, Settled
<1> QED
  BY <1>2, <1>4, <1>5, <1>6, <1>7

LEMMA PoolKeepsClients ==
  ASSUME ServerInv, NEW t \in Threads, Pool(t)
  PROVE  ClientInv'
<1> USE DEF ServerInv, ClientInv, Pool, connVars
<1>1. /\ task' = task
      /\ \A w \in Workers : pc'[w] = "run" <=> pc[w] = "run"
      /\ \A k \in Clients : Owned(k)' <=> Owned(k)
  BY PoolKeeps DEF Inv, ServerTypeOK
<1>2. QueuedOnce'
  BY DEF QueuedOnce
<1>3. OpenOwned'
  BY <1>1 DEF OpenOwned
<1>4. Talk'
  BY DEF Talk
<1>5. OutsideWorkers'
  BY <1>1 DEF OutsideWorkers, RunBy, Settled
<1>6. InWorkers'
  BY <1>1 DEF InWorkers, AtRead, AtWrite, AtClose, At, Settled
<1> QED
  BY <1>2, <1>3, <1>4, <1>5, <1>6

LEMMA BeginKeeps ==
  ASSUME ServerInv, NEW w \in Workers, Begin(w)
  PROVE  ClientInv'
<1> USE DEF ServerInv, ClientInv, Begin, connVars
<1> PICK k : k = task'[w]
  OBVIOUS
<1>1. /\ pc[w] # "run" /\ k \in Clients /\ pc'[w] = "run"
      /\ \E i \in 1..Len(task_queue) : task_queue[i] = k
      /\ \A v \in Workers : ~RunBy(v, k)
      /\ \A v \in Workers \ {w} : task'[v] = task[v] /\ pc'[v] = pc[v]
      /\ \A j \in Clients : Owned(j)' <=> Owned(j)
  BY BeginTakes DEF Inv, ServerTypeOK
<1>2. \A v \in Workers : step'[v] = IF v = w THEN "read" ELSE step[v]
  BY DEF ServerTypeOK
<1>3. conn[k] = "open" /\ (k \in spoke => k \in unread)
  <2>1. conn[k] = "open"
    BY <1>1 DEF OpenOwned, Owned
  <2> QED
    BY <1>1, <2>1 DEF OutsideWorkers
<1>4. QueuedOnce'
  BY DEF QueuedOnce
<1>5. OpenOwned'
  BY <1>1 DEF OpenOwned
<1>6. Talk'
  BY DEF Talk
<1>7. OutsideWorkers'
  <2>1. \A v \in Workers, j \in Clients : RunBy(v, j) => RunBy(v, j)'
    BY <1>1 DEF RunBy
  <2> QED
    BY <2>1 DEF OutsideWorkers, Settled
<1>8. InWorkers'
  <2>1. AtRead(w)' /\ AtWrite(w)' /\ AtClose(w)'
    BY <1>2, <1>3 DEF AtRead, AtWrite, AtClose, At, Settled
  <2>2. ASSUME NEW v \in Workers, v # w
        PROVE  AtRead(v)' /\ AtWrite(v)' /\ AtClose(v)'
    BY <1>1, <1>2, <2>2 DEF InWorkers, AtRead, AtWrite, AtClose, At, Settled
  <2> QED
    BY <2>1, <2>2 DEF InWorkers
<1> QED
  BY <1>4, <1>5, <1>6, <1>7, <1>8

LEMMA ReadKeeps ==
  ASSUME ServerInv, NEW w \in Workers, Read(w)
  PROVE  ClientInv'
<1> USE DEF ServerInv, ClientInv, Read, vars
<1> PICK k : k = task[w]
  OBVIOUS
<1>1. /\ pc[w] = "run" /\ step[w] = "read" /\ k \in Clients /\ conn[k] = "open"
      /\ \A v \in Workers : RunBy(v, k) => v = w
  BY RunsOpen DEF At
<1>2. \A v \in Workers :
        step'[v] = IF v = w THEN (IF k \in unread THEN "write" ELSE "close") ELSE step[v]
  BY DEF ServerTypeOK, NextStep
<1>3. QueuedOnce'
  BY DEF QueuedOnce
<1>4. OpenOwned'
  BY DEF OpenOwned, Owned, RunBy
<1>5. Talk'
  BY DEF Talk
<1>6. OutsideWorkers'
  BY <1>1 DEF OutsideWorkers, RunBy, Settled
<1>7. InWorkers'
  <2>1. AtRead(w)' /\ AtWrite(w)' /\ AtClose(w)'
    BY <1>1, <1>2 DEF InWorkers, AtRead, AtWrite, AtClose, At, Settled, Talk
  <2>2. ASSUME NEW v \in Workers, v # w
        PROVE  AtRead(v)' /\ AtWrite(v)' /\ AtClose(v)'
    BY <1>1, <1>2, <2>2 DEF InWorkers, AtRead, AtWrite, AtClose, At, Settled, RunBy
  <2> QED
    BY <2>1, <2>2 DEF InWorkers
<1> QED
  BY <1>3, <1>4, <1>5, <1>6, <1>7

(* service reads on after its answer, the other handlers close.            *)
LEMMA WriteKeeps ==
  ASSUME ServerInv, NEW w \in Workers, NEW next \in {"read", "close"},
         next = "read" <=> handler = "service", Write(w, next)
  PROVE  ClientInv'
<1> USE DEF ServerInv, ClientInv, Write, vars
<1> PICK k : k = task[w]
  OBVIOUS
<1>1. /\ pc[w] = "run" /\ step[w] = "write" /\ k \in Clients /\ conn[k] = "open"
      /\ \A v \in Workers : RunBy(v, k) => v = w
  BY RunsOpen DEF At
<1>2. \A v \in Workers : step'[v] = IF v = w THEN next ELSE step[v]
  BY DEF ServerTypeOK
<1>3. k \in spoke
  BY <1>1 DEF InWorkers, AtWrite, At
<1>4. QueuedOnce'
  BY DEF QueuedOnce
<1>5. OpenOwned'
  BY DEF OpenOwned, Owned, RunBy
<1>6. Talk'
  BY <1>3 DEF Talk
<1>7. OutsideWorkers'
  BY <1>1 DEF OutsideWorkers, RunBy, Settled
<1>8. InWorkers'
  <2>1. AtRead(w)' /\ AtWrite(w)' /\ AtClose(w)'
    BY <1>1, <1>2, <1>3 DEF AtRead, AtWrite, AtClose, At, Settled
  <2>2. ASSUME NEW v \in Workers, v # w
        PROVE  AtRead(v)' /\ AtWrite(v)' /\ AtClose(v)'
    BY <1>2, <2>2 DEF InWorkers, AtRead, AtWrite, AtClose, At, Settled
  <2> QED
    BY <2>1, <2>2 DEF InWorkers
<1> QED
  BY <1>4, <1>5, <1>6, <1>7, <1>8

LEMMA CloseKeeps ==
  ASSUME ServerInv, NEW w \in Workers, Close(w)
  PROVE  ClientInv'
<1> USE DEF ServerInv, ClientInv, Close, Finish
<1> PICK k : k = task[w]
  OBVIOUS
<1>1. /\ pc[w] = "run" /\ step[w] = "close" /\ k \in Clients /\ conn[k] = "open"
      /\ \A v \in Workers : RunBy(v, k) => v = w
  BY RunsOpen DEF At
<1>2. \A j \in Clients : conn'[j] = IF j = k THEN "closed" ELSE conn[j]
  BY DEF ServerTypeOK
<1>3. \A v \in Workers : pc'[v] = IF v = w THEN "locking" ELSE pc[v]
  BY DEF ServerTypeOK, TypeOK, Threads
<1>4. Settled(k)
  BY <1>1 DEF InWorkers, AtClose, At
<1>5. QueuedOnce'
  <2>1. \A i \in 1..Len(backlog) : backlog[i] \in Clients
    BY DEF ServerTypeOK
  <2> QED
    BY <1>1, <1>2, <2>1 DEF QueuedOnce
<1>6. OpenOwned'
  <2>1. ASSUME NEW j \in Clients, j # k PROVE Owned(j)' <=> Owned(j)
    BY <1>3, <2>1 DEF Owned, RunBy
  <2>2. ~Owned(k)'
    <3>1. \A p \in Pushers : arg[p] # k
      BY <1>1, ThreadPoolAssumption DEF Apart, Clients
    <3>2. \A i \in 1..Len(task_queue) : task_queue[i] # k
      BY <1>1 DEF Apart
    <3> QED
      BY <1>1, <1>3, <3>1, <3>2 DEF Owned, RunBy
  <2> QED
    BY <1>2, <2>1, <2>2 DEF OpenOwned
<1>7. Talk'
  BY <1>2 DEF Talk
<1>8. OutsideWorkers'
  <2>1. ASSUME NEW j \in Clients, j # k, NEW v \in Workers
        PROVE  RunBy(v, j)' <=> RunBy(v, j)
    BY <1>3, <2>1 DEF RunBy
  <2> QED
    BY <1>2, <1>4, <2>1 DEF OutsideWorkers, Settled
<1>9. InWorkers'
  BY <1>3 DEF InWorkers, AtRead, AtWrite, AtClose, At, Settled
<1> QED
  BY <1>5, <1>6, <1>7, <1>8, <1>9

(* Every step of every thread and of every client preserves the invariant. *)
LEMMA ServerNextInv == ServerInv /\ [ServerNext]_serverVars => ServerInv'
<1> SUFFICES ASSUME ServerInv, [ServerNext]_serverVars PROVE ServerInv'
  OBVIOUS
<1>1. [Next]_vars
  BY ServerPoolStep DEF ServerInv
<1>2. Inv' /\ Apart'
  BY <1>1, NextInv, NextApart DEF ServerInv, ServerTypeOK, Inv
<1>3. ServerTypeOK'
  BY <1>2, ServerNextTyped DEF ServerInv, Inv
<1>4. CASE InitServer \/ UNCHANGED serverVars
  <2>1. ClientInv'
    BY <1>4 DEF InitServer, serverVars, connVars, vars, ServerInv, ClientInv,
      QueuedOnce, OpenOwned, Owned, RunBy, Talk, OutsideWorkers, Settled,
      InWorkers, AtRead, AtWrite, AtClose, At
  <2> QED
    BY <1>2, <1>3, <2>1 DEF ServerInv, Inv
<1>5. ASSUME NEW w \in Workers, Serve(w) PROVE ClientInv'
  BY <1>5, BeginKeeps, ReadKeeps, WriteKeeps, CloseKeeps
  DEF Serve, DictOnline, Change, Service
<1> QED
  BY <1>2, <1>3, <1>4, <1>5, ConnectKeeps, SayKeeps, LeaveKeeps, ReturnKeeps,
     AcceptKeeps, PoolKeepsClients DEF ServerNext, ServerStep, ServerInv, Inv

LEMMA ServerInvariance == ServerSpec => []ServerInv
BY ServerInitInv, ServerNextInv, PTL DEF ServerSpec

(* The server runs its pool as the pool may be run: what is proved of the  *)
(* pool, that no wakeup is lost, holds of the server.                      *)
THEOREM ServerRunsPool == ServerSpec => Spec
<1>1. ServerInit => Init
  BY DEF ServerInit
<1>2. ServerInv => ServerTypeOK
  BY DEF ServerInv
<1> QED
  BY <1>1, <1>2, ServerInvariance, ServerPoolStep, PTL DEF ServerSpec, Spec

(* Each accepted socket is with the acceptor, in the queue or with a       *)
(* worker, with one of them only, from accept to close.                    *)
THEOREM SocketsOwned == ServerSpec => [](SocketOwned /\ RunOnce)
<1>1. ServerInv => SocketOwned
  <2> SUFFICES ASSUME ServerInv PROVE SocketOwned
    OBVIOUS
  <2> USE ThreadPoolAssumption DEF ServerInv, ServerTypeOK, TypeOK, Consistent, Clients
  <2>1. ASSUME NEW k PROVE k \in Offered <=> k \in Clients /\ \E p \in Pushers : arg[p] = k
    BY DEF Offered
  <2>2. ASSUME NEW k
        PROVE  k \in Queued <=>
                 k \in Clients /\ \E i \in 1..Len(task_queue) : task_queue[i] = k
    <3>1. /\ DOMAIN task_queue = 1..Len(task_queue)
          /\ \A i \in 1..Len(task_queue) : task_queue[i] \in Tasks
      OBVIOUS
    <3> QED
      BY <3>1 DEF Queued
  <2>3. ASSUME NEW k
        PROVE  k \in Running <=> k \in Clients /\ \E w \in Workers : RunBy(w, k)
    <3>1. \A w \in Workers : pc[w] = "run" => task[w] \in Tasks
      OBVIOUS
    <3> QED
      BY <3>1 DEF Running, RunBy
  <2> QED
    BY <2>1, <2>2, <2>3 DEF SocketOwned, Owned, ClientInv, OpenOwned
<1>2. ServerInv => RunOnce
  BY ApartIsRunOnce DEF ServerInv, ServerTypeOK, Inv
<1> QED
  BY <1>1, <1>2, ServerInvariance, PTL

(* Whatever handler serves it, and however its leaving and the worker's    *)
(* reads interleave, a client that spoke has its answer before its         *)
(* connection is closed unless it was reset.                               *)
THEOREM AnsweredBeforeClose == ServerSpec => []AnsweredIfSpoke
<1>1. ServerInv => AnsweredIfSpoke
  BY DEF ServerInv, ClientInv, AnsweredIfSpoke, OutsideWorkers, Settled, Talk
<1> QED
  BY <1>1, ServerInvariance, PTL
=============================================================================
