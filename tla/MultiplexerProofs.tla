------------------------- MODULE MultiplexerProofs -------------------------
(***************************************************************************)
(* Proofs about Multiplexer for any set of clients, any size of the arrays *)
(* and any number of descriptors, whichever of the three servers runs.     *)
(***************************************************************************)
EXTENDS Multiplexer, WellFoundedInduction, SequenceTheorems, TLAPS

(* A connection waits to be accepted once, and only such connections do.   *)
QueuedOnce ==
  /\ \A i \in DOMAIN backlog : cl[backlog[i]] = "queued"
  /\ \A i, j \in DOMAIN backlog : backlog[i] = backlog[j] => i = j

(* Until the constructor is through, nothing is accepted or watched.       *)
NotServing ==
  up # "serving" =>
    /\ ready = {} /\ pos = Slots[server] /\ interest = {} /\ leaked = {}
    /\ \A fd \in Conns : file[fd] = NoClient
    /\ \A i \in Entries : slot[i] = FD_NONE
    /\ \A k \in Clients : cl[k] # "open"

(* A connection that epoll does not watch is never closed.                 *)
LeakedOpen ==
  /\ \A k \in leaked : cl[k] = "open"
  /\ server # "epoll" => leaked = {}

(* The descriptor table names the open connections, each once.             *)
FilesOpen ==
  /\ \A k \in Clients : cl[k] = "open" <=> \E fd \in Conns : file[fd] = k
  /\ \A fd, other \in Conns :
       file[fd] = file[other] /\ file[fd] # NoClient => fd = other

(* The array names the open descriptors and the listening socket, each     *)
(* once, and the listening socket in entry 0.                              *)
ArrayAgrees ==
  server # "epoll" /\ up = "serving" =>
    /\ slot[0] = Listen
    /\ \A fd \in Conns : file[fd] # NoClient <=> \E i \in Entries : slot[i] = fd
    /\ \A i, j \in Entries : slot[i] = slot[j] /\ slot[i] # FD_NONE => i = j

(* epoll watches the listening socket and the open descriptors but those   *)
(* whose EPOLL_CTL_ADD failed.                                             *)
EpollAgrees ==
  server = "epoll" /\ up = "serving" =>
    /\ Listen \in interest
    /\ \A fd \in Conns :
         fd \in interest <=> file[fd] # NoClient /\ file[fd] \notin leaked

(* Before the sweep has accepted anything, what was reported is of         *)
(* descriptors in use, which accept will not give out.                     *)
Reported ==
  /\ server = "select" /\ pos = 0 => \A fd \in ready : Readable(fd)
  /\ server = "poll" /\ pos = 0 =>
       \A i \in Entries : i \in ready => slot[i] # FD_NONE
  /\ server = "select" => ready \subseteq Conns \cup {Listen}
  /\ server = "epoll" => ready \subseteq interest

(* NeverBlocks, by the entries of the array.                               *)
Sweepable ==
  /\ server # "epoll" =>
       \A i \in Entries : i >= pos /\ Marked(i) => Readable(slot[i])
  /\ server = "epoll" => \A fd \in ready : Readable(fd)

Agree == FilesOpen /\ ArrayAgrees /\ EpollAgrees /\ LeakedOpen

MultiplexerInv ==
  /\ TypeOK /\ QueuedOnce /\ NotServing /\ Agree /\ Reported /\ Sweepable
-----------------------------------------------------------------------------
(* A nonempty set of numbers has a least one, which is what Min chooses.   *)
LEMMA MinIn ==
  ASSUME NEW T, T \subseteq Nat, T # {}
  PROVE  Min(T) \in T
<1> DEFINE Less == OpToRel(<, Nat)
<1>1. IsWellFoundedOn(Less, Nat)
  BY NatLessThanWellFounded, Zenon
<1>2. Less = {pair \in Nat \X Nat : pair[1] < pair[2]}
  BY Zenon DEF OpToRel
<1> HIDE DEF Less
<1>3. PICK m \in T : \A n \in T : ~(<<n, m>> \in Less)
  BY <1>1, WFMin, Zenon
<1>4. \A n \in T : ~(n < m)
  BY <1>2, <1>3
<1>5. \A n \in T : m <= n
  BY <1>4
<1> QED
  BY <1>5, Zenon DEF Min

(* Descriptors and entries are numbers; the listening socket and the mark  *)
(* of an unused entry are no connections.                                  *)
LEMMA Numbers ==
  ASSUME server \in Servers
  PROVE  /\ Slots[server] \in Nat /\ Entries \subseteq Nat /\ Conns \subseteq Nat
         /\ \A i \in Entries : i < Slots[server]
         /\ \A i \in Nat : i < Slots[server] => i \in Entries
         /\ server # "epoll" => 0 \in Entries
         /\ server = "epoll" => Slots[server] = 0 /\ Entries = {}
         /\ Listen \notin Conns /\ FD_NONE \notin Conns /\ Listen # FD_NONE
<1>1. Slots[server] \in Nat /\ Limit[server] \in Nat
  BY SlotsAssumption, LimitAssumption
<1>2. Entries \subseteq Nat /\ Conns \subseteq Nat
      /\ (\A i \in Entries : i < Slots[server])
      /\ \A i \in Nat : i < Slots[server] => i \in Entries
  BY <1>1 DEF Entries, Conns
<1>3. server # "epoll" => 0 \in Entries
  BY <1>1, SlotsAssumption DEF Servers, Entries
<1>4. server = "epoll" => Slots[server] = 0 /\ Entries = {}
  BY SlotsAssumption DEF Servers, Entries
<1>5. Listen \notin Conns /\ FD_NONE \notin Conns /\ Listen # FD_NONE
  BY <1>1 DEF Listen, FD_NONE, Conns
<1> QED
  BY <1>1, <1>2, <1>3, <1>4, <1>5

(* What accept() returns: a descriptor that was free, for a connection     *)
(* that waited.                                                            *)
LEMMA AcceptedFree ==
  ASSUME TypeOK, QueuedOnce, NEW fd, NEW k, Accepted(fd, k)
  PROVE  /\ fd \in Conns /\ file[fd] = NoClient
         /\ k \in Clients /\ cl[k] = "queued"
         /\ backlog' \in Seq(Clients) /\ Len(backlog) \in Nat
         /\ Len(backlog') = Len(backlog) - 1
         /\ \A i \in DOMAIN backlog' :
              backlog'[i] = backlog[i + 1] /\ i + 1 \in DOMAIN backlog
         /\ k = backlog[1] /\ 1 \in DOMAIN backlog
<1>1. Free \subseteq Nat /\ Free # {} /\ fd = Min(Free)
  BY Numbers DEF Accepted, Free, TypeOK
<1>2. fd \in Free
  BY <1>1, MinIn
<1>3. backlog \in Seq(Clients) /\ backlog # <<>> /\ k = Head(backlog)
      /\ backlog' = Tail(backlog)
  BY DEF Accepted, TypeOK
<1>4. Len(backlog) \in Nat \ {0} /\ DOMAIN backlog = 1..Len(backlog)
  BY <1>3, EmptySeq, LenProperties
<1>5. /\ k \in Clients /\ backlog' \in Seq(Clients)
      /\ Len(backlog') = Len(backlog) - 1
      /\ \A i \in 1..Len(backlog') : backlog'[i] = backlog[i + 1]
  BY <1>3, HeadTailProperties
<1>6. k = backlog[1] /\ 1 \in DOMAIN backlog
  BY <1>3, <1>4
<1>7. DOMAIN backlog' = 1..Len(backlog')
  BY <1>5, LenProperties
<1> QED
  BY <1>2, <1>4, <1>5, <1>6, <1>7 DEF Free, QueuedOnce

(* The calls of a sweep or of epoll's loop: nothing to do or no descriptor *)
(* left, a connection accepted, refused, read from or closed.              *)
LEMMA Calls ==
  ASSUME TypeOK, NotServing, Agree, Sweep \/ HandlerEvents
  PROVE  /\ up = "serving" /\ UNCHANGED <<server, up>>
         /\ \/ UNCHANGED <<netVars, file, slot, interest, leaked>>
            \/ AddToArray \/ Refuse \/ AddToEpoll
            \/ \E fd \in Conns : /\ file[fd] # NoClient /\ Recver(fd)
                                 /\ server = "epoll" => fd \in ready
<1>0. Slots[server] \in Nat /\ pos \in 0..Slots[server]
      /\ (server = "epoll" => Slots[server] = 0)
  BY Numbers DEF TypeOK
<1>1. CASE Sweep
  <2>1. up = "serving" /\ UNCHANGED <<server, up>> /\ server # "epoll"
    BY <1>0, <1>1 DEF Sweep, NotServing
  <2>2. CASE Marked(pos)
    <3>1. Handle(slot[pos])
      BY <1>1, <2>2 DEF Sweep
    <3>2. CASE slot[pos] = Listen
      BY <2>1, <3>1, <3>2 DEF Handle, Accepter, AcceptFails
    <3>3. CASE slot[pos] # Listen
      <4>1. pos \in Entries /\ slot[pos] # FD_NONE
        BY <1>0, <1>1, <2>2, Numbers DEF Sweep, Marked, TypeOK
      <4>2. slot[pos] \in Conns /\ Recver(slot[pos])
        BY <3>1, <3>3, <4>1 DEF Handle, TypeOK
      <4>3. file[slot[pos]] # NoClient \/ Receive(slot[pos])
        BY <4>2 DEF Recver, Drop
      <4>4. NoClient \notin unread
        BY ClientsAssumption DEF TypeOK
      <4>5. file[slot[pos]] # NoClient
        BY <4>3, <4>4 DEF Receive
      <4> QED
        BY <2>1, <4>2, <4>5
    <3> QED
      BY <3>2, <3>3
  <2>3. CASE ~Marked(pos)
    BY <1>1, <2>1, <2>3 DEF Sweep
  <2> QED
    BY <2>2, <2>3
<1>2. CASE HandlerEvents
  <2>1. PICK fd \in ready : Handle(fd) /\ ready' = ready \ {fd}
    BY <1>2 DEF HandlerEvents
  <2>2. up = "serving" /\ UNCHANGED <<server, up>> /\ server = "epoll"
    BY <1>2, <2>1 DEF HandlerEvents, NotServing
  <2>3. CASE fd = Listen
    BY <2>1, <2>2, <2>3 DEF Handle, Accepter, AcceptFails
  <2>4. CASE fd # Listen
    <3>1. fd \in Conns /\ Recver(fd)
      BY <2>1, <2>2, <2>4, Numbers DEF Handle, TypeOK
    <3>2. file[fd] # NoClient \/ Receive(fd)
      BY <3>1 DEF Recver, Drop
    <3>3. NoClient \notin unread
      BY ClientsAssumption DEF TypeOK
    <3>4. file[fd] # NoClient
      BY <3>2, <3>3 DEF Receive
    <3> QED
      BY <2>2, <3>1, <3>4
  <2> QED
    BY <2>3, <2>4
<1> QED
  BY <1>1, <1>2
-----------------------------------------------------------------------------
LEMMA InitInv == Init => MultiplexerInv
<1> SUFFICES ASSUME Init PROVE MultiplexerInv
  OBVIOUS
<1>0. server \in Servers
  BY DEF Init
<1> USE ClientsAssumption DEF Init
<1>1. TypeOK
  <2>1. <<>> \in Seq(Clients)
    BY EmptySeq
  <2> QED
    BY <1>0, <2>1, Numbers DEF TypeOK
<1>2. QueuedOnce
  <2>1. DOMAIN <<>> = {}
    BY EmptySeq, LenProperties
  <2> QED
    BY <2>1 DEF QueuedOnce
<1>3. NotServing
  BY DEF NotServing
<1>4. Agree
  BY DEF Agree, FilesOpen, ArrayAgrees, EpollAgrees, LeakedOpen
<1>5. Reported /\ Sweepable
  BY DEF Reported, Sweepable, Marked
<1> QED
  BY <1>1, <1>2, <1>3, <1>4, <1>5 DEF MultiplexerInv

LEMMA NextTypeOK == MultiplexerInv /\ [Next]_vars => TypeOK'
<1> SUFFICES ASSUME MultiplexerInv, [Next]_vars PROVE TypeOK'
  OBVIOUS
<1>0. TypeOK /\ QueuedOnce /\ NotServing /\ Agree
  BY DEF MultiplexerInv
<1>0a. /\ Slots[server] \in Nat /\ Entries \subseteq Nat
       /\ (server # "epoll" => 0 \in Entries) /\ \A i \in Entries : i < Slots[server]
  BY <1>0, Numbers DEF TypeOK
<1>1. CASE Construct
  <2>1. server' = server /\ Entries' = Entries /\ Conns' = Conns
    BY <1>1 DEF Construct, Entries, Conns
  <2>2. up' \in {"new", "listening", "serving", "exited"}
    BY <1>1 DEF Construct, SelectListen, PollListen, EpollListen, SelectArray,
                PollArray, CreateEpoll, Listening, FillArray
  <2>3. interest' \subseteq Conns \cup {Listen}
    BY <1>0, <1>1 DEF Construct, SelectListen, PollListen, EpollListen, SelectArray,
                PollArray, CreateEpoll, Listening, FillArray, TypeOK
  <2>4. slot' \in [Entries -> Conns \cup {Listen, FD_NONE}]
    BY <1>0, <1>1 DEF Construct, SelectListen, PollListen, EpollListen, SelectArray,
                PollArray, CreateEpoll, Listening, FillArray, TypeOK
  <2> QED
    BY <1>0, <1>1, <2>1, <2>2, <2>3, <2>4 DEF Construct, netVars, TypeOK
<1>2. CASE Wait
  <2>1. server' = server /\ Entries' = Entries /\ Conns' = Conns
    BY <1>2 DEF Wait, Entries, Conns
  <2>2. ready' \subseteq Conns \cup {Listen} \cup Entries /\ pos' \in 0..Slots[server]
    BY <1>0, <1>0a, <1>2 DEF Wait, Select, Poll, EpollWait, TypeOK
  <2> QED
    BY <1>0, <1>2, <2>1, <2>2 DEF Wait, netVars, TypeOK
<1>3. CASE Sweep \/ HandlerEvents
  <2>1. server' = server /\ up' = up /\ Entries' = Entries /\ Conns' = Conns
    BY <1>0, <1>3, Calls DEF Entries, Conns
  <2>2. ready' \subseteq ready /\ pos' \in 0..Slots[server]
    BY <1>0, <1>0a, <1>3 DEF Sweep, HandlerEvents, TypeOK
  <2>3. CASE UNCHANGED <<netVars, file, slot, interest, leaked>>
    BY <1>0, <2>1, <2>2, <2>3 DEF netVars, TypeOK
  <2>4. CASE AddToArray
    <3>1. PICK fd \in Conns, k \in Clients :
            LET unused == {i \in Entries \ {0} : slot[i] = FD_NONE}
            IN  /\ Accepted(fd, k)
                /\ unused # {}
                /\ slot' = [slot EXCEPT ![Min(unused)] = fd]
                /\ file' = [file EXCEPT ![fd] = k]
                /\ cl' = [cl EXCEPT ![k] = "open"]
                /\ UNCHANGED <<gone, unread, interest, leaked>>
      BY <2>4 DEF AddToArray
    <3>2. backlog' \in Seq(Clients)
      BY <1>0, <3>1, AcceptedFree
    <3> QED
      BY <1>0, <2>1, <2>2, <3>1, <3>2 DEF TypeOK
  <2>5. CASE Refuse
    <3>1. PICK fd \in Conns, k \in Clients :
            /\ Accepted(fd, k)
            /\ cl' = [cl EXCEPT ![k] = "idle"]
            /\ gone' = gone \ {k} /\ unread' = unread \ {k}
            /\ UNCHANGED <<file, slot, interest, leaked>>
      BY <2>5 DEF Refuse
    <3>2. backlog' \in Seq(Clients)
      BY <1>0, <3>1, AcceptedFree
    <3> QED
      BY <1>0, <2>1, <2>2, <3>1, <3>2 DEF TypeOK
  <2>6. CASE AddToEpoll
    <3>1. PICK fd \in Conns, k \in Clients :
            /\ Accepted(fd, k)
            /\ file' = [file EXCEPT ![fd] = k]
            /\ cl' = [cl EXCEPT ![k] = "open"]
            /\ \/ interest' = interest \cup {fd} /\ UNCHANGED leaked
               \/ leaked' = leaked \cup {k} /\ UNCHANGED interest
            /\ UNCHANGED <<gone, unread, slot>>
      BY <2>6 DEF AddToEpoll
    <3>2. backlog' \in Seq(Clients)
      BY <1>0, <3>1, AcceptedFree
    <3> QED
      BY <1>0, <2>1, <2>2, <3>1, <3>2 DEF TypeOK
  <2>7. ASSUME NEW fd \in Conns, file[fd] # NoClient, Recver(fd) PROVE TypeOK'
    <3>1. CASE Receive(fd)
      BY <1>0, <2>1, <2>2, <3>1 DEF Receive, TypeOK
    <3>2. CASE Drop(fd)
      BY <1>0, <2>1, <2>2, <3>2 DEF Drop, Closed, TypeOK
    <3> QED
      BY <2>7, <3>1, <3>2 DEF Recver
  <2> QED
    BY <1>0, <1>3, <2>3, <2>4, <2>5, <2>6, <2>7, Calls
<1>4. ASSUME NEW k \in Clients, ClientStep(k) PROVE TypeOK'
  <2>1. server' = server /\ Entries' = Entries /\ Conns' = Conns
    BY <1>4 DEF ClientStep, Entries, Conns
  <2>2. CASE Connect(k)
    <3>1. backlog' \in Seq(Clients)
      BY <1>0, <2>2, AppendProperties DEF Connect, TypeOK
    <3> QED
      BY <1>0, <1>4, <2>1, <2>2, <3>1 DEF ClientStep, Connect, TypeOK
  <2>3. CASE Send(k) \/ Leave(k)
    BY <1>0, <1>4, <2>1, <2>3 DEF ClientStep, Send, Leave, TypeOK
  <2> QED
    BY <1>4, <2>2, <2>3 DEF ClientStep
<1>5. CASE UNCHANGED vars
  <2>1. Entries' = Entries /\ Conns' = Conns
    BY <1>5 DEF vars, Entries, Conns
  <2> QED
    BY <1>0, <1>5, <2>1 DEF vars, netVars, TypeOK
<1> QED
  BY <1>1, <1>2, <1>3, <1>4, <1>5 DEF Next, ServerStep

LEMMA NextQueuedOnce == MultiplexerInv /\ [Next]_vars => QueuedOnce'
<1> SUFFICES ASSUME MultiplexerInv, [Next]_vars PROVE QueuedOnce'
  OBVIOUS
<1>0. TypeOK /\ QueuedOnce /\ NotServing /\ Agree
  BY DEF MultiplexerInv
<1>0a. backlog \in Seq(Clients) /\ DOMAIN cl = Clients
  BY <1>0 DEF TypeOK
<1>0b. Len(backlog) \in Nat /\ DOMAIN backlog = 1..Len(backlog)
       /\ \A i \in DOMAIN backlog : backlog[i] \in Clients
  BY <1>0a, LenProperties, ElementOfSeq
<1>1. CASE UNCHANGED <<cl, backlog>>
  BY <1>0, <1>1 DEF QueuedOnce
<1>2. ASSUME NEW fd, NEW k, NEW s, Accepted(fd, k), cl' = [cl EXCEPT ![k] = s]
      PROVE QueuedOnce'
  <2>1. /\ k \in Clients /\ k = backlog[1] /\ 1 \in DOMAIN backlog
        /\ \A i \in DOMAIN backlog' :
             backlog'[i] = backlog[i + 1] /\ i + 1 \in DOMAIN backlog
        /\ backlog' \in Seq(Clients)
    BY <1>0, <1>2, AcceptedFree
  <2>2. \A i \in DOMAIN backlog' : i \in Nat \ {0}
    BY <2>1, LenProperties
  <2>3. \A i \in DOMAIN backlog' : backlog'[i] # k
    BY <1>0, <2>1, <2>2 DEF QueuedOnce
  <2>4. \A i \in DOMAIN backlog' : cl'[backlog'[i]] = "queued"
    BY <1>0, <1>0a, <1>0b, <1>2, <2>1, <2>3 DEF QueuedOnce
  <2>5. \A i, j \in DOMAIN backlog' : backlog'[i] = backlog'[j] => i = j
    BY <1>0, <2>1, <2>2 DEF QueuedOnce
  <2> QED
    BY <2>4, <2>5 DEF QueuedOnce
<1>3. ASSUME NEW fd \in Conns, file[fd] # NoClient, Recver(fd) PROVE QueuedOnce'
  <2>1. CASE Receive(fd)
    BY <1>1, <2>1 DEF Receive
  <2>2. CASE Drop(fd)
    <3>1. cl' = [cl EXCEPT ![file[fd]] = "idle"] /\ backlog' = backlog
      BY <2>2 DEF Drop, Closed
    <3>2. file[fd] \in Clients /\ cl[file[fd]] = "open"
      BY <1>0, <1>3 DEF TypeOK, Agree, FilesOpen
    <3> QED
      BY <1>0, <1>0a, <1>0b, <3>1, <3>2 DEF QueuedOnce
  <2> QED
    BY <1>3, <2>1, <2>2 DEF Recver
<1>4. ASSUME NEW k \in Clients, Connect(k) PROVE QueuedOnce'
  <2>1. /\ cl[k] = "idle" /\ cl' = [cl EXCEPT ![k] = "queued"]
        /\ backlog' = Append(backlog, k)
    BY <1>4 DEF Connect
  <2>2. /\ backlog' \in Seq(Clients) /\ Len(backlog') = Len(backlog) + 1
        /\ \A i \in 1..Len(backlog) : backlog'[i] = backlog[i]
        /\ backlog'[Len(backlog) + 1] = k
    BY <1>0a, <2>1, AppendProperties
  <2>3. DOMAIN backlog' = 1..(Len(backlog) + 1)
    BY <2>2, LenProperties
  <2>4. \A i \in 1..Len(backlog) : backlog[i] # k /\ cl'[backlog[i]] = "queued"
    BY <1>0, <1>0a, <1>0b, <2>1 DEF QueuedOnce
  <2>5. \A i \in DOMAIN backlog' : i \in 1..Len(backlog) \/ i = Len(backlog) + 1
    BY <1>0b, <2>3
  <2>6. cl'[k] = "queued"
    BY <1>0a, <2>1
  <2>7. \A i \in DOMAIN backlog' : cl'[backlog'[i]] = "queued"
    BY <2>2, <2>4, <2>5, <2>6
  <2>8. \A i, j \in DOMAIN backlog' : backlog'[i] = backlog'[j] => i = j
    BY <1>0, <1>0b, <2>2, <2>4, <2>5 DEF QueuedOnce
  <2> QED
    BY <2>7, <2>8 DEF QueuedOnce
<1>5. CASE Sweep \/ HandlerEvents
  <2>1. CASE AddToArray \/ Refuse \/ AddToEpoll
    <3>1. \E fd \in Conns, k \in Clients : /\ Accepted(fd, k)
                                            /\ \/ cl' = [cl EXCEPT ![k] = "open"]
                                               \/ cl' = [cl EXCEPT ![k] = "idle"]
      BY <2>1 DEF AddToArray, Refuse, AddToEpoll
    <3> QED
      BY <1>2, <3>1
  <2> QED
    BY <1>0, <1>1, <1>3, <1>5, <2>1, Calls DEF netVars
<1>6. CASE Construct \/ Wait \/ UNCHANGED vars
  BY <1>1, <1>6 DEF Construct, Wait, vars, netVars
<1>7. ASSUME NEW k \in Clients, ClientStep(k) PROVE QueuedOnce'
  BY <1>1, <1>4, <1>7 DEF ClientStep, Send, Leave
<1> QED
  BY <1>5, <1>6, <1>7 DEF Next, ServerStep

LEMMA NextNotServing == MultiplexerInv /\ [Next]_vars => NotServing'
<1> SUFFICES ASSUME MultiplexerInv, [Next]_vars, up' # "serving"
    PROVE /\ ready' = {} /\ pos' = Slots'[server'] /\ interest' = {} /\ leaked' = {}
          /\ \A fd \in Conns' : file'[fd] = NoClient
          /\ \A i \in Entries' : slot'[i] = FD_NONE
          /\ \A k \in Clients : cl'[k] # "open"
  BY DEF NotServing
<1>0. TypeOK /\ NotServing /\ Agree
  BY DEF MultiplexerInv
<1>1. CASE Construct
  <2>1. up # "serving" /\ UNCHANGED <<server, netVars, file, ready, pos, leaked>>
    BY <1>1 DEF Construct, SelectListen, PollListen, EpollListen, SelectArray,
                PollArray, CreateEpoll, Listening, FillArray
  <2>2. UNCHANGED <<slot, interest>>
    BY <1>1 DEF Construct, SelectListen, PollListen, EpollListen, SelectArray,
                PollArray, CreateEpoll, Listening, FillArray
  <2> QED
    BY <1>0, <2>1, <2>2 DEF NotServing, netVars, Conns, Entries
<1>2. CASE Wait
  BY <1>2 DEF Wait, Select, Poll, EpollWait, Waiting
<1>3. CASE Sweep \/ HandlerEvents
  BY <1>0, <1>3, Calls
<1>4. ASSUME NEW k \in Clients, ClientStep(k)
      PROVE /\ UNCHANGED <<server, up, file, slot, interest, ready, pos, leaked>>
            /\ \A j \in Clients : cl'[j] = "open" => cl[j] = "open"
  BY <1>0, <1>4 DEF ClientStep, Connect, Send, Leave, TypeOK
<1>5. CASE UNCHANGED vars
  BY <1>0, <1>5 DEF vars, netVars, NotServing, Conns, Entries
<1>6. CASE \E k \in Clients : ClientStep(k)
  BY <1>0, <1>4, <1>6 DEF NotServing, Conns, Entries
<1> QED
  BY <1>1, <1>2, <1>3, <1>5, <1>6 DEF Next, ServerStep

(* accept() and EPOLL_CTL_ADD keep the tables in step.                     *)
LEMMA AddAgrees ==
  ASSUME MultiplexerInv, UNCHANGED <<server, up>>, up = "serving",
         AddToArray \/ AddToEpoll
  PROVE  Agree'
<1>0. TypeOK /\ QueuedOnce /\ FilesOpen /\ ArrayAgrees /\ EpollAgrees /\ LeakedOpen
  BY DEF MultiplexerInv, Agree
<1>0a. /\ DOMAIN file = Conns /\ DOMAIN cl = Clients /\ DOMAIN slot = Entries
       /\ leaked \subseteq Clients
       /\ Conns' = Conns /\ Entries' = Entries
  BY <1>0 DEF TypeOK, Conns, Entries
<1>0b. /\ Entries \subseteq Nat
       /\ Listen \notin Conns /\ FD_NONE \notin Conns /\ Listen # FD_NONE
  BY <1>0, Numbers DEF TypeOK
<1>1. PICK fd \in Conns, k \in Clients :
        /\ Accepted(fd, k)
        /\ file' = [file EXCEPT ![fd] = k]
        /\ cl' = [cl EXCEPT ![k] = "open"]
  BY DEF AddToArray, AddToEpoll
<1> HIDE DEF Agree
<1>2. file[fd] = NoClient /\ cl[k] = "queued" /\ k # NoClient
  BY <1>0, <1>1, AcceptedFree, ClientsAssumption
<1>3. \A g \in Conns : file[g] # k
  BY <1>0, <1>2 DEF FilesOpen
<1>4. \A g \in Conns : file'[g] = IF g = fd THEN k ELSE file[g]
  BY <1>0a, <1>1
<1>5. \A j \in Clients : cl'[j] = IF j = k THEN "open" ELSE cl[j]
  BY <1>0a, <1>1
<1>6. FilesOpen'
  <2>1. ASSUME NEW j \in Clients
        PROVE cl'[j] = "open" <=> \E g \in Conns : file'[g] = j
    <3>1. CASE j = k
      BY <1>1, <1>4, <1>5, <3>1
    <3>2. CASE j # k
      <4>1. (\E g \in Conns : file'[g] = j) <=> \E g \in Conns : file[g] = j
        BY <1>2, <1>4, <3>2, ClientsAssumption
      <4> QED
        BY <1>0, <1>5, <3>2, <4>1 DEF FilesOpen
    <3> QED
      BY <3>1, <3>2
  <2>2. \A g, h \in Conns :
          file'[g] = file'[h] /\ file'[g] # NoClient => g = h
    BY <1>0, <1>3, <1>4 DEF FilesOpen
  <2> QED
    BY <1>0a, <2>1, <2>2 DEF FilesOpen
<1>7. CASE AddToArray
  <2>1. PICK gd \in Conns, kk \in Clients :
          LET unused == {i \in Entries \ {0} : slot[i] = FD_NONE}
          IN  /\ Accepted(gd, kk)
              /\ unused # {}
              /\ slot' = [slot EXCEPT ![Min(unused)] = gd]
              /\ UNCHANGED <<interest, leaked>>
    BY <1>7 DEF AddToArray
  <2> DEFINE unused == {i \in Entries \ {0} : slot[i] = FD_NONE}
             m == Min(unused)
  <2>2. gd = fd
    BY <1>1, <2>1 DEF Accepted
  <2>3. m \in Entries /\ m # 0 /\ slot[m] = FD_NONE
    <3>1. unused \subseteq Nat /\ unused # {}
      BY <1>0b, <2>1
    <3>2. m \in unused
      BY <3>1, MinIn
    <3> QED
      BY <3>2
  <2>4. slot' = [slot EXCEPT ![m] = fd] /\ UNCHANGED <<interest, leaked>>
    BY <2>1, <2>2
  <2> HIDE DEF m
  <2>5. \A i \in Entries : slot'[i] = IF i = m THEN fd ELSE slot[i]
    BY <1>0a, <2>4
  <2>6. server # "epoll"
    BY <1>7 DEF AddToArray
  <2>7. /\ slot[0] = Listen /\ 0 \in Entries
        /\ \A g \in Conns : file[g] # NoClient <=> \E i \in Entries : slot[i] = g
        /\ \A i, j \in Entries : slot[i] = slot[j] /\ slot[i] # FD_NONE => i = j
    BY <1>0, <2>6, Numbers DEF ArrayAgrees, TypeOK
  <2>8. \A i \in Entries : slot[i] # fd
    BY <1>2, <2>7
  <2>9. \A g \in Conns : file'[g] # NoClient <=> \E i \in Entries : slot'[i] = g
    <3> TAKE g \in Conns
    <3>1. CASE g = fd
      BY <1>2, <1>4, <2>3, <2>5, <3>1
    <3>2. CASE g # fd
      <4>1. (\E i \in Entries : slot'[i] = g) <=> \E i \in Entries : slot[i] = g
        BY <1>0b, <2>3, <2>5, <3>2
      <4> QED
        BY <1>4, <2>7, <3>2, <4>1
    <3> QED
      BY <3>1, <3>2
  <2>10. \A i, j \in Entries : slot'[i] = slot'[j] /\ slot'[i] # FD_NONE => i = j
    BY <2>5, <2>7, <2>8
  <2>11. slot'[0] = Listen
    BY <2>3, <2>5, <2>7
  <2>12. ArrayAgrees'
    BY <1>0a, <2>9, <2>10, <2>11 DEF ArrayAgrees
  <2>13. EpollAgrees'
    BY <2>6 DEF EpollAgrees
  <2>14. LeakedOpen'
    BY <1>0, <1>0a, <1>5, <2>4 DEF LeakedOpen
  <2> QED
    BY <1>6, <2>12, <2>13, <2>14 DEF Agree
<1>8. CASE AddToEpoll
  <2>1. PICK gd \in Conns, kk \in Clients :
          /\ Accepted(gd, kk)
          /\ \/ interest' = interest \cup {gd} /\ UNCHANGED leaked
             \/ leaked' = leaked \cup {kk} /\ UNCHANGED interest
    BY <1>8 DEF AddToEpoll
  <2>2. gd = fd /\ kk = k
    BY <1>1, <2>1 DEF Accepted
  <2>3. server = "epoll"
    BY <1>8 DEF AddToEpoll
  <2>4. /\ Listen \in interest
        /\ \A g \in Conns :
             g \in interest <=> file[g] # NoClient /\ file[g] \notin leaked
    BY <1>0, <2>3 DEF EpollAgrees
  <2>5. k \notin leaked
    BY <1>0, <1>2 DEF LeakedOpen
  <2>6. \A g \in Conns :
          g \in interest' <=> file'[g] # NoClient /\ file'[g] \notin leaked'
    BY <1>2, <1>3, <1>4, <2>1, <2>2, <2>4, <2>5
  <2>7. EpollAgrees'
    BY <1>0a, <2>1, <2>4, <2>6 DEF EpollAgrees
  <2>8. ArrayAgrees'
    BY <2>3 DEF ArrayAgrees
  <2>9. LeakedOpen'
    BY <1>0, <1>0a, <1>5, <2>1, <2>2, <2>3 DEF LeakedOpen
  <2> QED
    BY <1>6, <2>7, <2>8, <2>9 DEF Agree
<1> QED
  BY <1>7, <1>8

(* So does closing a connection.                                           *)
LEMMA DropAgrees ==
  ASSUME MultiplexerInv, UNCHANGED <<server, up>>, up = "serving",
         NEW fd \in Conns, file[fd] # NoClient, Drop(fd),
         server = "epoll" => fd \in interest
  PROVE  Agree'
<1>0. TypeOK /\ FilesOpen /\ ArrayAgrees /\ EpollAgrees /\ LeakedOpen
  BY DEF MultiplexerInv, Agree
<1>0a. /\ DOMAIN file = Conns /\ DOMAIN cl = Clients /\ leaked \subseteq Clients
       /\ file[fd] \in Clients
       /\ Conns' = Conns /\ Entries' = Entries
  BY <1>0 DEF TypeOK, Conns, Entries
<1>0b. Listen \notin Conns /\ FD_NONE \notin Conns /\ Listen # FD_NONE
  BY <1>0, Numbers DEF TypeOK
<1>1. /\ \A g \in Conns : file'[g] = IF g = fd THEN NoClient ELSE file[g]
      /\ \A j \in Clients : cl'[j] = IF j = file[fd] THEN "idle" ELSE cl[j]
      /\ \A i \in Entries : slot'[i] = IF slot[i] = fd THEN FD_NONE ELSE slot[i]
      /\ interest' = interest \ {fd} /\ leaked' = leaked
  BY <1>0a DEF Drop, Closed
<1>2. FilesOpen'
  <2>1. ASSUME NEW j \in Clients
        PROVE cl'[j] = "open" <=> \E g \in Conns : file'[g] = j
    <3>1. CASE j = file[fd]
      <4>1. \A g \in Conns : file'[g] # j
        BY <1>0, <1>1, <3>1, ClientsAssumption DEF FilesOpen
      <4> QED
        BY <1>1, <3>1, <4>1
    <3>2. CASE j # file[fd]
      <4>1. (\E g \in Conns : file'[g] = j) <=> \E g \in Conns : file[g] = j
        BY <1>1, <3>2, ClientsAssumption
      <4> QED
        BY <1>0, <1>1, <3>2, <4>1 DEF FilesOpen
    <3> QED
      BY <3>1, <3>2
  <2>2. \A g, h \in Conns : file'[g] = file'[h] /\ file'[g] # NoClient => g = h
    BY <1>0, <1>1 DEF FilesOpen
  <2> QED
    BY <1>0a, <2>1, <2>2 DEF FilesOpen
<1>3. ArrayAgrees'
  <2> SUFFICES ASSUME server # "epoll"
      PROVE /\ slot'[0] = Listen
            /\ \A g \in Conns : file'[g] # NoClient <=> \E i \in Entries : slot'[i] = g
            /\ \A i, j \in Entries : slot'[i] = slot'[j] /\ slot'[i] # FD_NONE => i = j
    BY <1>0a DEF ArrayAgrees
  <2>1. /\ slot[0] = Listen /\ 0 \in Entries
        /\ \A g \in Conns : file[g] # NoClient <=> \E i \in Entries : slot[i] = g
        /\ \A i, j \in Entries : slot[i] = slot[j] /\ slot[i] # FD_NONE => i = j
    BY <1>0, Numbers DEF ArrayAgrees, TypeOK
  <2>2. slot'[0] = Listen
    BY <1>0b, <1>1, <2>1
  <2>3. \A g \in Conns : file'[g] # NoClient <=> \E i \in Entries : slot'[i] = g
    <3> TAKE g \in Conns
    <3>1. CASE g = fd
      BY <1>0b, <1>1, <3>1
    <3>2. CASE g # fd
      <4>1. (\E i \in Entries : slot'[i] = g) <=> \E i \in Entries : slot[i] = g
        BY <1>0b, <1>1, <3>2
      <4> QED
        BY <1>1, <2>1, <3>2, <4>1
    <3> QED
      BY <3>1, <3>2
  <2>4. \A i, j \in Entries : slot'[i] = slot'[j] /\ slot'[i] # FD_NONE => i = j
    BY <1>1, <2>1
  <2> QED
    BY <2>2, <2>3, <2>4
<1>4. EpollAgrees'
  <2> SUFFICES ASSUME server = "epoll"
      PROVE /\ Listen \in interest'
            /\ \A g \in Conns :
                 g \in interest' <=> file'[g] # NoClient /\ file'[g] \notin leaked'
    BY <1>0a DEF EpollAgrees
  <2>1. /\ Listen \in interest
        /\ \A g \in Conns :
             g \in interest <=> file[g] # NoClient /\ file[g] \notin leaked
    BY <1>0 DEF EpollAgrees
  <2> QED
    BY <1>0b, <1>1, <2>1
<1>5. LeakedOpen'
  <2>1. file[fd] \notin leaked
    <3>1. CASE server = "epoll"
      BY <1>0, <3>1 DEF EpollAgrees
    <3>2. CASE server # "epoll"
      BY <1>0, <3>2 DEF LeakedOpen
    <3> QED
      BY <3>1, <3>2
  <2> QED
    BY <1>0, <1>0a, <1>1, <2>1 DEF LeakedOpen
<1> QED
  BY <1>2, <1>3, <1>4, <1>5 DEF Agree

LEMMA NextAgree == MultiplexerInv /\ [Next]_vars => Agree'
<1> SUFFICES ASSUME MultiplexerInv, [Next]_vars PROVE Agree'
  OBVIOUS
<1>0. TypeOK /\ NotServing /\ Agree /\ Reported
  BY DEF MultiplexerInv
<1>0a. FilesOpen /\ ArrayAgrees /\ EpollAgrees /\ LeakedOpen
  BY <1>0 DEF Agree
<1>1. CASE UNCHANGED <<server, up, cl, file, slot, interest, leaked>>
  BY <1>0a, <1>1 DEF Agree, FilesOpen, ArrayAgrees, EpollAgrees, LeakedOpen,
                     Conns, Entries
<1>2. CASE Construct
  <2>1. /\ UNCHANGED <<server, cl, file, leaked>> /\ up # "serving"
        /\ Conns' = Conns /\ Entries' = Entries
    BY <1>2 DEF Construct, SelectListen, PollListen, EpollListen, SelectArray,
                PollArray, CreateEpoll, Listening, FillArray, netVars, Conns, Entries
  <2>2. /\ interest = {} /\ leaked = {} /\ (\A fd \in Conns : file[fd] = NoClient)
        /\ \A i \in Entries : slot[i] = FD_NONE
    BY <1>0, <2>1 DEF NotServing
  <2>3. FilesOpen' /\ LeakedOpen'
    BY <1>0a, <2>1 DEF FilesOpen, LeakedOpen
  <2>4. ArrayAgrees'
    <3> SUFFICES ASSUME server # "epoll", up' = "serving"
        PROVE /\ slot'[0] = Listen
              /\ \A fd \in Conns : ~\E i \in Entries : slot'[i] = fd
              /\ \A i, j \in Entries : slot'[i] = slot'[j] /\ slot'[i] # FD_NONE => i = j
      BY <2>1, <2>2 DEF ArrayAgrees
    <3>1. slot' = [slot EXCEPT ![0] = Listen]
      BY <1>2 DEF Construct, SelectListen, PollListen, EpollListen, SelectArray,
                  PollArray, CreateEpoll, Listening, FillArray
    <3>2. 0 \in Entries /\ DOMAIN slot = Entries
      BY <1>0, Numbers DEF TypeOK
    <3>3. \A i \in Entries : slot'[i] = IF i = 0 THEN Listen ELSE FD_NONE
      BY <2>2, <3>1, <3>2
    <3> QED
      BY <1>0, <3>2, <3>3, Numbers DEF TypeOK
  <2>5. EpollAgrees'
    <3> SUFFICES ASSUME server = "epoll", up' = "serving" PROVE interest' = {Listen}
      BY <1>0, <2>1, <2>2, Numbers DEF EpollAgrees, TypeOK
    <3> QED
      BY <1>2 DEF Construct, SelectListen, PollListen, EpollListen, SelectArray,
                  PollArray, CreateEpoll, Listening, FillArray
  <2> QED
    BY <2>3, <2>4, <2>5 DEF Agree
<1>3. CASE Sweep \/ HandlerEvents
  <2>1. up = "serving" /\ UNCHANGED <<server, up>>
    BY <1>0, <1>3, Calls
  <2>2. CASE UNCHANGED <<netVars, file, slot, interest, leaked>>
    BY <1>1, <2>1, <2>2 DEF netVars
  <2>3. CASE AddToArray \/ AddToEpoll
    BY <2>1, <2>3, AddAgrees
  <2>4. CASE Refuse
    <3>1. PICK fd \in Conns, k \in Clients :
            /\ Accepted(fd, k) /\ cl' = [cl EXCEPT ![k] = "idle"]
            /\ UNCHANGED <<file, slot, interest, leaked>>
      BY <2>4 DEF Refuse
    <3>2. cl[k] = "queued"
      BY <3>1, AcceptedFree DEF MultiplexerInv
    <3>3. \A j \in Clients : cl'[j] = "open" <=> cl[j] = "open"
      BY <1>0, <3>1, <3>2 DEF TypeOK
    <3>4. Conns' = Conns /\ Entries' = Entries /\ leaked \subseteq Clients
      BY <1>0, <2>1 DEF Conns, Entries, TypeOK
    <3> QED
      BY <1>0a, <2>1, <3>1, <3>3, <3>4
      DEF Agree, FilesOpen, ArrayAgrees, EpollAgrees, LeakedOpen
  <2>5. ASSUME NEW fd \in Conns, file[fd] # NoClient, Receive(fd) PROVE Agree'
    BY <1>1, <2>1, <2>5 DEF Receive
  <2>6. ASSUME NEW fd \in Conns, file[fd] # NoClient, Drop(fd),
               server = "epoll" => fd \in ready
        PROVE Agree'
    <3>1. server = "epoll" => fd \in interest
      BY <1>0, <2>6 DEF Reported
    <3> QED
      BY <2>1, <2>6, <3>1, DropAgrees
  <2> QED
    BY <1>0, <1>3, <2>2, <2>3, <2>4, <2>5, <2>6, Calls DEF Recver
<1>4. CASE Wait \/ UNCHANGED vars
  BY <1>1, <1>4 DEF Wait, vars, netVars
<1>5. ASSUME NEW k \in Clients, ClientStep(k) PROVE Agree'
  <2>1. CASE Send(k) \/ Leave(k)
    BY <1>1, <1>5, <2>1 DEF ClientStep, Send, Leave
  <2>2. CASE Connect(k)
    <3>1. \A j \in Clients : cl'[j] = "open" <=> cl[j] = "open"
      BY <1>0, <2>2 DEF Connect, TypeOK
    <3>2. /\ Conns' = Conns /\ Entries' = Entries /\ leaked \subseteq Clients
          /\ UNCHANGED <<server, up, file, slot, interest, leaked>>
      BY <1>0, <1>5 DEF ClientStep, Conns, Entries, TypeOK
    <3> QED
      BY <1>0a, <3>1, <3>2
      DEF Agree, FilesOpen, ArrayAgrees, EpollAgrees, LeakedOpen
  <2> QED
    BY <1>5, <2>1, <2>2 DEF ClientStep
<1> QED
  BY <1>2, <1>3, <1>4, <1>5 DEF Next, ServerStep
-----------------------------------------------------------------------------
(* Accepter leaves the sockets of accepted connections as they are.        *)
LEMMA AcceptKeepsReadable ==
  ASSUME MultiplexerInv, Accepter, NEW g \in Conns, Readable(g)
  PROVE  Readable(g)' /\ file[g] # NoClient
<1>0. TypeOK /\ QueuedOnce /\ FilesOpen
  BY DEF MultiplexerInv, Agree
<1>0a. Listen \notin Conns /\ DOMAIN file = Conns
  BY <1>0, Numbers DEF TypeOK
<1>1. g # Listen /\ file[g] # NoClient /\ file[g] \in unread \cup gone
      /\ file[g] \in Clients /\ cl[file[g]] = "open"
  BY <1>0, <1>0a DEF Readable, TypeOK, FilesOpen
<1> SUFFICES file'[g] # NoClient /\ file'[g] \in unread' \cup gone'
  BY <1>1 DEF Readable
<1>2. CASE AcceptFails
  BY <1>1, <1>2 DEF AcceptFails, netVars
<1>3. CASE AddToArray \/ AddToEpoll
  <2>1. PICK fd \in Conns, k \in Clients :
          Accepted(fd, k) /\ file' = [file EXCEPT ![fd] = k] /\ UNCHANGED <<gone, unread>>
    BY <1>3 DEF AddToArray, AddToEpoll
  <2>2. file[fd] = NoClient
    BY <1>0, <2>1, AcceptedFree
  <2> QED
    BY <1>0a, <1>1, <2>1, <2>2
<1>4. CASE Refuse
  <2>1. PICK fd \in Conns, k \in Clients :
          Accepted(fd, k) /\ file' = file /\ gone' = gone \ {k} /\ unread' = unread \ {k}
    BY <1>4 DEF Refuse
  <2>2. cl[k] = "queued"
    BY <1>0, <2>1, AcceptedFree
  <2> QED
    BY <1>1, <2>1, <2>2
<1> QED
  BY <1>2, <1>3, <1>4 DEF Accepter

(* Recver touches one socket.                                              *)
LEMMA RecvKeepsReadable ==
  ASSUME MultiplexerInv, NEW fd \in Conns, file[fd] # NoClient, Recver(fd),
         NEW g \in Conns \cup {Listen}, g # fd, Readable(g)
  PROVE  Readable(g)'
<1>0. TypeOK /\ FilesOpen
  BY DEF MultiplexerInv, Agree
<1>0a. Listen \notin Conns /\ DOMAIN file = Conns
  BY <1>0, Numbers DEF TypeOK
<1>1. CASE g = Listen
  BY <1>1 DEF Readable, Recver, Receive, Drop
<1>2. CASE g \in Conns
  <2>1. g # Listen /\ file[g] # NoClient /\ file[g] \in unread \cup gone
    BY <1>0a, <1>2 DEF Readable
  <2>2. file[g] # file[fd]
    BY <1>0, <1>2, <2>1 DEF FilesOpen
  <2>3. file'[g] = file[g]
    BY <1>0a, <1>2 DEF Recver, Receive, Drop, Closed
  <2>4. file[g] \in unread' \cup gone'
    BY <2>1, <2>2 DEF Recver, Receive, Drop, Closed
  <2> QED
    BY <2>1, <2>3, <2>4 DEF Readable
<1> QED
  BY <1>1, <1>2

LEMMA SweepReady == MultiplexerInv /\ Sweep => Reported' /\ Sweepable'
<1> SUFFICES ASSUME MultiplexerInv, Sweep PROVE Reported' /\ Sweepable'
  OBVIOUS
<1>0. TypeOK /\ NotServing /\ FilesOpen /\ ArrayAgrees /\ Reported /\ Sweepable
      /\ QueuedOnce
  BY DEF MultiplexerInv, Agree
<1>0a. /\ Slots[server] \in Nat /\ Entries \subseteq Nat /\ Conns \subseteq Nat
       /\ \A i \in Nat : i < Slots[server] => i \in Entries
       /\ server = "epoll" => Slots[server] = 0
       /\ Listen \notin Conns /\ FD_NONE \notin Conns /\ Listen # FD_NONE
       /\ DOMAIN slot = Entries
  BY <1>0, Numbers DEF TypeOK
<1>1. /\ pos < Slots[server] /\ pos' = pos + 1 /\ pos \in Nat
      /\ UNCHANGED <<server, up, ready>> /\ server # "epoll" /\ pos \in Entries
      /\ Entries' = Entries /\ Conns' = Conns /\ up = "serving"
  BY <1>0, <1>0a DEF Sweep, TypeOK, Entries, Conns, NotServing
<1>2. Reported'
  BY <1>0, <1>1 DEF Reported
<1>2a. /\ slot[0] = Listen /\ 0 \in Entries
       /\ \A i, j \in Entries : slot[i] = slot[j] /\ slot[i] # FD_NONE => i = j
       /\ \A i \in Entries : slot[i] \in Conns \cup {Listen, FD_NONE}
  BY <1>0, <1>1, Numbers DEF ArrayAgrees, TypeOK
<1>3. SUFFICES ASSUME NEW i \in Entries, i > pos, Marked(i)'
      PROVE Readable(slot[i])'
  BY <1>0a, <1>1, <1>2 DEF Sweepable
<1>3a. i # 0 /\ i # pos /\ slot[i] # Listen /\ i >= pos
  BY <1>0a, <1>1, <1>2a, <1>3
<1>3b. Marked(i) => slot[i] \in Conns /\ Readable(slot[i])
  BY <1>0, <1>1, <1>2a, <1>3a DEF Marked, Sweepable
<1>3c. PICK g : g = slot[i]
  OBVIOUS
<1>4. CASE UNCHANGED <<netVars, file, slot, interest, leaked>>
  <2>1. Marked(i)
    BY <1>1, <1>3, <1>4 DEF Marked
  <2> QED
    BY <1>3b, <1>3c, <1>4, <2>1 DEF Readable, netVars
<1>5. CASE Marked(pos) /\ slot[pos] = Listen
  <2>1. Accepter /\ pos = 0
    BY <1>1, <1>2a, <1>0a, <1>5 DEF Sweep, Handle
  <2>2. CASE slot'[i] = slot[i]
    <3>1. Marked(i)
      BY <1>1, <1>3, <2>2 DEF Marked
    <3>2. Readable(g)'
      BY <1>3b, <1>3c, <2>1, <3>1, AcceptKeepsReadable
    <3> QED
      BY <1>3c, <2>2, <3>2
  <2>3. CASE slot'[i] # slot[i]
    <3>1. AddToArray
      BY <1>1, <2>1, <2>3 DEF Accepter, AcceptFails, Refuse, AddToEpoll
    <3>2. PICK fd \in Conns, k \in Clients :
            LET unused == {j \in Entries \ {0} : slot[j] = FD_NONE}
            IN  /\ Accepted(fd, k) /\ unused # {}
                /\ slot' = [slot EXCEPT ![Min(unused)] = fd]
      BY <3>1 DEF AddToArray
    <3> DEFINE unused == {j \in Entries \ {0} : slot[j] = FD_NONE}
               m == Min(unused)
    <3>3. m \in unused
      <4>1. unused \subseteq Nat /\ unused # {}
        BY <1>0a, <3>2
      <4> QED
        BY <4>1, MinIn
    <3>4. slot' = [slot EXCEPT ![m] = fd]
      BY <3>2
    <3> HIDE DEF m
    <3>5. i = m /\ slot'[i] = fd /\ slot[i] = FD_NONE
      BY <1>0a, <2>3, <3>3, <3>4
    <3>6. file[fd] = NoClient
      BY <1>0, <3>2, AcceptedFree
    <3>7. fd \notin ready \/ server # "select"
      BY <1>0, <1>0a, <2>1, <3>6 DEF Reported, Readable
    <3>8. i \notin ready \/ server # "poll"
      BY <1>0, <2>1, <3>5 DEF Reported
    <3>9. server \in {"select", "poll"}
      BY <1>0, <1>1 DEF TypeOK, Servers
    <3> QED
      BY <1>1, <1>3, <3>5, <3>7, <3>8, <3>9 DEF Marked
  <2> QED
    BY <2>2, <2>3
<1>6. CASE Marked(pos) /\ slot[pos] # Listen
  <2>0. PICK fd \in Conns : fd = slot[pos]
    BY <1>1, <1>2a, <1>6 DEF Marked
  <2>1. Recver(fd)
    BY <1>6, <2>0 DEF Sweep, Handle
  <2>2. file[fd] # NoClient
    BY <1>0, <1>0a, <1>1, <1>6, <2>0 DEF Sweepable, Readable
  <2>3. slot'[i] = slot[i] /\ slot[i] # fd
    <3>1. slot'[i] # FD_NONE
      BY <1>3 DEF Marked
    <3>2. CASE Receive(fd)
      BY <1>1, <1>2a, <1>3a, <2>0, <3>1, <3>2 DEF Receive
    <3>3. CASE Drop(fd)
      BY <1>1, <3>1, <3>3 DEF Drop
    <3> QED
      BY <2>1, <3>2, <3>3 DEF Recver
  <2>4. Marked(i)
    BY <1>1, <1>3, <2>3 DEF Marked
  <2>5. Readable(g)'
    BY <1>3b, <1>3c, <2>1, <2>2, <2>3, <2>4, RecvKeepsReadable
  <2> QED
    BY <1>3c, <2>3, <2>5
<1>7. CASE ~Marked(pos)
  BY <1>4, <1>7 DEF Sweep
<1> QED
  BY <1>5, <1>6, <1>7

LEMMA EventsReady == MultiplexerInv /\ HandlerEvents => Reported' /\ Sweepable'
<1> SUFFICES ASSUME MultiplexerInv, HandlerEvents PROVE Reported' /\ Sweepable'
  OBVIOUS
<1>0. TypeOK /\ NotServing /\ FilesOpen /\ EpollAgrees /\ Reported /\ Sweepable
  BY DEF MultiplexerInv, Agree
<1>1. server = "epoll" /\ UNCHANGED <<server, up, pos>>
  BY DEF HandlerEvents
<1>1a. interest \subseteq Conns \cup {Listen}
  BY <1>0 DEF TypeOK
<1>2. PICK fd \in ready : Handle(fd) /\ ready' = ready \ {fd}
  BY DEF HandlerEvents
<1>2a. \A g \in ready : g \in interest /\ g \in Conns \cup {Listen} /\ Readable(g)
  BY <1>0, <1>1, <1>1a DEF Reported, Sweepable
<1>3. SUFFICES ASSUME NEW g \in ready, g # fd PROVE g \in interest' /\ Readable(g)'
  BY <1>1, <1>2 DEF Reported, Sweepable
<1>4. CASE fd = Listen
  <2>1. Accepter /\ g \in Conns
    BY <1>2, <1>2a, <1>3, <1>4 DEF Handle
  <2>2. interest \subseteq interest'
    BY <2>1 DEF Accepter, AcceptFails, AddToArray, Refuse, AddToEpoll
  <2> QED
    BY <1>2a, <2>1, <2>2, AcceptKeepsReadable
<1>5. CASE fd # Listen
  <2>1. fd \in Conns /\ Recver(fd) /\ file[fd] # NoClient
    BY <1>2, <1>2a, <1>5 DEF Handle, Readable
  <2>2. interest \ {fd} \subseteq interest'
    BY <2>1 DEF Recver, Receive, Drop
  <2> QED
    BY <1>2a, <1>3, <2>1, <2>2, RecvKeepsReadable
<1> QED
  BY <1>4, <1>5

LEMMA NextReady == MultiplexerInv /\ [Next]_vars => Reported' /\ Sweepable'
<1> SUFFICES ASSUME MultiplexerInv, [Next]_vars PROVE Reported' /\ Sweepable'
  OBVIOUS
<1>0. TypeOK /\ NotServing /\ Reported /\ Sweepable
  BY DEF MultiplexerInv
<1>0a. /\ Slots[server] \in Nat /\ Entries \subseteq Nat
       /\ \A i \in Entries : i < Slots[server]
       /\ (server = "epoll" => Slots[server] = 0)
       /\ Listen \notin Conns /\ FD_NONE \notin Conns /\ Listen # FD_NONE
  BY <1>0, Numbers DEF TypeOK
<1>1. CASE Construct
  <2>1. /\ UNCHANGED <<server, ready, pos>> /\ up # "serving"
        /\ Conns' = Conns /\ Entries' = Entries
    BY <1>1 DEF Construct, SelectListen, PollListen, EpollListen, SelectArray,
                PollArray, CreateEpoll, Listening, FillArray, Conns, Entries
  <2>2. ready = {} /\ pos = Slots[server]
    BY <1>0, <2>1 DEF NotServing
  <2> QED
    BY <1>0a, <2>1, <2>2 DEF Reported, Sweepable, Marked
<1>2. CASE Wait
  <2>1. /\ UNCHANGED <<server, netVars, file, slot, interest>>
        /\ Conns' = Conns /\ Entries' = Entries
    BY <1>2 DEF Wait, Conns, Entries
  <2>2. \A fd : Readable(fd)' <=> Readable(fd)
    BY <2>1 DEF Readable, netVars
  <2>3. \A i \in Entries : slot[i] \in Conns \cup {Listen, FD_NONE}
    BY <1>0 DEF TypeOK
  <2>4. CASE Select
    <3>1. server = "select" /\ ready' = {fd \in {slot[i] : i \in Entries} \ {FD_NONE} : Readable(fd)}
      BY <2>4 DEF Select
    <3>2. Reported'
      BY <2>1, <2>2, <2>3, <3>1 DEF Reported
    <3>3. Sweepable'
      BY <2>1, <2>2, <3>1 DEF Sweepable, Marked
    <3> QED
      BY <3>2, <3>3
  <2>5. CASE Poll
    <3>1. server = "poll" /\ ready' = {i \in Entries : slot[i] # FD_NONE /\ Readable(slot[i])}
      BY <2>5 DEF Poll
    <3>2. Reported'
      BY <2>1, <3>1 DEF Reported
    <3>3. Sweepable'
      BY <2>1, <2>2, <3>1 DEF Sweepable, Marked
    <3> QED
      BY <3>2, <3>3
  <2>6. CASE EpollWait
    <3>1. server = "epoll" /\ ready' = {fd \in interest : Readable(fd)}
      BY <2>6 DEF EpollWait
    <3> QED
      BY <2>1, <2>2, <3>1 DEF Reported, Sweepable
  <2> QED
    BY <1>2, <2>4, <2>5, <2>6 DEF Wait
<1>3. ASSUME NEW k \in Clients, ClientStep(k) PROVE Reported' /\ Sweepable'
  <2>1. /\ UNCHANGED <<server, file, slot, interest, ready, pos>>
        /\ Conns' = Conns /\ Entries' = Entries
    BY <1>3 DEF ClientStep, Conns, Entries
  <2>2. /\ unread \subseteq unread' /\ gone \subseteq gone'
        /\ backlog # <<>> => backlog' # <<>>
    <3>1. CASE Connect(k)
      <4>1. backlog' # <<>>
        BY <1>0, <3>1, AppendProperties DEF Connect, TypeOK
      <4> QED
        BY <3>1, <4>1 DEF Connect
    <3>2. CASE Send(k) \/ Leave(k)
      BY <3>2 DEF Send, Leave
    <3> QED
      BY <1>3, <3>1, <3>2 DEF ClientStep
  <2>3. \A fd : Readable(fd) => Readable(fd)'
    BY <2>1, <2>2 DEF Readable
  <2>4. Reported'
    BY <1>0, <2>1, <2>3 DEF Reported
  <2>5. Sweepable'
    BY <1>0, <2>1, <2>3 DEF Sweepable, Marked
  <2> QED
    BY <2>4, <2>5
<1>4. CASE UNCHANGED vars
  <2>1. Conns' = Conns /\ Entries' = Entries
    BY <1>4 DEF vars, Conns, Entries
  <2> QED
    BY <1>0, <1>4, <2>1 DEF vars, netVars, Reported, Sweepable, Marked, Readable
<1> QED
  BY <1>1, <1>2, <1>3, <1>4, SweepReady, EventsReady DEF Next, ServerStep

LEMMA MultiplexerInvariance == Spec => []MultiplexerInv
<1>1. MultiplexerInv /\ [Next]_vars => MultiplexerInv'
  BY NextTypeOK, NextQueuedOnce, NextNotServing, NextAgree, NextReady
  DEF MultiplexerInv
<1> QED
  BY <1>1, InitInv, PTL DEF Spec

(* Every variable of the three servers keeps its type: pos stays within    *)
(* the array, and the array holds descriptors.                             *)
THEOREM TypeCorrect == Spec => []TypeOK
<1>1. MultiplexerInv => TypeOK
  BY DEF MultiplexerInv
<1> QED
  BY <1>1, MultiplexerInvariance, PTL

(* No accept() or recv() blocks the one thread of select, poll or epoll    *)
(* server, whatever the clients do between the report and the call.        *)
THEOREM NoCallBlocks == Spec => []NeverBlocks
<1>1. MultiplexerInv => NeverBlocks
  <2> SUFFICES ASSUME MultiplexerInv, NEW fd \in Pending PROVE Readable(fd)
    BY DEF NeverBlocks
  <2>0. TypeOK /\ Sweepable
    BY DEF MultiplexerInv
  <2>1. CASE server = "epoll"
    BY <2>0, <2>1 DEF Pending, Sweepable
  <2>2. CASE server # "epoll"
    <3>1. PICK j \in pos..(Slots[server] - 1) : Marked(j) /\ fd = slot[j]
      BY <2>2 DEF Pending
    <3>2. pos \in Nat /\ Slots[server] \in Nat
      BY <2>0, Numbers DEF TypeOK
    <3>3. j \in Entries /\ j >= pos
      BY <3>2 DEF Entries
    <3> QED
      BY <2>0, <2>2, <3>1, <3>3 DEF Sweepable
  <2> QED
    BY <2>1, <2>2
<1> QED
  BY <1>1, MultiplexerInvariance, PTL

(* The array, or epoll's interest set, and the open descriptors never come *)
(* apart.                                                                  *)
THEOREM TablesStayInStep == Spec => []TablesAgree
<1>1. MultiplexerInv => TablesAgree
  <2> SUFFICES ASSUME MultiplexerInv, up = "serving"
      PROVE LET open == {fd \in Conns : file[fd] # NoClient}
                kept == {fd \in open : file[fd] \in leaked}
            IN  /\ {k \in Clients : cl[k] = "open"} = {file[fd] : fd \in open}
                /\ \A fd, other \in open : file[fd] = file[other] => fd = other
                /\ server # "epoll" =>
                     /\ {slot[i] : i \in Entries} \ {FD_NONE} = open \cup {Listen}
                     /\ \A i, j \in Entries : slot[i] = slot[j] /\ i # j
                                                => slot[i] = FD_NONE
                /\ server = "epoll" => interest = (open \ kept) \cup {Listen}
    BY DEF TablesAgree
  <2> DEFINE open == {fd \in Conns : file[fd] # NoClient}
             kept == {fd \in open : file[fd] \in leaked}
  <2>0. TypeOK /\ FilesOpen /\ ArrayAgrees /\ EpollAgrees
    BY DEF MultiplexerInv, Agree
  <2>1. {k \in Clients : cl[k] = "open"} = {file[fd] : fd \in open}
    BY <2>0, ClientsAssumption DEF FilesOpen, TypeOK
  <2>2. \A fd, other \in open : file[fd] = file[other] => fd = other
    BY <2>0 DEF FilesOpen
  <2>3. ASSUME server # "epoll"
        PROVE /\ {slot[i] : i \in Entries} \ {FD_NONE} = open \cup {Listen}
              /\ \A i, j \in Entries : slot[i] = slot[j] /\ i # j => slot[i] = FD_NONE
    <3>1. /\ slot[0] = Listen /\ 0 \in Entries
          /\ \A fd \in Conns : fd \in open <=> \E i \in Entries : slot[i] = fd
          /\ \A i, j \in Entries : slot[i] = slot[j] /\ slot[i] # FD_NONE => i = j
      BY <2>0, <2>3, Numbers DEF ArrayAgrees, TypeOK
    <3>2. /\ \A i \in Entries : slot[i] \in Conns \cup {Listen, FD_NONE}
          /\ FD_NONE \notin Conns /\ Listen # FD_NONE
      BY <2>0, Numbers DEF TypeOK
    <3> HIDE DEF open
    <3>3. open \subseteq Conns
      BY DEF open
    <3> QED
      BY <3>1, <3>2, <3>3
  <2>4. ASSUME server = "epoll" PROVE interest = (open \ kept) \cup {Listen}
    BY <2>0, <2>4 DEF EpollAgrees, TypeOK
  <2> QED
    BY <2>1, <2>2, <2>3, <2>4
<1> QED
  BY <1>1, MultiplexerInvariance, PTL
=============================================================================
