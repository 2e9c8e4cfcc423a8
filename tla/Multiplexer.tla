---------------------------- MODULE Multiplexer ----------------------------
(* The three single-threaded servers that wait for many sockets at once:    *)
(* SelectServer and PollServer (11-4) and EpollServer (11-6).  They only    *)
(* receive; server says which of them runs.                                 *)
(*                                                                          *)
(* The first two keep an array of descriptors whose entry 0 is the          *)
(* listening socket.  select() reports a set of descriptors, poll() marks   *)
(* entries of the array, and both are swept in the order of the array.      *)
(* epoll_wait() returns a list of descriptors, in any order.  What was      *)
(* reported is used after the calls in between have accepted and closed     *)
(* connections and the kernel has given descriptors out again.              *)
(*                                                                          *)
(* All sockets are blocking: accept() or recv() on a socket that is not     *)
(* ready stops the whole server.  Descriptors are numbered from the         *)
(* listening socket on; the kernel hands out the lowest free one.  A recv() *)
(* takes whatever has arrived: more than its buffer holds is not modelled,  *)
(* nor are more events than epoll_wait's array of 64 holds.                 *)
EXTENDS Integers, Sequences, FiniteSets, FiniteSetsExt

CONSTANTS Clients,
          NoClient,
          Slots,  \* NUM and nfds, the entries of a server's array
          Limit   \* connections a server has descriptors for

Servers == {"select", "poll", "epoll"}

ASSUME ClientsAssumption == NoClient \notin Clients
ASSUME SlotsAssumption == /\ Slots \in [Servers -> Nat]
                          /\ Slots["select"] > 0 /\ Slots["poll"] > 0
                          /\ Slots["epoll"] = 0
ASSUME LimitAssumption == Limit \in [Servers -> Nat \ {0}]

VARIABLES server,   \* the program that runs
          up,       \* how far its constructor is, or "exited"
          cl,       \* a client's connection: "idle", "queued" or "open"
          gone,     \* clients that closed or reset their connection
          unread,   \* clients whose data the server has not received
          backlog,  \* connections that wait to be accepted
          file,     \* the connection behind each descriptor
          slot,     \* _fd_array, or the fd fields of _fds
          interest, \* what epoll was told to watch
          ready,    \* what the last select, poll or epoll_wait reported
          pos,      \* the entry the sweep of the array has come to
          leaked    \* clients whose EPOLL_CTL_ADD failed (history)

netVars == <<cl, gone, unread, backlog>>
vars == <<server, up, netVars, file, slot, interest, ready, pos, leaked>>

Listen == 0
FD_NONE == -1
Entries == 0..Slots[server] - 1
Conns == 1..Limit[server]

\* The type invariant.
TypeOK == /\ server \in Servers
          /\ up \in {"new", "listening", "serving", "exited"}
          /\ cl \in [Clients -> {"idle", "queued", "open"}]
          /\ gone \subseteq Clients
          /\ unread \subseteq Clients
          /\ backlog \in Seq(Clients)
          /\ file \in [Conns -> Clients \cup {NoClient}]
          /\ slot \in [Entries -> Conns \cup {Listen, FD_NONE}]
          /\ interest \subseteq Conns \cup {Listen}
          /\ ready \subseteq (Conns \cup {Listen} \cup Entries)
          /\ pos \in 0..Slots[server]
          /\ leaked \subseteq Clients

Init == /\ server \in Servers
        /\ cl = [k \in Clients |-> "idle"]
        /\ gone = {}
        /\ unread = {}
        /\ backlog = <<>>
        /\ file = [fd \in Conns |-> NoClient]
        /\ up = "new"
        /\ slot = [i \in Entries |-> FD_NONE]
        /\ interest = {}
        /\ ready = {}
        /\ pos = Slots[server]
        /\ leaked = {}

----------------------------------------------------------------------------
(* The constructors.  Each Sock has its Socket, Bind and Listen, which end  *)
(* the process when they fail.                                              *)

Listening == /\ up = "new"
             /\ up' \in {"listening", "exited"}
             /\ UNCHANGED <<slot, interest>>

SelectListen == server = "select" /\ Listening
PollListen == server = "poll" /\ Listening
EpollListen == server = "epoll" /\ Listening

\* Entry 0 of the array is the listening socket.
FillArray == /\ up = "listening"
             /\ slot' = [slot EXCEPT ![0] = Listen]
             /\ up' = "serving"
             /\ UNCHANGED interest

SelectArray == server = "select" /\ FillArray
PollArray == server = "poll" /\ FillArray

\* epoll_create and EPOLL_CTL_ADD, which end the process when they fail.
CreateEpoll == /\ server = "epoll" /\ up = "listening"
               /\ \/ interest' = {Listen} /\ up' = "serving"
                  \/ up' = "exited" /\ UNCHANGED interest
               /\ UNCHANGED slot

Construct == /\ \/ SelectListen \/ PollListen \/ EpollListen
                \/ SelectArray \/ PollArray \/ CreateEpoll
             /\ UNCHANGED <<server, netVars, file, ready, pos, leaked>>

----------------------------------------------------------------------------
(* The clients.  A client whose connection is over may connect again.       *)

Connect(k) == /\ up \in {"listening", "serving"} /\ cl[k] = "idle"
              /\ cl' = [cl EXCEPT ![k] = "queued"]
              /\ backlog' = Append(backlog, k)
              /\ UNCHANGED <<gone, unread>>

Send(k) == /\ cl[k] # "idle" /\ k \notin gone
           /\ unread' = unread \cup {k}
           /\ UNCHANGED <<cl, gone, backlog>>

\* The client closes, or the connection is reset; data that has arrived is
\* still received, and a connection in the queue is still accepted.
Leave(k) == /\ cl[k] # "idle" /\ k \notin gone
            /\ gone' = gone \cup {k}
            /\ UNCHANGED <<cl, unread, backlog>>

ClientStep(k) == /\ Connect(k) \/ Send(k) \/ Leave(k)
                 /\ UNCHANGED <<server, up, file, slot, interest, ready, pos,
                                leaked>>

----------------------------------------------------------------------------
(* The kernel *)

\* accept() or recv() on fd returns at once.
Readable(fd) == IF fd = Listen THEN backlog # <<>>
                ELSE /\ file[fd] # NoClient
                     /\ file[fd] \in unread \cup gone

Free == {fd \in Conns : file[fd] = NoClient}

\* close(fd).
Closed(fd) == /\ cl' = [cl EXCEPT ![file[fd]] = "idle"]
              /\ gone' = gone \ {file[fd]}
              /\ file' = [file EXCEPT ![fd] = NoClient]

----------------------------------------------------------------------------
(* Accepter *)

\* accept() fails for want of a descriptor: the connection stays queued.
AcceptFails == /\ backlog # <<>>
               /\ Free = {}
               /\ UNCHANGED <<netVars, file, slot, interest, leaked>>

\* accept() returns the lowest free descriptor for the oldest connection.
Accepted(fd, k) == /\ backlog # <<>>
                   /\ Free # {}
                   /\ fd = Min(Free)
                   /\ k = Head(backlog)
                   /\ backlog' = Tail(backlog)

\* The array's first unused entry takes the descriptor.
AddToArray == \E fd \in Conns, k \in Clients :
  LET unused == {i \in Entries \ {0} : slot[i] = FD_NONE}
  IN  /\ server # "epoll"
      /\ Accepted(fd, k)
      /\ unused # {}
      /\ slot' = [slot EXCEPT ![Min(unused)] = fd]
      /\ file' = [file EXCEPT ![fd] = k]
      /\ cl' = [cl EXCEPT ![k] = "open"]
      /\ UNCHANGED <<gone, unread, interest, leaked>>

\* Mutant of Refuse: a full server leaves the connection in the queue.
RefuseLater == /\ server # "epoll"
               /\ backlog # <<>>
               /\ Free # {}
               /\ \A i \in Entries : slot[i] # FD_NONE
               /\ UNCHANGED <<netVars, file, slot, interest, leaked>>

\* The array is full: the server closes the connection.
Refuse == \E fd \in Conns, k \in Clients :
  /\ server # "epoll"
  /\ Accepted(fd, k)
  /\ \A i \in Entries : slot[i] # FD_NONE
  /\ cl' = [cl EXCEPT ![k] = "idle"]
  /\ gone' = gone \ {k}
  /\ unread' = unread \ {k}
  /\ UNCHANGED <<file, slot, interest, leaked>>

\* EPOLL_CTL_ADD; when it fails Accepter just returns.
AddToEpoll == \E fd \in Conns, k \in Clients :
  /\ server = "epoll"
  /\ Accepted(fd, k)
  /\ file' = [file EXCEPT ![fd] = k]
  /\ cl' = [cl EXCEPT ![k] = "open"]
  /\ \/ interest' = interest \cup {fd} /\ UNCHANGED leaked
     \/ leaked' = leaked \cup {k} /\ UNCHANGED interest
  /\ UNCHANGED <<gone, unread, slot>>

Accepter == AcceptFails \/ AddToArray \/ Refuse \/ AddToEpoll

----------------------------------------------------------------------------
(* Recver *)

\* recv() > 0.
Receive(fd) == /\ file[fd] \in unread
               /\ unread' = unread \ {file[fd]}
               /\ UNCHANGED <<cl, gone, backlog, file, slot, interest, leaked>>

\* Mutant of Drop: the entry of the array is not reset to FD_NONE.
DropKeepSlot(fd) == /\ file[fd] # NoClient
                    /\ file[fd] \notin unread
                    /\ file[fd] \in gone
                    /\ Closed(fd)
                    /\ interest' = interest \ {fd}
                    /\ UNCHANGED <<slot, unread, backlog, leaked>>

\* Mutant of Drop: the descriptor is forgotten but not closed.
DropNoClose(fd) == /\ file[fd] # NoClient
                   /\ file[fd] \notin unread
                   /\ file[fd] \in gone
                   /\ slot' = [i \in Entries |->
                                 IF slot[i] = fd THEN FD_NONE ELSE slot[i]]
                   /\ interest' = interest \ {fd}
                   /\ UNCHANGED <<netVars, file, leaked>>

\* recv() = 0 or -1: the descriptor leaves the array or epoll's interest, and
\* is closed.
Drop(fd) == /\ file[fd] # NoClient
            /\ file[fd] \notin unread
            /\ file[fd] \in gone
            /\ Closed(fd)
            /\ slot' = [i \in Entries |->
                          IF slot[i] = fd THEN FD_NONE ELSE slot[i]]
            /\ interest' = interest \ {fd}
            /\ UNCHANGED <<unread, backlog, leaked>>

Recver(fd) == Receive(fd) \/ Drop(fd)

Handle(fd) == IF fd = Listen THEN Accepter ELSE Recver(fd)

----------------------------------------------------------------------------
(* The loops *)

Waiting == up = "serving" /\ pos = Slots[server] /\ (server = "epoll" => ready = {})

\* select() copies the descriptors of the array into rfds and leaves those
\* that are readable.
Select == LET used == {slot[i] : i \in Entries} \ {FD_NONE}
          IN  /\ server = "select" /\ Waiting
              /\ ready' = {fd \in used : Readable(fd)}
              /\ ready' # {}
              /\ pos' = 0

\* poll() sets revents in every entry.
Poll == /\ server = "poll" /\ Waiting
        /\ ready' = {i \in Entries : slot[i] # FD_NONE /\ Readable(slot[i])}
        /\ ready' # {}
        /\ pos' = 0

EpollWait == /\ server = "epoll" /\ Waiting
             /\ ready' = {fd \in interest : Readable(fd)}
             /\ ready' # {}
             /\ UNCHANGED pos

\* Whether the sweep of the array does something for entry i.
Marked(i) == /\ slot[i] # FD_NONE
             /\ IF server = "select" THEN slot[i] \in ready ELSE i \in ready

\* Mutant of Sweep: HandlerEvent leaves its loop after the first event.
SweepFirst == /\ pos < Slots[server]
              /\ IF Marked(pos)
                   THEN Handle(slot[pos]) /\ pos' = Slots[server]
                   ELSE /\ UNCHANGED <<netVars, file, slot, interest, leaked>>
                        /\ pos' = pos + 1
              /\ UNCHANGED <<server, up, ready>>

Sweep == /\ pos < Slots[server]
         /\ IF Marked(pos)
              THEN Handle(slot[pos])
              ELSE UNCHANGED <<netVars, file, slot, interest, leaked>>
         /\ pos' = pos + 1
         /\ UNCHANGED <<server, up, ready>>

HandlerEvents == /\ server = "epoll"
                 /\ \E fd \in ready : Handle(fd) /\ ready' = ready \ {fd}
                 /\ UNCHANGED <<server, up, pos>>

Wait == /\ Select \/ Poll \/ EpollWait
        /\ UNCHANGED <<server, up, netVars, file, slot, interest, leaked>>

ServerStep == Construct \/ Wait \/ Sweep \/ HandlerEvents

Next == ServerStep \/ \E k \in Clients : ClientStep(k)

Spec == Init /\ [][Next]_vars

\* The server is one thread, which runs whenever it is not blocked.  The
\* clients owe nothing to anybody.
FairSpec == Spec /\ WF_vars(ServerStep)

----------------------------------------------------------------------------

\* The descriptors the server is about to call accept or recv on.
Pending == IF server = "epoll" THEN ready
           ELSE {slot[i] : i \in {j \in pos..Slots[server] - 1 : Marked(j)}}

\* No call blocks ("will accept block here? it won't", selectServer.hpp:115):
\* what was reported as readable still is when its turn in the sweep comes,
\* although connections were accepted and closed since, and descriptors and
\* entries of the array were given out again.
NeverBlocks == \A fd \in Pending : Readable(fd)

\* The array or epoll's interest set names exactly the open connections, each
\* once: nothing is watched after it was closed, and nothing open is
\* forgotten, save the connections whose EPOLL_CTL_ADD failed.
TablesAgree ==
  LET open == {fd \in Conns : file[fd] # NoClient}
      kept == {fd \in open : file[fd] \in leaked}
  IN  up = "serving" =>
      /\ {k \in Clients : cl[k] = "open"} = {file[fd] : fd \in open}
      /\ \A fd, other \in open : file[fd] = file[other] => fd = other
      /\ server # "epoll" =>
           /\ {slot[i] : i \in Entries} \ {FD_NONE} = open \cup {Listen}
           /\ \A i, j \in Entries : slot[i] = slot[j] /\ i # j
                                      => slot[i] = FD_NONE
      /\ server = "epoll" => interest = (open \ kept) \cup {Listen}

\* Whatever the other clients do, data on an accepted connection is received
\* and a connection whose client has left is closed; even while every accept
\* fails.  Only the connections that epoll does not watch are left out.
Served == \A k \in Clients :
  /\ (cl[k] = "open" /\ k \in unread) ~> (k \notin unread \/ k \in leaked)
  /\ (cl[k] = "open" /\ k \in gone) ~> (cl[k] # "open" \/ k \in leaked)

\* While there are descriptors a connection does not wait in the queue for
\* ever: it is accepted, or refused because the array is full, unless the
\* constructor fails after listen().
Answered == \A k \in Clients :
  (cl[k] = "queued" /\ Limit[server] >= Cardinality(Clients))
    ~> (cl[k] # "queued" \/ up = "exited")
=============================================================================
