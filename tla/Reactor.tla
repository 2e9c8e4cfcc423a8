------------------------------ MODULE Reactor ------------------------------
(***************************************************************************)
(* The epoll reactor of Reactor/reactor: TcpServer.hpp (Accepter, Recver,  *)
(* Sender, Excepter, LoopOnce), Epoll.hpp, SpliteMessage of Protocol.hpp   *)
(* and NetCal of main.cc.  One thread waits for events and dispatches each *)
(* to the callbacks of its connection; every socket is non-blocking and    *)
(* edge triggered.  The server steps from system call to system call, and  *)
(* the clients act between any two of them.                                *)
(***************************************************************************)
EXTENDS TcpNet, FiniteSets

CONSTANTS NFds,  \* descriptors accept can hand out
          None   \* no connection behind a descriptor

ASSUME ReactorAssumption == NFds \in Nat \ {0} /\ None \notin Clients

Listen == 0         \* _listensock
Fds == 1..NFds
AllFds == Fds \cup {Listen}

VARIABLES
  fdtab,        \* fdtab[f]: the connection behind descriptor f, or None
  interest,     \* epoll's event mask of a descriptor, {} if not added
  ready,        \* epoll's ready list
  pc,           \* where the server thread is
  revs,         \* events of the last epoll_wait still to be dispatched
  cur,          \* the event being dispatched
  connections,  \* keys of _connections
  inbuffer,     \* _inbuffer of the Connection of a descriptor
  outbuffer,    \* _outbuffer
  refused,      \* history: the last run of Accepter ended in an error
  leaked        \* history: descriptors that EPOLL_CTL_ADD refused

serverVars == <<fdtab, interest, ready, pc, revs, cur,
                connections, inbuffer, outbuffer, refused, leaked>>
vars == <<netVars, serverVars>>

Event == [fd : AllFds, in : BOOLEAN, out : BOOLEAN]

(* The constructor registers the listening socket, which may fail unnoticed *)
(* as it may for every other socket (see AddConnection).                    *)
Init ==
  /\ NetInit
  /\ leaked \in SUBSET {Listen}
  /\ fdtab = [f \in Fds |-> None]
  /\ interest = [f \in AllFds |-> IF f = Listen /\ f \notin leaked THEN {"IN"} ELSE {}]
  /\ ready = {}
  /\ pc = "wait"
  /\ revs = {}
  /\ cur = [fd |-> Listen, in |-> FALSE, out |-> FALSE]
  /\ connections = {Listen}
  /\ inbuffer = [f \in Fds |-> <<>>]
  /\ outbuffer = [f \in Fds |-> <<>>]
  /\ refused = FALSE
-----------------------------------------------------------------------------
(* The kernel's side of epoll.                                             *)

(* The interesting events that hold of descriptor f now.  A reset          *)
(* connection reports an error, which LoopOnce takes as both events.       *)
HasIn(f) == IF f = Listen THEN backlog # <<>> ELSE Readable(fdtab[f])
HasOut(f) == f # Listen /\ Writable(fdtab[f])
HasErr(f) == f # Listen /\ ctl[fdtab[f]] = "rst"

(* Descriptors to put on the ready list when connection k has an edge of   *)
(* kind ev.                                                                *)
Edge(k, ev) == {f \in Fds : fdtab[f] = k /\ ev \in interest[f]}

Connect(k) ==
  /\ NetConnect(k)
  /\ ready' = ready \cup {f \in {Listen} : "IN" \in interest[f]}
  /\ UNCHANGED <<fdtab, interest, pc, revs, cur, connections, inbuffer,
                 outbuffer, refused, leaked>>

(* Symbols, an end of stream and a reset are edges of the input side.      *)
ClientInput(k) ==
  /\ NetSend(k) \/ NetFin(k) \/ NetReset(k)
  /\ ready' = ready \cup Edge(k, "IN")
  /\ UNCHANGED <<fdtab, interest, pc, revs, cur, connections, inbuffer,
                 outbuffer, refused, leaked>>

(* A client that makes room in a full send buffer causes an output edge.   *)
ClientRead(k) ==
  /\ NetRead(k)
  /\ ready' = ready \cup IF Writable(k) THEN {} ELSE Edge(k, "OUT")
  /\ UNCHANGED <<fdtab, interest, pc, revs, cur, connections, inbuffer,
                 outbuffer, refused, leaked>>
-----------------------------------------------------------------------------
(* LoopOnce up to the for loop.  epoll_wait takes the descriptors off the  *)
(* ready list and reports what holds of them.                              *)
WaitEpoll ==
  LET ev(f) == [fd  |-> f,
                in  |-> HasErr(f) \/ ("IN" \in interest[f] /\ HasIn(f)),
                out |-> HasErr(f) \/ ("OUT" \in interest[f] /\ HasOut(f))]
  IN /\ pc = "wait"
     /\ ready # {}
     /\ revs' = {e \in {ev(f) : f \in ready} : e.in \/ e.out}
     /\ ready' = {}
     /\ pc' = "dispatch"
     /\ UNCHANGED <<netVars, fdtab, interest, cur, connections, inbuffer,
                    outbuffer, refused, leaked>>

(* epoll_wait times out: LoopOnce dispatches nothing, ConnectAliveCheck is *)
(* empty, and the loop waits again.                                        *)
WaitTimeout ==
  /\ pc = "wait" /\ ready = {}
  /\ UNCHANGED vars

(* The for loop of LoopOnce takes an event; the kernel fixes no order that *)
(* the server may rely on.  First the receive callback.                    *)
DispatchIn ==
  /\ pc = "dispatch"
  /\ \E e \in revs :
       /\ cur' = e
       /\ revs' = revs \ {e}
       /\ pc' = IF ~e.in \/ e.fd \notin connections THEN "out"
                ELSE IF e.fd = Listen THEN "accept" ELSE "recv"
  /\ UNCHANGED <<netVars, fdtab, interest, ready, connections, inbuffer,
                 outbuffer, refused, leaked>>

(* Then the send callback, which the listening socket does not have.       *)
DispatchOut ==
  /\ pc = "out"
  /\ pc' = IF cur.out /\ cur.fd \in connections /\ cur.fd # Listen
           THEN "send" ELSE "dispatch"
  /\ UNCHANGED <<netVars, fdtab, interest, ready, revs, cur, connections,
                 inbuffer, outbuffer, refused, leaked>>

EndLoop ==
  /\ pc = "dispatch" /\ revs = {}
  /\ pc' = "wait"
  /\ UNCHANGED <<netVars, fdtab, interest, ready, revs, cur, connections,
                 inbuffer, outbuffer, refused, leaked>>
-----------------------------------------------------------------------------
FreeFds == {f \in Fds : fdtab[f] = None}

(* AddConnection for a socket f just accepted from k.  EPOLL_CTL_ADD may   *)
(* fail (no memory, max_user_watches), which nobody looks at: the socket is *)
(* then in the map, but no event of it is ever reported.  insert() leaves  *)
(* an entry that is already there untouched.                               *)
AddSockToEpoll(f, k) ==
  \/ /\ interest' = [interest EXCEPT ![f] = {"IN"}]
     /\ ready' = IF Readable(k) THEN ready \cup {f} ELSE ready
     /\ UNCHANGED leaked
  \/ /\ leaked' = leaked \cup {f}
     /\ UNCHANGED <<interest, ready>>

AddConnectionDirty(f, k) ==            \* faulty: buffers of a reused fd kept
  /\ AddSockToEpoll(f, k)
  /\ connections' = connections \cup {f}
  /\ UNCHANGED <<inbuffer, outbuffer>>

AddConnection(f, k) ==
  LET fresh(buf) == IF f \in connections THEN buf ELSE [buf EXCEPT ![f] = <<>>]
  IN /\ AddSockToEpoll(f, k)
     /\ connections' = connections \cup {f}
     /\ inbuffer' = fresh(inbuffer)
     /\ outbuffer' = fresh(outbuffer)

(* Accepter's loop: one accept() that succeeds, with the lowest free       *)
(* descriptor.                                                             *)
Accept ==
  /\ pc = "accept"
  /\ backlog # <<>>
  /\ LET k == Head(backlog)
     IN \E f \in FreeFds :
          /\ \A g \in FreeFds : f <= g
          /\ fdtab' = [fdtab EXCEPT ![f] = k]
          /\ cl' = [cl EXCEPT ![k] = "open"]
          /\ AddConnection(f, k)
  /\ backlog' = Tail(backlog)
  /\ UNCHANGED <<ctl, sent, rx, tx, got, pc, revs, cur, refused>>

(* accept() has nothing (EAGAIN), or there is no descriptor left (EMFILE,  *)
(* which the kernel tests first): both leave the loop.                     *)
AcceptEnds ==
  /\ pc = "accept"
  /\ FreeFds = {} \/ backlog = <<>>
  /\ refused' = (FreeFds = {})
  /\ pc' = "out"
  /\ UNCHANGED <<netVars, fdtab, interest, ready, revs, cur, connections,
                 inbuffer, outbuffer, leaked>>
-----------------------------------------------------------------------------
conn == cur.fd
peer == fdtab[conn]

(* Excepter: remove from epoll, erase from the map, close.  (The assert on *)
(* DelFromEpoll and the early return are covered by TablesAgree.)          *)
ExcepterKeepsEntry ==                  \* faulty: no erase from the map
  /\ interest' = [interest EXCEPT ![conn] = {}]
  /\ ready' = ready \ {conn}
  /\ fdtab' = [fdtab EXCEPT ![conn] = None]
  /\ cl' = [cl EXCEPT ![peer] = "closed"]
  /\ UNCHANGED connections

Excepter ==
  /\ interest' = [interest EXCEPT ![conn] = {}]
  /\ ready' = ready \ {conn}
  /\ connections' = connections \ {conn}
  /\ fdtab' = [fdtab EXCEPT ![conn] = None]
  /\ cl' = [cl EXCEPT ![peer] = "closed"]

(* Recver's loop: recv() returns what has arrived.                         *)
RecvOnce ==                            \* faulty: no loop around recv()
  /\ pc = "recv" /\ rx[peer] # <<>>
  /\ inbuffer' = [inbuffer EXCEPT ![conn] = @ \o rx[peer]]
  /\ rx' = [rx EXCEPT ![peer] = <<>>]
  /\ pc' = "handle"
  /\ UNCHANGED <<cl, ctl, backlog, sent, tx, got, fdtab, interest, ready,
                 revs, cur, connections, outbuffer, refused, leaked>>

RecvData ==
  /\ pc = "recv" /\ rx[peer] # <<>>
  /\ inbuffer' = [inbuffer EXCEPT ![conn] = @ \o rx[peer]]
  /\ rx' = [rx EXCEPT ![peer] = <<>>]
  /\ UNCHANGED <<cl, ctl, backlog, sent, tx, got, fdtab, interest, ready, pc,
                 revs, cur, connections, outbuffer, refused, leaked>>

(* recv() returns 0 or an error once everything that had arrived is read.  *)
(* The Connection is deleted; Recver then logs members of the deleted      *)
(* object, which prints what the freed memory holds, and returns.          *)
RecvCloses ==
  /\ pc = "recv" /\ rx[peer] = <<>> /\ ctl[peer] # "ok"
  /\ Excepter
  /\ pc' = "out"
  /\ UNCHANGED <<ctl, backlog, sent, rx, tx, got, revs, cur, inbuffer,
                 outbuffer, refused, leaked>>

RecvAgain ==
  /\ pc = "recv" /\ rx[peer] = <<>> /\ ctl[peer] = "ok"
  /\ pc' = "handle"
  /\ UNCHANGED <<netVars, fdtab, interest, ready, revs, cur, connections,
                 inbuffer, outbuffer, refused, leaked>>

(* EnableReadWrite: EPOLL_CTL_MOD puts the descriptor back on the ready    *)
(* list if one of the events already holds.                                *)
EnableReadWriteBoth(f, writeable) ==   \* faulty: EPOLLOUT stays on
  /\ interest' = [interest EXCEPT ![f] = {"IN", "OUT"}]
  /\ ready' = IF HasIn(f) \/ HasOut(f) THEN ready \cup {f} ELSE ready

EnableReadWrite(f, writeable) ==
  /\ interest' = [interest EXCEPT ![f] = {"IN"} \cup IF writeable THEN {"OUT"} ELSE {}]
  /\ ready' = IF HasIn(f) \/ (writeable /\ HasOut(f))
              THEN ready \cup {f} ELSE ready

Deserialized(message) == message # <<>> /\ message[1] > 0

(* NetCal: a request that cannot be deserialized gets no reply; a reply is *)
(* appended to _outbuffer and writing is enabled.                          *)
NetCalQuiet(f, request) ==             \* faulty: writing not enabled
  /\ outbuffer' = [outbuffer EXCEPT ![f] =
                     IF Deserialized(request) THEN Append(@, request[1]) ELSE @]
  /\ UNCHANGED <<interest, ready>>

NetCal(f, request) ==
  IF Deserialized(request)
  THEN /\ outbuffer' = [outbuffer EXCEPT ![f] = Append(@, request[1])]
       /\ EnableReadWrite(f, TRUE)
  ELSE UNCHANGED <<outbuffer, interest, ready>>

(* i is where find(SEP) stops in a buffer.                                 *)
FirstSep(buf, i) ==
  i \in DOMAIN buf /\ buf[i] = SEP /\ \A j \in 1..(i - 1) : buf[j] # SEP

(* The rest of Recver.  SpliteMessage moves every message, up to its       *)
(* separator, out of _inbuffer, and each is handed to NetCal.  NetCal does *)
(* not touch _inbuffer, so a message is taken and handled in one step.     *)
HandleMessage ==
  /\ pc = "handle"
  /\ \E i \in DOMAIN inbuffer[conn] :
       /\ FirstSep(inbuffer[conn], i)
       /\ NetCal(conn, SubSeq(inbuffer[conn], 1, i - 1))
       /\ inbuffer' = [inbuffer EXCEPT ![conn] = SubSeq(@, i + 1, Len(@))]
  /\ UNCHANGED <<netVars, fdtab, pc, revs, cur, connections, refused, leaked>>

(* calculator() divides the least int by -1, which traps: SIGFPE ends the  *)
(* process.  Operands are left out, so any request may be that one.        *)
NetCalTraps ==
  /\ pc = "handle"
  /\ \E i \in DOMAIN inbuffer[conn] :
       /\ FirstSep(inbuffer[conn], i)
       /\ Deserialized(SubSeq(inbuffer[conn], 1, i - 1))
  /\ pc' = "trapped"
  /\ UNCHANGED <<netVars, fdtab, interest, ready, revs, cur, connections,
                 inbuffer, outbuffer, refused, leaked>>

HasMessage(buf) == \E i \in DOMAIN buf : buf[i] = SEP

HandleNoMore ==                        \* faulty: one message per Recver
  /\ pc = "handle"
  /\ pc' = "out"
  /\ UNCHANGED <<netVars, fdtab, interest, ready, revs, cur, connections,
                 inbuffer, outbuffer, refused, leaked>>

HandleDone ==
  /\ pc = "handle" /\ ~HasMessage(inbuffer[conn])
  /\ pc' = "out"
  /\ UNCHANGED <<netVars, fdtab, interest, ready, revs, cur, connections,
                 inbuffer, outbuffer, refused, leaked>>
-----------------------------------------------------------------------------
(* What one send() takes of _outbuffer: as much as the kernel has room     *)
(* for.  And what erase(0, n) leaves of it.                                *)
SendCount ==
  LET room == SndBuf - Len(tx[peer])
      len == Len(outbuffer[conn])
  IN  IF room < len THEN room ELSE len

UnsentCleared(n) == <<>>               \* faulty: clear() instead of erase
Unsent(n) == SubSeq(outbuffer[conn], n + 1, Len(outbuffer[conn]))

(* Sender's loop: a send() that takes something.                           *)
SendData ==
  /\ pc = "send" /\ ctl[peer] # "rst" /\ SendCount > 0
  /\ tx' = [tx EXCEPT ![peer] = @ \o SubSeq(outbuffer[conn], 1, SendCount)]
  /\ outbuffer' = [outbuffer EXCEPT ![conn] = Unsent(SendCount)]
  /\ pc' = IF Unsent(SendCount) = <<>> THEN "rearm" ELSE "send"
  /\ UNCHANGED <<cl, ctl, backlog, sent, rx, got, fdtab, interest, ready,
                 revs, cur, connections, inbuffer, refused, leaked>>

(* send() has no room: EAGAIN ends the loop.                               *)
SendAgain ==
  /\ pc = "send" /\ ctl[peer] # "rst"
  /\ Len(tx[peer]) = SndBuf /\ outbuffer[conn] # <<>>
  /\ pc' = "rearm"
  /\ UNCHANGED <<netVars, fdtab, interest, ready, revs, cur, connections,
                 inbuffer, outbuffer, refused, leaked>>

(* send() fails because of a reset.  The callback deletes the Connection,  *)
(* the loop ends, and Sender goes on with the deleted object.              *)
SendFails ==
  /\ pc = "send" /\ ctl[peer] = "rst"
  /\ Excepter
  /\ pc' = "rearm"
  /\ UNCHANGED <<ctl, backlog, sent, rx, tx, got, revs, cur, inbuffer,
                 outbuffer, refused, leaked>>

(* The end of Sender: keep EPOLLOUT only while something is left to send.  *)
RearmReadOnly ==                       \* faulty: forgets unsent output
  /\ pc = "rearm" /\ conn \in connections
  /\ EnableReadWrite(conn, FALSE)
  /\ pc' = "dispatch"
  /\ UNCHANGED <<netVars, fdtab, revs, cur, connections, inbuffer, outbuffer,
                 refused, leaked>>

Rearm ==
  /\ pc = "rearm" /\ conn \in connections
  /\ EnableReadWrite(conn, outbuffer[conn] # <<>>)
  /\ pc' = "dispatch"
  /\ UNCHANGED <<netVars, fdtab, revs, cur, connections, inbuffer, outbuffer,
                 refused, leaked>>

(* The same lines on a deleted Connection: whatever the freed members      *)
(* hold, the descriptor is not in epoll, so CtrlEpoll fails and assert(res)*)
(* aborts the process.                                                     *)
RearmDeleted ==
  /\ pc = "rearm" /\ conn \notin connections
  /\ pc' = "aborted"
  /\ UNCHANGED <<netVars, fdtab, interest, ready, revs, cur, connections,
                 inbuffer, outbuffer, refused, leaked>>
-----------------------------------------------------------------------------
Dispatch == WaitEpoll \/ DispatchIn \/ DispatchOut \/ EndLoop
Accepter == Accept \/ AcceptEnds
Recver == \/ RecvData \/ RecvCloses \/ RecvAgain
          \/ HandleMessage \/ NetCalTraps \/ HandleDone
Sender == SendData \/ SendAgain \/ SendFails \/ Rearm \/ RearmDeleted

Server == Dispatch \/ Accepter \/ Recver \/ Sender

Next ==
  \/ Server \/ WaitTimeout
  \/ \E k \in Clients : Connect(k) \/ ClientInput(k) \/ ClientRead(k)

Spec == Init /\ [][Next]_vars

(* The server thread runs; the clients read their replies.                 *)
Fairness ==
  /\ WF_vars(Server)
  /\ \A k \in Clients : WF_vars(ClientRead(k))

FairSpec == Spec /\ Fairness
-----------------------------------------------------------------------------
PCs == {"wait", "dispatch", "accept", "recv", "handle", "out", "send", "rearm",
        "aborted", "trapped"}

TypeOK ==
  /\ NetTypeOK
  /\ fdtab \in [Fds -> Clients \cup {None}]
  /\ interest \in [AllFds -> SUBSET {"IN", "OUT"}]
  /\ ready \subseteq AllFds
  /\ pc \in PCs
  /\ revs \subseteq Event
  /\ cur \in Event
  /\ connections \subseteq AllFds
  /\ inbuffer \in [Fds -> Seq(Int)]
  /\ outbuffer \in [Fds -> Seq(Int)]
  /\ refused \in BOOLEAN
  /\ leaked \subseteq AllFds

Conns == connections \ {Listen}

(* The map of connections, the epoll set and the descriptor table describe *)
(* the same connections, apart from those that EPOLL_CTL_ADD refused: they *)
(* stay in the map, open and unwatched, and are never touched again.  No   *)
(* event waits to be dispatched for a descriptor that has been closed      *)
(* since (it could have been reused by a later accept).                    *)
Watched == {f \in AllFds : interest[f] # {}}

TablesAgree ==
  /\ connections = Watched \cup leaked
  /\ Watched \cap leaked = {}
  /\ Conns = {f \in Fds : fdtab[f] # None}
  /\ Listen \in connections
  /\ \A k \in Clients : cl[k] = "open" <=> \E f \in Fds : fdtab[f] = k
  /\ \A f, g \in Conns : fdtab[f] = fdtab[g] => f = g
  /\ ready \subseteq Watched
  /\ \A e \in revs : e.fd \in Watched

(* EPOLLOUT is wanted exactly for the connections that have something to   *)
(* send, except between Sender's loop and its final EnableReadWrite.       *)
OutputArmed ==
  \A f \in Fds :
    /\ f \in connections /\ outbuffer[f] # <<>> => "OUT" \in interest[f]
    /\ "OUT" \in interest[f] =>
         outbuffer[f] # <<>> \/ (pc = "rearm" /\ conn = f)

(* Sender only runs for a live connection with something to send: send()   *)
(* is never asked for zero bytes, whose result the loop would take for an  *)
(* error with whatever errno was left over.                                *)
SenderHasOutput ==
  pc = "send" => conn \in connections /\ outbuffer[conn] # <<>>

(* The strengthening of TablesAgree, OutputArmed and SenderHasOutput that  *)
(* is inductive.  Waiting connections are queued once; the event being     *)
(* dispatched is for a live connection and is the only one for it; and an  *)
(* output event is either wanted still or due to a reset that Recver will  *)
(* meet first.                                                             *)
QueuedOnce ==
  /\ \A i \in DOMAIN backlog : cl[backlog[i]] = "queued"
  /\ \A i, j \in DOMAIN backlog : backlog[i] = backlog[j] => i = j

DispatchOnce ==
  /\ pc = "wait" => revs = {}
  /\ pc = "accept" => conn = Listen
  /\ pc \in {"recv", "handle", "send"} => conn \in Conns
  /\ pc = "rearm" => conn \in Fds
  /\ \A d, e \in revs : d.fd = e.fd => d = e
  /\ pc \notin {"wait", "dispatch"} =>
       conn \notin leaked /\ \A e \in revs : e.fd # conn

EventsArmed ==
  /\ \A e \in revs : e.out /\ e.fd # Listen =>
       \/ "OUT" \in interest[e.fd]
       \/ e.in /\ ctl[fdtab[e.fd]] = "rst"
  /\ pc = "recv" /\ cur.out =>
       "OUT" \in interest[conn] \/ ctl[peer] = "rst"
  /\ pc \in {"handle", "out"} /\ cur.out /\ conn \in Conns =>
       "OUT" \in interest[conn]

ReactorInv ==
  /\ TypeOK /\ TablesAgree /\ OutputArmed /\ SenderHasOutput
  /\ QueuedOnce /\ DispatchOnce /\ EventsArmed

(* Edge triggering loses nothing: whenever the server goes back to         *)
(* epoll_wait, each connection with unread input, and each with output and *)
(* room to send it, is on the ready list; so is the listening socket while *)
(* connections wait, unless accept failed.  It says nothing of the sockets *)
(* that EPOLL_CTL_ADD refused, of which epoll reports nothing.             *)
NoLostEdge ==
  pc = "wait" =>
    /\ \A f \in Conns \ leaked :
         Readable(fdtab[f]) \/ (outbuffer[f] # <<>> /\ Writable(fdtab[f]))
           => f \in ready
    /\ backlog # <<>> => Listen \in ready \/ refused \/ Listen \in leaked

(* No complete request is left in an input buffer when the server waits:   *)
(* Recver hands on every message that has arrived.                         *)
NoRequestParked ==
  pc = "wait" => \A f \in Conns : ~HasMessage(inbuffer[f])

(* What is on its way to a client answers exactly the requests the server  *)
(* has taken from its stream, in order, each once.                         *)
NoReplyLost ==
  \A f \in Conns :
    LET k == fdtab[f]
        taken == Len(sent[k]) - Len(rx[k]) - Len(inbuffer[f])
    IN  got[k] \o tx[k] \o outbuffer[f] = Replies(SubSeq(sent[k], 1, taken))

(* A client only ever gets replies to its own complete requests, in order, *)
(* also on a descriptor that served another client before.                 *)
RepliesInOrder ==
  \A k \in Clients :
    LET owed == Replies(SubSeq(sent[k], 1, 2 * (Len(sent[k]) \div 2)))
        replies == got[k] \o tx[k]
    IN  /\ Len(replies) <= Len(owed)
        /\ replies = SubSeq(owed, 1, Len(replies))

(* The process has been ended by the assertion or by the division.         *)
Ended == pc \in {"aborted", "trapped"}

(* Client k is not served: no descriptor was left for it, or EPOLL_CTL_ADD *)
(* refused its socket or the listening one.                                *)
Unserved(k) ==
  \/ cl[k] = "queued" /\ (refused \/ Listen \in leaked)
  \/ \E f \in leaked \cap Fds : fdtab[f] = k

(* While the process lives, a complete, well-formed request of a client    *)
(* that is served is answered unless its client ends the connection first: *)
(* other clients may be slow, leave or be reset meanwhile.  Each client    *)
(* sends MaxRequests at most; one that never stopped sending would keep    *)
(* Recver's loop to itself.                                                *)
RequestAnswered ==
  \A k \in Clients : \A n \in 1..MaxRequests[k] :
    (Len(sent[k]) >= 2 * n /\ sent[k][2 * n - 1] = n)
      ~> \/ \E i \in DOMAIN got[k] : got[k][i] = n
         \/ ctl[k] # "ok" \/ Ended \/ Unserved(k)

(* assert(res) of EnableReadWrite holds (TcpServer.hpp:139).               *)
EnableReadWriteSucceeds == pc # "aborted"
=============================================================================
