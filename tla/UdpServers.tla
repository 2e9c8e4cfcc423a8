----------------------------- MODULE UdpServers -----------------------------
(* Three UDP servers of one loop each, with their clients, and a client:    *)
(*   relay  10-20: sends each message to everyone who ever spoke; its       *)
(*          clients send in one thread and print in another;                *)
(*   log    11-11/UdpSocket: prints who said what;                          *)
(*   sink   10-19/udp: only receives;                                       *)
(*   room   importent-code/UdpSocket/UdpClient.cc: ChatServer, its server,  *)
(*          forwards whatever was sent to it.                               *)
(*                                                                          *)
(* The network may lose, repeat and reorder datagrams.  A text is a         *)
(* sequence of characters; a buffer keeps what was in it behind the         *)
(* terminating 0 of the latest text.  Who prints a text has room for a part *)
(* of it behind the speaker's name; the servers' own buffers hold more than *)
(* that.  recvfrom() on these sockets does not fail once they are bound.    *)
EXTENDS Naturals, Sequences

CONSTANTS Speakers,  \* the clients
          Texts,     \* what users type: sequences of characters other than 0
          Room,      \* how many characters fit behind each speaker's name
          Nul,       \* the terminating 0
          Garbage,   \* what an uninitialised buffer holds, if not 0
          AfInet,    \* the character 2, the first one of a socket address
          Nobody

UdpAssumption == /\ Nobody \notin Speakers
                 /\ Room \in [Speakers -> Nat \ {0}]
                 /\ \A t \in Texts :
                      t \in Seq({t[i] : i \in DOMAIN t} \ {Nul, Garbage})
                 /\ AfInet # Nul

VARIABLES program,   \* which server; it never changes
          udpMain,   \* where the server is
          sent,      \* the datagrams sent to it, <<who, text>>
          buffer,    \* the buffer of recvfrom()
          key,       \* the speaker that the relay names
          users,     \* _users, everyone who spoke
          todo,      \* the users the relay has still to send to
          printed,   \* the last line the log printed
          heard,     \* the last message each client printed, <<who, text>>
          sender,    \* where the sending thread of each client is
          waiting    \* which thread each client's main waits for

udpVars == <<program, udpMain, sent, buffer, key, users, todo, printed, heard,
             sender, waiting>>

----------------------------------------------------------------------------
(* Buffers *)

\* Mutant of Fill: the terminating 0 is missing.
FillNoNul(old, text) == text \o SubSeq(old, Len(text) + 1, Len(old))

\* recvfrom() and buffer[s] = 0.
Fill(old, text) == text \o <<Nul>> \o SubSeq(old, Len(text) + 2, Len(old))

\* The string in a buffer.
CString(buf) ==
  LET ends == {i \in 1..Len(buf) : buf[i] = Nul}
  IN IF ends = {} THEN buf
     ELSE SubSeq(buf, 1, (CHOOSE i \in ends : \A j \in ends : i <= j) - 1)

\* The buffers of the servers are not initialised: the string that recvfrom()
\* has not written is empty, or whatever was there.
Leftovers == {<<Nul>>, <<Garbage, Nul>>}

\* What is printed of a text behind the name of a speaker.
Line(who, text) ==
  <<who, IF Len(text) <= Room[who] THEN text ELSE SubSeq(text, 1, Room[who])>>

\* The kernel writes the sender's address, AF_INET and 0 first, where the
\* message already is.
Overlay(buf) == <<AfInet, Nul>> \o SubSeq(buf, 3, Len(buf))

----------------------------------------------------------------------------

Said == Speakers \X {t \in Texts : t # <<>>}

\* The type invariant.
UdpTypeOK ==
  /\ udpMain \in {"init", "recvfrom", "push", "exit"}
  /\ sent \subseteq Speakers \X Texts
  /\ key \in Speakers \cup {Nobody}
  /\ users \subseteq Speakers /\ todo \subseteq users
  /\ sender \in [Speakers -> {"type", "done"}]
  /\ waiting \in [Speakers -> {"sender", "recver"}]

UdpInit == /\ udpMain = "init"
           /\ sent = {}
           /\ buffer \in IF program \in {"relay", "log", "sink"} THEN Leftovers
                                                                ELSE {<<Nul>>}
           /\ key = Nobody
           /\ users = {} /\ todo = {}
           /\ printed = <<Nobody, <<>>>>
           /\ heard = [u \in Speakers |-> <<Nobody, <<>>>>]
           /\ sender = [u \in Speakers |-> "type"]
           /\ waiting = [u \in Speakers |-> "sender"]

----------------------------------------------------------------------------
(* The servers *)

serverVars == <<udpMain, buffer, key, users, todo, printed>>
clientVars == <<sent, sender, waiting>>

\* socket() and bind(), or exit().
UdpSetup == /\ udpMain = "init"
            /\ udpMain' \in {"recvfrom", "exit"}
            /\ UNCHANGED <<program, buffer, key, users, todo, printed, heard,
                           clientVars>>

\* The relay.  An empty datagram leaves buffer and key, which is not set
\* again but lies where it lay in the last turn of the loop, as they were.
RelayRecv == /\ udpMain = "recvfrom"
             /\ \E d \in sent :
                  IF d[2] # <<>>
                  THEN /\ buffer' = Fill(buffer, d[2])
                       /\ key' = d[1]
                       /\ users' = users \cup {d[1]}
                  ELSE UNCHANGED <<buffer, key, users>>
             /\ todo' = users'
             /\ udpMain' = "push"
             /\ UNCHANGED <<program, printed, heard, clientVars>>

\* udprecv, in the client: a message is printed, or was lost.  One that does
\* not fit is cut to the 1014 characters of the buffer, and the 0 goes into
\* the byte behind it, which is padding in the frame of the function.
RecvAtClient(u, who, text) ==
  heard' \in {heard, [heard EXCEPT ![u] = Line(who, text)]}

\* sendto() for one user.
RelayPush == /\ udpMain = "push"
             /\ \E u \in todo :
                  /\ todo' = todo \ {u}
                  /\ RecvAtClient(u, key, CString(buffer))
             /\ UNCHANGED <<program, udpMain, buffer, key, users, printed,
                            clientVars>>

RelayLoop == /\ udpMain = "push"
             /\ todo = {}
             /\ udpMain' = "recvfrom"
             /\ UNCHANGED <<program, buffer, key, users, todo, printed, heard,
                            clientVars>>

\* The log prints the buffer under the sender's name, whatever was received;
\* logMessage cuts a line that is too long.
LogRecv == /\ udpMain = "recvfrom"
           /\ \E d \in sent :
                /\ buffer' = IF d[2] # <<>> THEN Fill(buffer, d[2]) ELSE buffer
                /\ printed' = Line(d[1], CString(buffer'))
           /\ UNCHANGED <<program, udpMain, key, users, todo, heard, clientVars>>

SinkRecv == /\ udpMain = "recvfrom"
            /\ \E d \in sent : d[2] # <<>> /\ buffer' = Fill(buffer, d[2])
            /\ UNCHANGED <<program, udpMain, key, users, todo, printed, heard,
                           clientVars>>

----------------------------------------------------------------------------
(* The clients *)

\* getline() and sendto(), once the server's address is known.
TypeText(u) == /\ sender[u] = "type"
               /\ \E t \in Texts : sent' = sent \cup {<<u, t>>}
               /\ UNCHANGED <<program, serverVars, heard, sender, waiting>>

\* "quit" ends the sending thread of a client of the relay.
SenderQuit(u) == /\ program = "relay"
                 /\ sender[u] = "type"
                 /\ sender' = [sender EXCEPT ![u] = "done"]
                 /\ UNCHANGED <<program, serverVars, heard, sent, waiting>>

\* sender->join() returns; recver->join() never does.
JoinSender(u) == /\ waiting[u] = "sender" /\ sender[u] = "done"
                 /\ waiting' = [waiting EXCEPT ![u] = "recver"]
                 /\ UNCHANGED <<program, serverVars, heard, sent, sender>>

\* recver(): recvfrom() gets its buffer as the place for the address, too.
RoomRecv(u) == /\ program = "room"
               /\ \E d \in sent :
                    /\ d[2] # <<>>
                    /\ heard' \in {heard, [heard EXCEPT ![u] =
                                     <<Nobody, CString(Overlay(Fill(<<>>, d[2])))>>]}
               /\ UNCHANGED <<program, serverVars, clientVars>>

RelayStep == program = "relay" /\ (UdpSetup \/ RelayRecv \/ RelayPush \/ RelayLoop)
LogStep == program = "log" /\ (UdpSetup \/ LogRecv)
SinkStep == program = "sink" /\ (UdpSetup \/ SinkRecv)
UdpServerStep == RelayStep \/ LogStep \/ SinkStep

UdpClientStep(u) == TypeText(u) \/ SenderQuit(u) \/ JoinSender(u) \/ RoomRecv(u)

UdpNext == UdpServerStep \/ \E u \in Speakers : UdpClientStep(u)

UdpSpec == /\ UdpInit /\ program \in {"relay", "log", "sink", "room"}
           /\ [][UdpNext]_udpVars

----------------------------------------------------------------------------

\* Whatever a client prints was said by the user it names, word for word as
\* far as the line has room for it, though the buffer keeps the ends of longer
\* texts, datagrams come repeated and out of order, and an empty one makes the
\* relay send again; and the client has spoken itself.  What the log prints
\* was said by somebody, and by the user it names unless that one sent an
\* empty datagram; only before the first text reaches the log, an empty datagram
\* makes it print what lay in the buffer.  A client of the chat room prints no
\* word of what was said, for the address is written over the text.
UdpSaid ==
  /\ \A u \in Speakers : heard[u] # <<Nobody, <<>>>> =>
       IF program = "room" THEN heard[u][2] = <<AfInet>>
       ELSE /\ \E d \in sent \cap Said : heard[u] = Line(d[1], d[2])
            /\ \E d \in sent \cap Said : d[1] = u
  /\ printed[1] # Nobody =>
       \/ \E d \in sent \cap Said : printed = Line(d[1], d[2])
       \/ /\ <<printed[1], <<>>>> \in sent
          /\ \/ \E d \in sent \cap Said : printed = Line(printed[1], d[2])
             \/ /\ buffer \in Leftovers
                /\ printed = Line(printed[1], CString(buffer))
=============================================================================
