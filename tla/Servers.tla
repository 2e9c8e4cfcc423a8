------------------------------- MODULE Servers -------------------------------
(* The server programs that are small enough to be checked together.  The   *)
(* initial state chooses the program that runs, and only its component      *)
(* moves; every other component stays in its own initial state.             *)
(*                                                                          *)
(* "chat" is ChatServer, "cal" NetCal, "echo" EchoServer, "skeleton"        *)
(* ReactorSkeleton; "redirect", "http" and "sleep" are those of ForkServers *)
(* and "relay", "log", "sink" and "room" those of UdpServers.               *)
EXTENDS ChatServer

CONSTANTS Callers, Requests, NoRequest, Spares, MaxInt, \* NetCal
          Talkers, MaxConns, MaxAhead,                 \* EchoServer
          Visitors,                                    \* ForkServers
          Speakers, Texts, Room, Nul, Garbage, AfInet, Nobody, \* UdpServers
          Guests, ListenSock, Descriptors, MaxEvents   \* ReactorSkeleton

VARIABLES program,
          calMain, calFiles, sigpipe, calSpare, calThread, calUp, calInbuffer,
          calPackage, calDown, calBuffer, calUser, calAsked, calShown,
          echoMain, echoTurn, echoConns, echoFailed, echoUp, echoDown,
          echoEnd, echoUser, echoSock,
          forkMain, forkCur, holders, kin, visitor, reply,
          udpMain, sent, buffer, key, users, todo, printed, heard, sender,
          waiting,
          skMain, backlog, guest, conns, watched, ready, revs

Cal == INSTANCE NetCal
Echo == INSTANCE EchoServer
Forks == INSTANCE ForkServers
Udp == INSTANCE UdpServers
Sk == INSTANCE ReactorSkeleton

ASSUME ServersAssumption == /\ Cal!CalAssumption /\ Echo!EchoAssumption
                            /\ Udp!UdpAssumption /\ Sk!SkeletonAssumption

Forking == {"redirect", "http", "sleep"}
Datagram == {"relay", "log", "sink", "room"}
Programs == {"chat", "cal", "echo", "skeleton"} \cup Forking \cup Datagram

chatVars == vars
calVars == <<calMain, calFiles, sigpipe, calSpare, calThread, calUp,
             calInbuffer, calPackage, calDown, calBuffer, calUser, calAsked,
             calShown>>
echoVars == <<echoMain, echoTurn, echoConns, echoFailed, echoUp, echoDown,
              echoEnd, echoUser, echoSock>>
forkVars == <<forkMain, forkCur, holders, kin, visitor, reply>>
udpVars == <<udpMain, sent, buffer, key, users, todo, printed, heard, sender,
             waiting>>
skVars == <<skMain, backlog, guest, conns, watched, ready, revs>>
serversVars == <<program, chatVars, calVars, echoVars, forkVars, udpVars,
                 skVars>>

\* The type invariants of all components.
TypesOK == /\ program \in Programs /\ TypeOK
           /\ Cal!CalTypeOK /\ Echo!EchoTypeOK /\ Forks!ForkTypeOK
           /\ Udp!UdpTypeOK /\ Sk!SkTypeOK

\* The descriptors of the calculator are a choice only where it runs.
ServersInit == /\ program \in Programs
               /\ Init /\ Cal!CalInit /\ Echo!EchoInit /\ Forks!ForkInit
               /\ Udp!UdpInit /\ Sk!SkInit
               /\ program # "cal" => calSpare = CHOOSE n \in Spares : TRUE

----------------------------------------------------------------------------

\* One disjunct for each component; what does not run stays as it is.
ServersNext ==
  \/ /\ program = "chat" /\ Next
     /\ UNCHANGED <<program, calVars, echoVars, forkVars, udpVars, skVars>>
  \/ /\ program = "cal" /\ Cal!CalNext
     /\ UNCHANGED <<program, chatVars, echoVars, forkVars, udpVars, skVars>>
  \/ /\ program = "echo" /\ Echo!EchoNext
     /\ UNCHANGED <<program, chatVars, calVars, forkVars, udpVars, skVars>>
  \/ /\ program \in Forking /\ Forks!ForkNext
     /\ UNCHANGED <<program, chatVars, calVars, echoVars, udpVars, skVars>>
  \/ /\ program \in Datagram /\ Udp!UdpNext
     /\ UNCHANGED <<program, chatVars, calVars, echoVars, forkVars, skVars>>
  \/ /\ program = "skeleton" /\ Sk!SkNext
     /\ UNCHANGED <<program, chatVars, calVars, echoVars, forkVars, udpVars>>

\* Each component that runs has the fairness of its own specification.
Fairness ==
  /\ WF_chatVars(program = "chat" /\ MainStep)
  /\ WF_chatVars(program = "chat" /\ RecvStep)
  /\ WF_chatVars(program = "chat" /\ BoardcastStep)
  /\ WF_calVars(program = "cal" /\ Cal!CalMainStep)
  /\ \A c \in Callers : /\ WF_calVars(program = "cal" /\ Cal!CalThreadStep(c))
                        /\ WF_calVars(program = "cal" /\ Cal!CalClientStep(c))
  /\ WF_echoVars(program = "echo" /\ Echo!EchoServerStep)
  /\ \A c \in Talkers : WF_echoVars(program = "echo" /\ Echo!EchoClientStep(c))
  /\ WF_forkVars(program \in Forking /\ Forks!ForkMainStep)
  /\ SF_forkVars(program \in Forking /\ \E c \in Visitors : Forks!SleepAccept(c))
  /\ \A p \in Forks!Kin :
       WF_forkVars(program \in Forking /\ Forks!ForkKinStep(p))
  /\ \A c \in Visitors : WF_forkVars(program \in Forking /\ Forks!VisitEnd(c))
  /\ WF_skVars(program = "skeleton" /\ Sk!SkServerStep)

ServersSpec == ServersInit /\ [][ServersNext]_serversVars /\ Fairness

----------------------------------------------------------------------------

\* The calculator's clients print the answers to what they asked.
CalAnswersRight == Cal!CalAnswersRight

\* Only the one quotient without a value ends the calculator.
CalEndsOnlyByTrap == Cal!CalEndsOnlyByTrap

\* The processes of a forking server keep no connection open for one another,
\* and every request that found a process was replied to.
ForkServed == Forks!ForkAlone /\ Forks!ForkReplied

\* What a datagram server makes its clients print was said.
UdpSaid == Udp!UdpSaid

\* Who waits for a server is served, each in the way and with the exceptions
\* that its component states.
Answered == /\ Delivered
            /\ Cal!CalAnswered
            /\ Echo!EchoAnswered
            /\ Forks!ForkAnswered
            /\ Sk!GuestsAccepted
=============================================================================
