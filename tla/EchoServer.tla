----------------------------- MODULE EchoServer -----------------------------
(* The iterative server of 11-11/TcpServer, which serves one connection to  *)
(* its end before it accepts the next, and its clients (11-11/TcpServer and *)
(* 10-21/tcp_client.cc, the same loop).                                     *)
(*                                                                          *)
(* The server answers each line with the 1024 bytes of its buffer, and the  *)
(* client reads at most 1023: an answer is its text and a rest that the     *)
(* next recv() finds.  A line crosses the stream whole; lines that wait     *)
(* together may be read together.                                           *)
EXTENDS Naturals, Sequences

CONSTANTS Talkers,   \* the clients
          MaxConns,  \* bound on the connections they make in all
          MaxAhead   \* bound on what is on its way when a user types a line

EchoAssumption == MaxConns \in Nat /\ MaxAhead \in Nat \ {0}

VARIABLES echoMain,    \* where the server is
          echoTurn,    \* the connection it accepted last
          echoConns,   \* how many connections were made; they wait in order
          echoFailed,  \* a write() to the one being served has failed
          echoUp,      \* the lines on their way to the server
          echoDown,    \* the answers on their way to the client
          echoEnd,     \* how the server ended each connection
          echoUser,    \* where each client is
          echoSock     \* the connection each client holds, or 0

echoVars == <<echoMain, echoTurn, echoConns, echoFailed, echoUp, echoDown,
              echoEnd, echoUser, echoSock>>

Conns == 1..MaxConns
Lines == {"text", "QUIT"}

\* The client closed its end of connection k, or was killed.
Abandoned(k) == \A c \in Talkers : echoSock[c] # k

\* The type invariant.
EchoTypeOK ==
  /\ echoMain \in {"init", "accept", "read", "write", "close", "exit", "killed"}
  /\ echoTurn \in 0..echoConns /\ echoConns \in 0..MaxConns
  /\ echoFailed \in BOOLEAN
  /\ \A k \in Conns : /\ echoUp[k] \in Seq(Lines)
                      /\ echoDown[k] \in Seq({"text", "rest"})
  /\ echoEnd \in [Conns -> {"open", "fin", "reset", "seen"}]
  /\ echoUser \in [Talkers -> {"connect", "type", "recv", "exit", "killed"}]
  /\ echoSock \in [Talkers -> 0..MaxConns]

EchoInit == /\ echoMain = "init"
            /\ echoTurn = 0 /\ echoConns = 0
            /\ echoFailed = FALSE
            /\ echoUp = [k \in Conns |-> <<>>]
            /\ echoDown = [k \in Conns |-> <<>>]
            /\ echoEnd = [k \in Conns |-> "open"]
            /\ echoUser = [c \in Talkers |-> "connect"]
            /\ echoSock = [c \in Talkers |-> 0]

----------------------------------------------------------------------------
(* The server *)

\* socket(), bind() and listen(), or exit().
InitServer == /\ echoMain = "init"
              /\ echoMain' \in {"accept", "exit"}
              /\ UNCHANGED <<echoTurn, echoConns, echoFailed, echoUp, echoDown,
                             echoEnd, echoUser, echoSock>>

AcceptNext == /\ echoMain = "accept"
              /\ echoTurn < echoConns
              /\ echoTurn' = echoTurn + 1
              /\ echoFailed' = FALSE
              /\ echoMain' = "read"
              /\ UNCHANGED <<echoConns, echoUp, echoDown, echoEnd, echoUser,
                             echoSock>>

\* read() finds one line or more.  "quit" in any case, by itself, ends the
\* conversation; anything else is answered.
ReadLines == /\ echoMain = "read"
             /\ \E n \in 1..Len(echoUp[echoTurn]) :
                  /\ echoMain' = IF n = 1 /\ Head(echoUp[echoTurn]) = "QUIT"
                                 THEN "close" ELSE "write"
                  /\ echoUp' = [echoUp EXCEPT ![echoTurn] =
                                  SubSeq(@, n + 1, Len(@))]
             /\ UNCHANGED <<echoTurn, echoConns, echoFailed, echoDown, echoEnd,
                            echoUser, echoSock>>

\* read() returns 0 or an error.
ReadEnd == /\ echoMain = "read"
           /\ echoUp[echoTurn] = <<>>
           /\ Abandoned(echoTurn)
           /\ echoMain' = "close"
           /\ UNCHANGED <<echoTurn, echoConns, echoFailed, echoUp, echoDown,
                          echoEnd, echoUser, echoSock>>

\* How a process ends connection k: with data unread, by a reset.
Ending(k) == IF echoUp[k] = <<>> THEN "fin" ELSE "reset"

\* write() of the whole buffer, its result ignored.  To a client that has
\* gone the first fails in silence, or meets its reset, and the second raises
\* SIGPIPE, which ends the server and all its connections.
WriteBuffer ==
  /\ echoMain = "write"
  /\ \/ /\ ~Abandoned(echoTurn)
        /\ echoDown' = [echoDown EXCEPT ![echoTurn] = @ \o <<"text", "rest">>]
        /\ echoMain' = "read"
        /\ UNCHANGED <<echoFailed, echoEnd>>
     \/ /\ Abandoned(echoTurn) /\ ~echoFailed
        /\ echoFailed' = TRUE
        /\ echoMain' = "read"
        /\ UNCHANGED <<echoDown, echoEnd>>
     \/ /\ Abandoned(echoTurn) /\ echoFailed
        /\ echoMain' = "killed"
        /\ echoEnd' = [k \in Conns |-> IF k \in echoTurn..echoConns
                                       THEN Ending(k) ELSE echoEnd[k]]
        /\ UNCHANGED <<echoDown, echoFailed>>
  /\ UNCHANGED <<echoTurn, echoConns, echoUp, echoUser, echoSock>>

\* Mutant of CloseSock: the descriptor is not closed.
CloseSockNot == /\ echoMain = "close"
                /\ echoMain' = "accept"
                /\ UNCHANGED <<echoTurn, echoConns, echoFailed, echoUp, echoDown,
                               echoEnd, echoUser, echoSock>>

CloseSock == /\ echoMain = "close"
             /\ echoEnd' = [echoEnd EXCEPT ![echoTurn] = Ending(echoTurn)]
             /\ echoUp' = [echoUp EXCEPT ![echoTurn] = <<>>]
             /\ echoMain' = "accept"
             /\ UNCHANGED <<echoTurn, echoConns, echoFailed, echoDown, echoUser,
                            echoSock>>

----------------------------------------------------------------------------
(* The client *)

At(c, to) == echoUser' = [echoUser EXCEPT ![c] = to]
\* The client closes its connection, with what it has not read.
Drop(c) == /\ echoSock' = [echoSock EXCEPT ![c] = 0]
           /\ echoDown' = [echoDown EXCEPT ![echoSock[c]] = <<>>]
ServerSide == <<echoMain, echoTurn, echoFailed>>

\* if (!alive) socket() and connect(), which fails if nobody listens.
ConnectTo(c) ==
  /\ echoUser[c] = "connect"
  /\ IF echoMain \in {"init", "exit", "killed"}
     THEN At(c, "exit") /\ UNCHANGED <<echoConns, echoSock>>
     ELSE /\ echoConns < MaxConns
          /\ echoConns' = echoConns + 1
          /\ echoSock' = [echoSock EXCEPT ![c] = echoConns + 1]
          /\ At(c, "type")
  /\ UNCHANGED <<ServerSide, echoUp, echoDown, echoEnd>>

\* A line: send() succeeds as long as no reset was seen; the first call after
\* the reset reports it, and the client connects again; if recv() has
\* reported it, which leaves alive set, send() raises SIGPIPE.
TypeLine(c) ==
  LET k == echoSock[c] IN
    /\ echoUser[c] = "type"
    /\ Len(echoUp[k]) + Len(echoDown[k]) < MaxAhead
    /\ \/ /\ echoEnd[k] \in {"open", "fin"}
          /\ \E line \in Lines : echoUp' =
               IF echoEnd[k] = "open" THEN [echoUp EXCEPT ![k] = Append(@, line)]
                                      ELSE echoUp
          /\ At(c, "recv")
          /\ UNCHANGED <<echoSock, echoDown>>
       \/ /\ echoEnd[k] = "reset"
          /\ At(c, "connect") /\ Drop(c)
          /\ UNCHANGED echoUp
       \/ /\ echoEnd[k] = "seen"
          /\ At(c, "killed") /\ Drop(c)
          /\ UNCHANGED echoUp
    /\ UNCHANGED <<ServerSide, echoConns, echoEnd>>

\* An empty line makes send() return 0: the client closes and connects again.
TypeEmpty(c) == /\ echoUser[c] = "type"
                /\ At(c, "connect") /\ Drop(c)
                /\ UNCHANGED <<ServerSide, echoConns, echoUp, echoEnd>>

\* "quit", or the user kills the client.
Quit(c) == /\ echoUser[c] \in {"type", "recv"}
           /\ At(c, "exit") /\ Drop(c)
           /\ UNCHANGED <<ServerSide, echoConns, echoUp, echoEnd>>

\* recv() of 1023 bytes: a text, the rest of one, or a rest with most of the
\* answer after it.
RecvEcho(c) ==
  LET k == echoSock[c] IN
    /\ echoUser[c] = "recv"
    /\ echoDown[k] # <<>>
    /\ \E n \in IF Head(echoDown[k]) = "rest" /\ Len(echoDown[k]) > 1
                THEN {1, 2} ELSE {1} :
         echoDown' = [echoDown EXCEPT ![k] = SubSeq(@, n + 1, Len(@))]
    /\ At(c, "type")
    /\ UNCHANGED <<ServerSide, echoConns, echoUp, echoEnd, echoSock>>

\* recv() returns 0: the client connects again.  It fails: alive stays set.
RecvEnded(c) ==
  LET k == echoSock[c] IN
    /\ echoUser[c] = "recv"
    /\ echoDown[k] = <<>>
    /\ \/ /\ echoEnd[k] = "fin"
          /\ At(c, "connect") /\ Drop(c)
          /\ UNCHANGED echoEnd
       \/ /\ echoEnd[k] = "reset"
          /\ At(c, "type")
          /\ echoEnd' = [echoEnd EXCEPT ![k] = "seen"]
          /\ UNCHANGED <<echoSock, echoDown>>
    /\ UNCHANGED <<ServerSide, echoConns, echoUp>>

----------------------------------------------------------------------------

EchoServerStep == InitServer \/ AcceptNext \/ ReadLines \/ ReadEnd \/ WriteBuffer
                  \/ CloseSock
EchoClientStep(c) == ConnectTo(c) \/ RecvEcho(c) \/ RecvEnded(c)

EchoNext == \/ EchoServerStep
            \/ \E c \in Talkers : \/ EchoClientStep(c)
                                  \/ TypeLine(c) \/ TypeEmpty(c) \/ Quit(c)

\* Both programs run when they can; no user has to type.
EchoSpec == /\ EchoInit /\ [][EchoNext]_echoVars
            /\ WF_echoVars(EchoServerStep)
            /\ \A c \in Talkers : WF_echoVars(EchoClientStep(c))

----------------------------------------------------------------------------

\* The server serves another client.
Busy(c) == \E d \in Talkers \ {c} : echoSock[d] # 0 /\ echoSock[d] = echoTurn

\* A client that waits is answered, though the rest of an older answer may
\* have sent it ahead of the server and its lines were then read as one, or
\* learns that the server has ended; unless from some time on another client
\* keeps the server to itself.
EchoAnswered == \A c \in Talkers : []<>(echoUser[c] # "recv") \/ <>[]Busy(c)
=============================================================================
