------------------------------- MODULE NetCal -------------------------------
(* The network calculator of 10-23/NetCal: a daemon that starts one thread  *)
(* for each connection, and clients that send a request, wait for the       *)
(* answer and ask the user for the next.                                    *)
(*                                                                          *)
(* A package is the length, the text and their separators; it crosses the   *)
(* stream in two pieces that may arrive apart.  JSON keeps every field of a *)
(* request, so the text of a package is the record itself.                  *)
EXTENDS Integers, Sequences

CONSTANTS Callers,   \* the clients, one connection each
          Requests,  \* what users type: records with x, op and y
          NoRequest,
          Spares,    \* how many descriptors there may be for connections
          MaxInt     \* INT_MAX, 2^(w-1) - 1 for an int of w bits

MinInt == -MaxInt - 1
Ints == MinInt..MaxInt

CalAssumption == /\ MaxInt \in Nat /\ Spares \subseteq Nat
                 /\ NoRequest \notin Requests
                 /\ \A r \in Requests : r.x \in Ints /\ r.y \in Ints

VARIABLES calMain,      \* where the server's main thread is
          calFiles,     \* what the descriptors 0 to 3 of the server refer to
          sigpipe,      \* what SIGPIPE does to the server
          calSpare,     \* how many descriptors are left for connections
          calThread,    \* where each connection's thread is
          calUp,        \* pieces on their way to the server
          calInbuffer,  \* the pieces that calculator() keeps
          calPackage,   \* the request it decoded
          calDown,      \* the answers' pieces on their way to the client
          calBuffer,    \* the pieces that the client keeps
          calUser,      \* where each client is
          calAsked,     \* the request the client sent last
          calShown      \* the answer it printed last

calVars == <<calMain, calFiles, sigpipe, calSpare, calThread, calUp,
             calInbuffer, calPackage, calDown, calBuffer, calUser, calAsked,
             calShown>>

serverVars == <<calMain, calFiles, sigpipe, calSpare, calThread, calInbuffer,
                calPackage>>
clientVars == <<calBuffer, calUser, calAsked, calShown>>

----------------------------------------------------------------------------
(* Arithmetic and the protocol *)

\* + - * wrap around, as g++ compiles them.
Wrap(n) == ((n - MinInt) % (2 * (MaxInt + 1))) + MinInt

Abs(n) == IF n < 0 THEN -n ELSE n

\* Mutant of Quot: the quotient is rounded down.
QuotFloor(x, y) == (IF (x < 0) = (y < 0) THEN Abs(x) ELSE -Abs(x)) \div Abs(y)

\* C++ rounds a quotient towards zero.
Quot(x, y) == (IF (x < 0) = (y < 0) THEN 1 ELSE -1) * (Abs(x) \div Abs(y))

\* The processor traps, and SIGFPE ends the process.
Traps(r) == r.op \in {"/", "%"} /\ r.x = MinInt /\ r.y = -1

\* calculatorHelper: the code and the result.
Helper(r) ==
  CASE r.op = "+" -> <<0, Wrap(r.x + r.y)>>
    [] r.op = "-" -> <<0, Wrap(r.x - r.y)>>
    [] r.op = "*" -> <<0, Wrap(r.x * r.y)>>
    [] r.op \in {"/", "%"} /\ r.y = 0 -> <<IF r.op = "/" THEN 1 ELSE 2, 0>>
    [] r.op = "/" /\ r.y # 0 -> <<0, Quot(r.x, r.y)>>
    [] r.op = "%" /\ r.y # 0 -> <<0, r.x - r.y * Quot(r.x, r.y)>>
    [] OTHER -> <<3, 0>>

RequestText(r) == r
ResponseText(r) == [code |-> Helper(r)[1], result |-> Helper(r)[2],
                    x |-> r.x, y |-> r.y, op |-> r.op]

Encode(text) == <<[text |-> text, part |-> "front"],
                  [text |-> text, part |-> "back"]>>

\* Mutant of Complete: a length without its text is enough for Decode.
CompleteFront(buffer) == buffer # <<>>

\* Decode takes the first package out of the buffer, if all of it is there.
Complete(buffer) == Len(buffer) >= 2
DecodedText(buffer) == Head(buffer).text
DecodedRest(buffer) == SubSeq(buffer, 3, Len(buffer))

\* recv() returns any part of what has arrived, at least one byte.
Received(stream) == {SubSeq(stream, 1, n) : n \in 1..Len(stream)}
Left(stream, got) == SubSeq(stream, Len(got) + 1, Len(stream))

----------------------------------------------------------------------------

\* The type invariant.
CalTypeOK ==
  /\ calMain \in {"daemon", "setup", "accept", "exit", "crash"}
  /\ calFiles \in [0..3 -> {"terminal", "null", "closed"}]
  /\ sigpipe \in {"kills", "ignored"}
  /\ calSpare \in Nat
  /\ calThread \in [Callers -> {"none", "backlog", "recv", "send", "lost",
                                "closed"}]
  /\ calPackage \in [Callers -> Requests \cup {NoRequest}]
  /\ calUser \in [Callers -> {"connect", "ask", "recv", "gone"}]
  /\ calAsked \in [Callers -> Requests \cup {NoRequest}]
  /\ \A c \in Callers : Len(calUp[c]) + Len(calInbuffer[c]) <= 2
                        /\ Len(calDown[c]) + Len(calBuffer[c]) <= 2

CalInit == /\ calMain = "daemon"
           /\ calFiles = [fd \in 0..3 |-> IF fd = 3 THEN "closed" ELSE "terminal"]
           /\ sigpipe = "kills"
           /\ calSpare \in Spares
           /\ calThread = [c \in Callers |-> "none"]
           /\ calUp = [c \in Callers |-> <<>>]
           /\ calInbuffer = [c \in Callers |-> <<>>]
           /\ calPackage = [c \in Callers |-> NoRequest]
           /\ calDown = [c \in Callers |-> <<>>]
           /\ calBuffer = [c \in Callers |-> <<>>]
           /\ calUser = [c \in Callers |-> "connect"]
           /\ calAsked = [c \in Callers |-> NoRequest]
           /\ calShown = [c \in Callers |-> <<>>]

----------------------------------------------------------------------------
(* The server: MyDaemon, the constructor, Start *)

Dup2(files, old, new) == [files EXCEPT ![new] = files[old]]

\* Mutant of SigpipeAction: the signal keeps its default action.
SigpipeKills == "kills"

SigpipeAction == "ignored"

\* open() of /dev/null gives 3; the three dup2 have their arguments the wrong way
\* round, and 3 is closed in the end.
Redirected(files) ==
  [Dup2(Dup2(Dup2([files EXCEPT ![3] = "null"], 0, 3), 1, 3), 2, 3)
     EXCEPT ![3] = "closed"]

MyDaemon == /\ calMain = "daemon"
            /\ calMain' = "setup"
            /\ sigpipe' = SigpipeAction
            /\ calFiles' = Redirected(calFiles)
            /\ UNCHANGED <<calSpare, calThread, calUp, calInbuffer, calPackage,
                           calDown, clientVars>>

\* socket(), bind() and listen(); each exits if it fails.
Setup == /\ calMain = "setup"
         /\ calMain' \in {"accept", "exit"}
         /\ UNCHANGED <<calFiles, sigpipe, calSpare, calThread, calUp,
                        calInbuffer, calPackage, calDown, clientVars>>

\* Start: without a descriptor accept() fails and is called again, which leaves
\* the client in the backlog.  The result of pthread_create is not looked at,
\* so that its failure leaves the connection open, with a descriptor that
\* nobody will close and without a thread.
Accept(c) == /\ calMain = "accept"
             /\ calThread[c] = "backlog"
             /\ calSpare > 0
             /\ calSpare' = calSpare - 1
             /\ \E to \in {"recv", "lost"} : calThread' = [calThread EXCEPT ![c] = to]
             /\ UNCHANGED <<calMain, calFiles, sigpipe, calUp, calInbuffer,
                            calPackage, calDown, clientVars>>

----------------------------------------------------------------------------
(* calculator, in the thread of connection c *)

\* Recv and Decode: what is not a whole package stays in inbuffer.
Recv(c) ==
  /\ calMain = "accept" /\ calThread[c] = "recv"
  /\ \E got \in Received(calUp[c]) :
       LET buffer == calInbuffer[c] \o got IN
         /\ calUp' = [calUp EXCEPT ![c] = Left(@, got)]
         /\ IF Complete(buffer)
            THEN /\ calInbuffer' = [calInbuffer EXCEPT ![c] = DecodedRest(buffer)]
                 /\ calPackage' = [calPackage EXCEPT ![c] = DecodedText(buffer)]
                 /\ calThread' = [calThread EXCEPT ![c] = "send"]
            ELSE /\ calInbuffer' = [calInbuffer EXCEPT ![c] = buffer]
                 /\ UNCHANGED <<calPackage, calThread>>
  /\ UNCHANGED <<calMain, calFiles, sigpipe, calSpare, calDown, clientVars>>

\* recv() returned 0 or an error: the thread closes the connection and ends.
RecvEnd(c) == /\ calMain = "accept" /\ calThread[c] = "recv"
              /\ calUser[c] = "gone"
              /\ calThread' = [calThread EXCEPT ![c] = "closed"]
              /\ calSpare' = calSpare + 1
              /\ UNCHANGED <<calMain, calFiles, sigpipe, calUp, calInbuffer,
                             calPackage, calDown, clientVars>>

\* Compute, encode and Send.  A client that has gone makes send() raise
\* SIGPIPE; a quotient that does not exist ends the process.
Send(c) ==
  /\ calMain = "accept" /\ calThread[c] = "send"
  /\ \/ /\ ~Traps(calPackage[c])
        /\ calUser[c] # "gone"
        /\ calDown' = [calDown EXCEPT ![c] = @ \o Encode(ResponseText(calPackage[c]))]
        /\ UNCHANGED calMain
     \/ /\ ~Traps(calPackage[c])
        /\ calUser[c] = "gone"
        /\ calMain' = IF sigpipe = "kills" THEN "crash" ELSE calMain
        /\ UNCHANGED calDown
     \/ /\ Traps(calPackage[c])
        /\ calMain' = "crash"
        /\ UNCHANGED calDown
  /\ calThread' = [calThread EXCEPT ![c] = "recv"]
  /\ calPackage' = [calPackage EXCEPT ![c] = NoRequest]
  /\ UNCHANGED <<calFiles, sigpipe, calSpare, calUp, calInbuffer, clientVars>>

----------------------------------------------------------------------------
(* The client *)

Connect(c) == /\ calUser[c] = "connect"
              /\ IF calMain = "accept"
                 THEN /\ calUser' = [calUser EXCEPT ![c] = "ask"]
                      /\ calThread' = [calThread EXCEPT ![c] = "backlog"]
                 ELSE /\ calUser' = [calUser EXCEPT ![c] = "gone"]
                      /\ UNCHANGED calThread
              /\ UNCHANGED <<calMain, calFiles, sigpipe, calSpare, calUp,
                             calInbuffer, calPackage, calDown, calBuffer,
                             calAsked, calShown>>

\* The user types a request and the client sends it.
Ask(c) == /\ calUser[c] = "ask"
          /\ \E r \in Requests :
               /\ calAsked' = [calAsked EXCEPT ![c] = r]
               /\ calUp' = [calUp EXCEPT ![c] = @ \o Encode(RequestText(r))]
          /\ calShown' = [calShown EXCEPT ![c] = <<>>]
          /\ calUser' = [calUser EXCEPT ![c] = "recv"]
          /\ UNCHANGED <<serverVars, calDown, calBuffer>>

\* Recv, Decode and print: the client waits until a whole answer is there.
Show(c) ==
  /\ calUser[c] = "recv"
  /\ \E got \in Received(calDown[c]) :
       LET buffer == calBuffer[c] \o got IN
         /\ calDown' = [calDown EXCEPT ![c] = Left(@, got)]
         /\ IF Complete(buffer)
            THEN /\ calBuffer' = [calBuffer EXCEPT ![c] = DecodedRest(buffer)]
                 /\ calShown' = [calShown EXCEPT ![c] = <<DecodedText(buffer)>>]
                 /\ calUser' = [calUser EXCEPT ![c] = "ask"]
            ELSE /\ calBuffer' = [calBuffer EXCEPT ![c] = buffer]
                 /\ UNCHANGED <<calShown, calUser>>
  /\ UNCHANGED <<serverVars, calUp, calAsked>>

\* recv() ends because the server did; what is on its way may be lost.
HangUp(c) == /\ calUser[c] = "recv"
             /\ calMain = "crash"
             /\ calUser' = [calUser EXCEPT ![c] = "gone"]
             /\ UNCHANGED <<serverVars, calUp, calDown, calBuffer, calAsked,
                            calShown>>

\* The user ends the client, at any point.
Leave(c) == /\ calUser[c] \in {"ask", "recv"}
            /\ calUser' = [calUser EXCEPT ![c] = "gone"]
            /\ UNCHANGED <<serverVars, calUp, calDown, calBuffer, calAsked,
                           calShown>>

----------------------------------------------------------------------------

CalMainStep == MyDaemon \/ Setup
CalThreadStep(c) == Accept(c) \/ Recv(c) \/ RecvEnd(c) \/ Send(c)
CalClientStep(c) == Show(c) \/ HangUp(c)

CalNext == \/ CalMainStep
           \/ \E c \in Callers : \/ CalThreadStep(c)
                                 \/ CalClientStep(c)
                                 \/ Connect(c) \/ Ask(c) \/ Leave(c)

\* Threads and clients run when they can; no user has to type.
CalSpec == /\ CalInit /\ [][CalNext]_calVars
           /\ WF_calVars(CalMainStep)
           /\ \A c \in Callers : /\ WF_calVars(CalThreadStep(c))
                                 /\ WF_calVars(CalClientStep(c))

----------------------------------------------------------------------------

\* The quotient q rounded towards zero, and what it leaves of x.
TruncatedDivision(x, y, q, rest) ==
  x = q * y + rest /\ Abs(rest) < Abs(y) /\ (rest # 0 => (rest < 0 <=> x < 0))

\* What a client prints is the answer to its own latest request, whatever the
\* pieces the two streams came in: code 0 with the exact sum, difference or
\* product when an int can hold it, code 0 with the quotient rounded towards
\* zero or with its remainder, and for a zero divisor or an unknown operator
\* the code the client expects.
CalAnswersRight ==
  \A c \in Callers : calShown[c] # <<>> =>
    LET a == calShown[c][1]
        r == calAsked[c]
        exact == CASE r.op = "+" -> r.x + r.y
                   [] r.op = "-" -> r.x - r.y
                   [] r.op = "*" -> r.x * r.y
                   [] OTHER -> MinInt - 1
    IN /\ <<a.x, a.op, a.y>> = <<r.x, r.op, r.y>>
       /\ exact \in Ints => <<a.code, a.result>> = <<0, exact>>
       /\ r.op = "/" /\ r.y # 0 =>
            a.code = 0 /\ \E rest \in Ints : TruncatedDivision(r.x, r.y, a.result, rest)
       /\ r.op = "%" /\ r.y # 0 =>
            a.code = 0 /\ \E q \in Ints : TruncatedDivision(r.x, r.y, q, a.result)
       /\ r.op \in {"/", "%"} /\ r.y = 0 => a.code = (IF r.op = "/" THEN 1 ELSE 2)
       /\ r.op \notin {"+", "-", "*", "/", "%"} => a.code = 3

\* The server ends only by the one quotient that an int cannot hold; clients
\* that leave while their answer is computed do it no harm.
CalEndsOnlyByTrap == calMain = "crash" => \E c \in Callers :
                        calAsked[c] # NoRequest /\ Traps(calAsked[c])

\* A client that waits gets its answer, or learns that the server has gone,
\* unless no thread could be created for it or no descriptor is left to accept
\* it with, be they held by clients that stay or by connections without a
\* thread.
CalAnswered == \A c \in Callers :
                 []<>(\/ calUser[c] # "recv" \/ calThread[c] = "lost"
                      \/ calThread[c] = "backlog" /\ calSpare = 0)

\* "4. Redirection of standard input, output and error: a daemon must not
\* print to the terminal" (Daemon.hpp:21).  Once the server accepts, none of
\* the three is the terminal.
StdioRedirected == calMain = "accept" => \A fd \in 0..2 : calFiles[fd] # "terminal"
=============================================================================
