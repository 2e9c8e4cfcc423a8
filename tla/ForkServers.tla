---------------------------- MODULE ForkServers ----------------------------
(* Three servers that give each connection a process, or no service:        *)
(*   redirect  11-12/tcpserver.cc forks twice; the parent waits for the     *)
(*             child, which only forks, and the grandchild serves;          *)
(*   http      10-25/HttpServer forks once and ignores SIGCHLD;             *)
(*   sleep     10-28/main.cc sleeps for a while and closes.                 *)
(*                                                                          *)
(* A child inherits every connection its parent holds, and a client sees    *)
(* the end of its stream when nobody holds its connection any more: who     *)
(* holds what is the state that matters.                                    *)
EXTENDS Naturals, FiniteSets

CONSTANT Visitors  \* the clients, one connection each

VARIABLES program,   \* which of the three; it never changes
          forkMain,  \* where the server's first process is
          forkCur,   \* the connection it accepted last, in a set
          holders,   \* the processes that hold each connection
          kin,       \* where the child and the grandchild for each one are
          visitor,   \* where each client is
          reply      \* the status line each client was sent

forkVars == <<program, forkMain, forkCur, holders, kin, visitor, reply>>

\* The processes: the first one, and two that may exist for each connection.
Main == <<"main", 0>>
Backlog == <<"kernel", 0>>  \* not yet accepted
Kin == {"child", "grandchild"} \X Visitors
Alive == {"start", "recv"}

\* What a first recv() finds of a request: one for a page, one for a page that
\* is not there or is empty, or less than the first two words of a request.
Asking == {"page", "missing", "fragment"}

\* The type invariant.
ForkTypeOK ==
  /\ forkMain \in {"setup", "accept", "fork", "close", "wait", "sleep", "exit"}
  /\ forkCur \in SUBSET Visitors /\ Cardinality(forkCur) <= 1
  /\ holders \in [Visitors -> SUBSET ({Main, Backlog} \cup Kin)]
  /\ kin \in [Kin -> Alive \cup {"none", "zombie", "gone"}]
  /\ visitor \in [Visitors -> {"start", "idle", "ended", "dropped", "left"}
                               \cup Asking]
  /\ reply \in [Visitors -> {"none", "307", "200", "404"}]

ForkInit == /\ forkMain = "setup"
            /\ forkCur = {}
            /\ holders = [v \in Visitors |-> {}]
            /\ kin = [p \in Kin |-> "none"]
            /\ visitor = [v \in Visitors |-> "start"]
            /\ reply = [v \in Visitors |-> "none"]

----------------------------------------------------------------------------

\* fork(): process q inherits what process p holds.
Inherit(p, q) == [v \in Visitors |-> IF p \in holders[v]
                                     THEN holders[v] \cup {q} ELSE holders[v]]

\* Process p ends, which closes all it holds.
Release(p) == [v \in Visitors |-> holders[v] \ {p}]

\* The first process closes the connection in hand.
MainReleases == [v \in Visitors |-> IF v \in forkCur THEN holders[v] \ {Main}
                                                     ELSE holders[v]]

\* What becomes of a child that ends: http ignores SIGCHLD, so the kernel
\* reaps it; a grandchild's parent has ended and init reaps it.
Remains(p) == IF program = "redirect" /\ p[1] = "child" THEN "zombie" ELSE "gone"

----------------------------------------------------------------------------
(* The first process *)

\* socket(), bind() and listen(), each of which ends the process if it fails.
ForkListen == /\ forkMain = "setup"
              /\ forkMain' \in {"accept", "exit"}
              /\ UNCHANGED <<program, forkCur, holders, kin, visitor, reply>>

RedirectSetup == program = "redirect" /\ ForkListen
HttpSetup == program = "http" /\ ForkListen
SleepSetup == program = "sleep" /\ ForkListen

\* accept() for redirect and http, which try again when it fails.
AcceptTo(v, next) ==
  /\ forkMain = "accept"
  /\ holders[v] = {Backlog}
  /\ forkCur' = {v}
  /\ holders' = [holders EXCEPT ![v] = {Main}]
  /\ forkMain' = next
  /\ UNCHANGED <<program, kin, visitor, reply>>

RedirectAccept(v) == program = "redirect" /\ AcceptTo(v, "fork")
HttpAccept(v) == program = "http" /\ AcceptTo(v, "fork")
SleepAccept(v) == program = "sleep" /\ AcceptTo(v, "sleep")

\* accept() fails, and the program sleeps and closes the descriptor -1.
SleepAcceptFails ==
  /\ program = "sleep" /\ forkMain = "accept"
  /\ forkCur' = {}
  /\ forkMain' = "sleep"
  /\ UNCHANGED <<program, holders, kin, visitor, reply>>

\* fork() == 0 starts the child; if it fails, the parent goes on alike.
ForkChild ==
  /\ forkMain = "fork"
  /\ forkMain' = "close"
  /\ \/ \E v \in forkCur :
          /\ kin' = [kin EXCEPT ![<<"child", v>>] =
                       IF program = "redirect" THEN "start" ELSE "recv"]
          /\ holders' = Inherit(Main, <<"child", v>>)
     \/ UNCHANGED <<kin, holders>>
  /\ UNCHANGED <<program, forkCur, visitor, reply>>

\* Mutant of CloseSockfd: the parent keeps the connection open.
CloseSockfdNot ==
  /\ forkMain \in {"close", "sleep"}
  /\ forkCur' = {}
  /\ forkMain' = IF program = "redirect" THEN "wait" ELSE "accept"
  /\ UNCHANGED <<program, holders, kin, visitor, reply>>

\* close(sockfd), after sleep(10) in 10-28.
CloseSockfd ==
  /\ forkMain \in {"close", "sleep"}
  /\ holders' = MainReleases
  /\ forkCur' = {}
  /\ forkMain' = IF program = "redirect" THEN "wait" ELSE "accept"
  /\ UNCHANGED <<program, kin, visitor, reply>>

\* waitpid(-1): any one child, or an error if there is none.
WaitChild ==
  /\ forkMain = "wait"
  /\ \/ \E p \in Kin : kin[p] = "zombie" /\ kin' = [kin EXCEPT ![p] = "gone"]
     \/ /\ \A v \in Visitors : kin[<<"child", v>>] \in {"none", "gone"}
        /\ UNCHANGED kin
  /\ forkMain' = "accept"
  /\ UNCHANGED <<program, forkCur, holders, visitor, reply>>

----------------------------------------------------------------------------
(* The children *)

\* The child of redirect forks again and exits; if fork() fails, which is not
\* > 0 either, it serves the client itself.
ForkAgain(v) ==
  LET dad == <<"child", v>>
      son == <<"grandchild", v>>
  IN /\ kin[dad] = "start"
     /\ \/ /\ kin' = [kin EXCEPT ![dad] = Remains(dad), ![son] = "recv"]
           /\ holders' = [u \in Visitors |-> Inherit(dad, son)[u] \ {dad}]
        \/ /\ kin' = [kin EXCEPT ![dad] = "recv"]
           /\ UNCHANGED holders
     /\ UNCHANGED <<program, forkMain, forkCur, visitor, reply>>

\* The redirection whatever was received; the page, if it has any text.
Status(v) == IF program = "redirect" THEN {"307"}
             ELSE CASE visitor[v] = "page" -> {"200"}
                    [] visitor[v] = "missing" -> {"404"}
                    [] OTHER -> {"404", "none"}

\* recv(), send(), close() and exit().  Of a fragment http takes the second of
\* fewer words, and of a client that left without a request it parses a buffer
\* it never filled: both may end it without a reply.  send() to a client that
\* is gone may end a process by SIGPIPE, as exit() would.
ServeOne(p) ==
  LET v == p[2] IN
    /\ kin[p] = "recv"
    /\ visitor[v] \in Asking \cup {"left"}
    /\ \E s \in Status(v) : reply' = [reply EXCEPT ![v] = s]
    /\ kin' = [kin EXCEPT ![p] = Remains(p)]
    /\ holders' = Release(p)
    /\ UNCHANGED <<program, forkMain, forkCur, visitor>>

----------------------------------------------------------------------------
(* The client *)

VisitConnect(v) == /\ visitor[v] = "start"
                   /\ forkMain \notin {"setup", "exit"}
                   /\ visitor' = [visitor EXCEPT ![v] = "idle"]
                   /\ holders' = [holders EXCEPT ![v] = {Backlog}]
                   /\ UNCHANGED <<program, forkMain, forkCur, kin, reply>>

\* A request, or the part of it that the first recv() will find; no server
\* calls recv() again for the rest.
VisitSend(v) == /\ visitor[v] = "idle"
                /\ \E r \in Asking : visitor' = [visitor EXCEPT ![v] = r]
                /\ UNCHANGED <<program, forkMain, forkCur, holders, kin, reply>>

VisitLeave(v) == /\ visitor[v] \in Asking \cup {"idle"}
                 /\ visitor' = [visitor EXCEPT ![v] = "left"]
                 /\ UNCHANGED <<program, forkMain, forkCur, holders, kin, reply>>

\* The end of the stream.
VisitEnd(v) == /\ visitor[v] \in Asking \cup {"idle"}
               /\ holders[v] = {}
               /\ visitor' = [visitor EXCEPT ![v] =
                                IF @ = "fragment" THEN "dropped" ELSE "ended"]
               /\ UNCHANGED <<program, forkMain, forkCur, holders, kin, reply>>

----------------------------------------------------------------------------

ForkAccept(v) == RedirectAccept(v) \/ HttpAccept(v) \/ SleepAccept(v)
ForkMainStep == \/ RedirectSetup \/ HttpSetup \/ SleepSetup
                \/ ForkChild \/ CloseSockfd \/ WaitChild
                \/ \E v \in Visitors : ForkAccept(v)
ForkKinStep(p) == ServeOne(p) \/ (p[1] = "child" /\ ForkAgain(p[2]))

ForkNext == \/ ForkMainStep \/ SleepAcceptFails
            \/ \E p \in Kin : ForkKinStep(p)
            \/ \E v \in Visitors : \/ VisitConnect(v) \/ VisitSend(v)
                                   \/ VisitLeave(v) \/ VisitEnd(v)

\* All processes run when they can, no client has to send anything, and
\* accept() does not always fail.
ForkSpec == /\ ForkInit /\ program \in {"redirect", "http", "sleep"}
            /\ [][ForkNext]_forkVars
            /\ WF_forkVars(ForkMainStep)
            /\ SF_forkVars(\E v \in Visitors : SleepAccept(v))
            /\ \A p \in Kin : WF_forkVars(ForkKinStep(p))
            /\ \A v \in Visitors : WF_forkVars(VisitEnd(v))

----------------------------------------------------------------------------

\* When the server accepts, it holds no connection, every connection has at
\* most one process that keeps it open, and redirect has reaped every child,
\* so that nobody's stream stays open for want of a close() elsewhere.
ForkAlone ==
  forkMain = "accept" =>
    /\ \A v \in Visitors : Main \notin holders[v] /\ Cardinality(holders[v]) <= 1
    /\ program = "redirect" =>
         \A v \in Visitors : kin[<<"child", v>>] \in {"none", "gone"}

\* The stream of whoever sent a request, whole or not, ends, unless the parent
\* waits for ever for a child that could not fork and serves a client that
\* says nothing.  Silent clients delay nobody else.
ForkAnswered ==
  \A v \in Visitors :
    \/ []<>(visitor[v] \notin Asking)
    \/ <>[](\E u \in Visitors : visitor[u] = "idle" /\ kin[<<"child", u>>] = "recv"
                               /\ forkMain = "wait")

\* Before its stream ended, a client that sent a request was replied to, if a
\* process could be made for it and the server is not the one that only sleeps;
\* of a fragment only redirect takes care.
ForkReplied ==
  \A v \in Visitors :
    visitor[v] = "ended" \/ (visitor[v] = "dropped" /\ program = "redirect") =>
      reply[v] # "none" \/ program = "sleep" \/ kin[<<"child", v>>] = "none"
=============================================================================
