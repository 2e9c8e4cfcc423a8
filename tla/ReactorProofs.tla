--------------------------- MODULE ReactorProofs ---------------------------
(***************************************************************************)
(* Proofs about Reactor for any set of clients, any number of requests and *)
(* descriptors and any size of the send buffer.                            *)
(***************************************************************************)
EXTENDS Reactor, SequenceTheorems, WellFoundedInduction, TLAPS

(* The listening socket is a descriptor of its own.                        *)
LEMMA FdFacts == Listen \notin Fds /\ AllFds = Fds \cup {Listen}
BY ReactorAssumption DEF Listen, Fds, AllFds

(* Cutting a sequence in two.                                              *)
LEMMA CutSeq ==
  ASSUME NEW S, NEW s \in Seq(S), NEW n \in 0..Len(s)
  PROVE  /\ SubSeq(s, 1, n) \in Seq(S) /\ Len(SubSeq(s, 1, n)) = n
         /\ SubSeq(s, n + 1, Len(s)) \in Seq(S)
         /\ Len(SubSeq(s, n + 1, Len(s))) = Len(s) - n
<1>1. Len(s) \in Nat /\ \A i \in 1..Len(s) : s[i] \in S
  BY LenProperties, ElementOfSeq
<1>2. n \in Int /\ n + 1 \in Int /\ 1 \in Int /\ Len(s) \in Int /\ n <= Len(s)
      /\ 0 <= n
  BY <1>1
<1>3. (\A i \in 1..n : s[i] \in S) /\ \A i \in (n + 1)..Len(s) : s[i] \in S
  BY <1>1, <1>2
<1>4. SubSeq(s, 1, n) \in Seq(S) /\ Len(SubSeq(s, 1, n)) = n
  BY <1>2, <1>3, SubSeqProperties
<1>5. /\ SubSeq(s, n + 1, Len(s)) \in Seq(S)
      /\ Len(SubSeq(s, n + 1, Len(s))) = Len(s) - n
  BY <1>2, <1>3, SubSeqProperties
<1> QED
  BY <1>4, <1>5

LEMMA InitInv == Init => ReactorInv
<1> SUFFICES ASSUME Init PROVE ReactorInv
  OBVIOUS
<1> USE TcpNetAssumption, ReactorAssumption, FdFacts DEF Init, NetInit
<1>1. TypeOK
  <2>1. <<>> \in Seq(Int) /\ <<>> \in Seq(Clients) /\ Len(<<>>) = 0
    BY EmptySeq
  <2>2. NetTypeOK
    BY <2>1 DEF NetTypeOK
  <2> QED
    BY <2>1, <2>2 DEF TypeOK, PCs, Event
<1>2. TablesAgree
  BY DEF TablesAgree, Watched, Conns
<1>3. OutputArmed /\ SenderHasOutput
  BY DEF OutputArmed, SenderHasOutput
<1>4. QueuedOnce /\ DispatchOnce /\ EventsArmed
  BY DEF QueuedOnce, DispatchOnce, EventsArmed, conn
<1> QED
  BY <1>1, <1>2, <1>3, <1>4 DEF ReactorInv
-----------------------------------------------------------------------------
(* Every step preserves the types.                                         *)
LEMMA NextTypeOK == ReactorInv /\ [Next]_vars => TypeOK'
<1> SUFFICES ASSUME ReactorInv, [Next]_vars PROVE TypeOK'
  OBVIOUS
<1> USE TcpNetAssumption, ReactorAssumption, FdFacts
<1> USE DEF TypeOK, NetTypeOK, PCs, Event
<1>0. TypeOK /\ TablesAgree /\ DispatchOnce
  BY DEF ReactorInv
<1>0a. pc \in {"recv", "handle", "send"} => conn \in Fds /\ peer \in Clients
  BY <1>0 DEF DispatchOnce, TablesAgree, Watched, Conns, peer, conn
<1>1. ASSUME NEW k \in Clients, Connect(k) PROVE TypeOK'
  BY <1>0, <1>1 DEF Connect, NetConnect
<1>2. ASSUME NEW k \in Clients, ClientInput(k) PROVE TypeOK'
  <2>1. NextSymbols(k) \subseteq Int
    BY <1>0 DEF NextSymbols, SEP
  <2>2. CASE NetSend(k)
    BY <1>0, <1>2, <2>1, <2>2 DEF ClientInput, NetSend, Edge
  <2>3. CASE NetFin(k) \/ NetReset(k)
    BY <1>0, <1>2, <2>3 DEF ClientInput, NetFin, NetReset, Edge
  <2> QED
    BY <1>2, <2>2, <2>3 DEF ClientInput
<1>3. ASSUME NEW k \in Clients, ClientRead(k) PROVE TypeOK'
  <2>1. NetTypeOK'
    BY <1>0, <1>3 DEF ClientRead, NetRead
  <2>2. ready' \subseteq AllFds
    BY <1>0, <1>3 DEF ClientRead, Edge
  <2> QED
    BY <1>0, <1>3, <2>1, <2>2 DEF ClientRead
<1>4. CASE WaitEpoll
  <2>1. revs' \subseteq Event
    <3> SUFFICES ASSUME NEW e \in revs' PROVE e \in Event
      OBVIOUS
    <3>1. PICK f \in ready :
            e = [fd  |-> f,
                 in  |-> HasErr(f) \/ ("IN" \in interest[f] /\ HasIn(f)),
                 out |-> HasErr(f) \/ ("OUT" \in interest[f] /\ HasOut(f))]
      BY <1>4 DEF WaitEpoll
    <3> QED
      BY <1>0, <3>1
  <2> QED
    BY <1>0, <1>4, <2>1 DEF WaitEpoll, netVars
<1>5. CASE DispatchIn
  BY <1>0, <1>5 DEF DispatchIn, netVars
<1>6. CASE DispatchOut
  BY <1>0, <1>6 DEF DispatchOut, netVars
<1>7. CASE EndLoop
  BY <1>0, <1>7 DEF EndLoop, netVars
<1>8. CASE Accept
  <2>1. Head(backlog) \in Clients /\ Tail(backlog) \in Seq(Clients)
    BY <1>0, <1>8, HeadTailProperties DEF Accept
  <2>2. PICK f \in FreeFds :
          /\ fdtab' = [fdtab EXCEPT ![f] = Head(backlog)]
          /\ cl' = [cl EXCEPT ![Head(backlog)] = "open"]
          /\ AddConnection(f, Head(backlog))
    BY <1>8 DEF Accept
  <2>3. f \in Fds
    BY DEF FreeFds
  <2>4. /\ inbuffer' \in [Fds -> Seq(Int)]
        /\ outbuffer' \in [Fds -> Seq(Int)]
    BY <1>0, <2>2, <2>3, EmptySeq DEF AddConnection, AddSockToEpoll
  <2>5. /\ interest' \in [AllFds -> SUBSET {"IN", "OUT"}]
        /\ ready' \subseteq AllFds
        /\ connections' \subseteq AllFds /\ leaked' \subseteq AllFds
    <3>1. connections' = connections \cup {f} /\ f \in AllFds
      BY <2>2, <2>3 DEF AddConnection
    <3>2. /\ interest' = interest \/ interest' = [interest EXCEPT ![f] = {"IN"}]
          /\ ready' = ready \/ ready' = ready \cup {f}
          /\ leaked' = leaked \/ leaked' = leaked \cup {f}
      BY <2>2 DEF AddConnection, AddSockToEpoll
    <3>3. interest' \in [AllFds -> SUBSET {"IN", "OUT"}]
      BY <1>0, <3>1, <3>2
    <3>4. /\ ready \subseteq AllFds /\ leaked \subseteq AllFds
          /\ connections \subseteq AllFds
      BY <1>0
    <3> QED
      BY <3>1, <3>2, <3>3, <3>4
  <2> QED
    BY <1>0, <1>8, <2>1, <2>2, <2>3, <2>4, <2>5 DEF Accept
<1>9. CASE AcceptEnds
  BY <1>0, <1>9 DEF AcceptEnds, netVars
<1>10. CASE RecvData
  BY <1>0, <1>0a, <1>10 DEF RecvData
<1>11. CASE RecvCloses
  BY <1>0, <1>0a, <1>11 DEF RecvCloses, Excepter
<1>12. CASE RecvAgain
  BY <1>0, <1>12 DEF RecvAgain, netVars
<1>13. CASE HandleMessage
  <2>1. PICK i \in DOMAIN inbuffer[conn] :
          /\ NetCal(conn, SubSeq(inbuffer[conn], 1, i - 1))
          /\ inbuffer' = [inbuffer EXCEPT ![conn] = SubSeq(@, i + 1, Len(@))]
    BY <1>13 DEF HandleMessage
  <2>2. conn \in Fds /\ inbuffer[conn] \in Seq(Int)
    BY <1>0, <1>0a, <1>13 DEF HandleMessage
  <2>3. /\ SubSeq(inbuffer[conn], i + 1, Len(inbuffer[conn])) \in Seq(Int)
        /\ SubSeq(inbuffer[conn], 1, i - 1) \in Seq(Int)
    <3>1. i \in 0..Len(inbuffer[conn]) /\ i - 1 \in 0..Len(inbuffer[conn])
      BY <2>2, LenProperties
    <3> QED
      BY <2>2, <3>1, CutSeq
  <2>4. /\ outbuffer' \in [Fds -> Seq(Int)]
        /\ interest' \in [AllFds -> SUBSET {"IN", "OUT"}]
        /\ ready' \subseteq AllFds
    <3> DEFINE request == SubSeq(inbuffer[conn], 1, i - 1)
    <3>1. CASE Deserialized(request)
      <4>1. request[1] \in Int
        BY <2>3, <3>1, LenProperties, EmptySeq DEF Deserialized
      <4>2. outbuffer' = [outbuffer EXCEPT ![conn] = Append(@, request[1])]
            /\ EnableReadWrite(conn, TRUE)
        BY <2>1, <3>1 DEF NetCal
      <4> HIDE DEF request
      <4>3. Append(outbuffer[conn], request[1]) \in Seq(Int)
        <5>1. outbuffer[conn] \in Seq(Int)
          BY <1>0, <2>2
        <5> QED
          BY <4>1, <5>1, AppendProperties
      <4>4. outbuffer' \in [Fds -> Seq(Int)]
        BY <1>0, <2>2, <4>2, <4>3
      <4> QED
        BY <1>0, <2>2, <4>2, <4>4 DEF EnableReadWrite
    <3>2. CASE ~Deserialized(request)
      BY <1>0, <2>1, <3>2 DEF NetCal
    <3> QED
      BY <3>1, <3>2
  <2>5. inbuffer' \in [Fds -> Seq(Int)]
    BY <1>0, <2>1, <2>2, <2>3
  <2> QED
    BY <1>0, <1>13, <2>4, <2>5 DEF HandleMessage, netVars
<1>14. CASE HandleDone \/ NetCalTraps
  BY <1>0, <1>14 DEF HandleDone, NetCalTraps, netVars
<1>15. CASE SendData
  <2>1. conn \in Fds /\ peer \in Clients
    BY <1>0a, <1>15 DEF SendData
  <2>2. /\ SendCount \in Nat
        /\ SendCount <= SndBuf - Len(tx[peer])
        /\ SendCount <= Len(outbuffer[conn])
    BY <1>0, <2>1 DEF SendCount
  <2>3. /\ Unsent(SendCount) \in Seq(Int)
        /\ SubSeq(outbuffer[conn], 1, SendCount) \in Seq(Int)
        /\ Len(SubSeq(outbuffer[conn], 1, SendCount)) = SendCount
    <3>1. outbuffer[conn] \in Seq(Int) /\ Len(outbuffer[conn]) \in Nat
      BY <1>0, <2>1, LenProperties
    <3>2. SendCount \in 0..Len(outbuffer[conn])
      BY <2>2, <3>1
    <3> QED
      BY <3>1, <3>2, CutSeq DEF Unsent
  <2>4. /\ outbuffer' \in [Fds -> Seq(Int)]
        /\ tx' \in [Clients -> Seq(Int)]
    BY <1>0, <1>15, <2>1, <2>3 DEF SendData
  <2>5. \A k \in Clients : Len(tx'[k]) <= SndBuf
    BY <1>0, <1>15, <2>1, <2>2, <2>3 DEF SendData
  <2> QED
    BY <1>0, <1>15, <2>4, <2>5 DEF SendData
<1>16. CASE SendAgain
  BY <1>0, <1>16 DEF SendAgain, netVars
<1>17. CASE SendFails
  BY <1>0, <1>0a, <1>17 DEF SendFails, Excepter
<1>18. CASE Rearm
  BY <1>0, <1>18 DEF Rearm, EnableReadWrite, netVars
<1>19. CASE RearmDeleted
  BY <1>0, <1>19 DEF RearmDeleted, netVars
<1>20. CASE UNCHANGED vars
  BY <1>0, <1>20 DEF vars, netVars, serverVars
<1> QED
  BY <1>1, <1>2, <1>3, <1>4, <1>5, <1>6, <1>7, <1>8, <1>9, <1>10, <1>11,
     <1>12, <1>13, <1>14, <1>15, <1>16, <1>17, <1>18, <1>19, <1>20
  DEF Next, Server, Dispatch, Accepter, Recver, Sender, WaitTimeout
-----------------------------------------------------------------------------
Tables == TablesAgree /\ QueuedOnce /\ DispatchOnce

(* Closing the connection being dispatched removes it from every table.    *)
LEMMA ExcepterTables ==
  ASSUME ReactorInv, Excepter, conn \in Conns, pc \notin {"wait", "dispatch"},
         pc' \in {"out", "rearm"}, UNCHANGED <<backlog, revs, cur, leaked>>
  PROVE  Tables'
<1> USE FdFacts
<1>0. TypeOK /\ TablesAgree /\ QueuedOnce /\ DispatchOnce
  BY DEF ReactorInv
<1>1. conn \in Fds /\ peer \in Clients /\ cl[peer] = "open"
  BY <1>0, ReactorAssumption DEF TypeOK, TablesAgree, Watched, Conns, peer
<1>2. TablesAgree'
  <2>0. /\ Watched' = Watched \ {conn} /\ leaked' = leaked /\ conn \notin leaked
        /\ connections' = connections \ {conn} /\ ready' = ready \ {conn}
    BY <1>0, <1>1 DEF Excepter, TypeOK, DispatchOnce, Watched
  <2>1. /\ connections' = Watched' \cup leaked' /\ Watched' \cap leaked' = {}
        /\ Listen \in connections'
        /\ ready' \subseteq Watched'
    BY <1>0, <1>1, <2>0 DEF TablesAgree
  <2>1a. Conns' = {f \in Fds : fdtab'[f] # None}
    BY <1>0, <1>1, <2>0 DEF Excepter, TypeOK, TablesAgree, Conns
  <2>2. \A k \in Clients : cl'[k] = "open" <=> \E f \in Fds : fdtab'[f] = k
    <3> SUFFICES ASSUME NEW k \in Clients
        PROVE cl'[k] = "open" <=> \E f \in Fds : fdtab'[f] = k
      OBVIOUS
    <3>1. /\ \A f \in Fds : fdtab'[f] = IF f = conn THEN None ELSE fdtab[f]
          /\ cl'[k] = IF k = peer THEN "closed" ELSE cl[k]
          /\ k # None
      BY <1>0, <1>1, ReactorAssumption DEF Excepter, TypeOK, NetTypeOK
    <3>2. cl[k] = "open" <=> \E f \in Fds : fdtab[f] = k
      BY <1>0 DEF TablesAgree, Watched
    <3>3. \A f \in Fds : fdtab[f] = peer => f = conn
      BY <1>0, <1>1, ReactorAssumption DEF TablesAgree, Watched, peer
    <3> QED
      BY <1>1, <3>1, <3>2, <3>3 DEF peer
  <2>3. \A f, g \in Conns' : fdtab'[f] = fdtab'[g] => f = g
    BY <1>0, <1>1 DEF Excepter, TypeOK, TablesAgree, Watched, Conns
  <2>4. \A e \in revs' : e.fd \in Watched'
    BY <1>0 DEF Excepter, TypeOK, Event, TablesAgree, Watched, DispatchOnce, conn
  <2> QED
    BY <2>1, <2>1a, <2>2, <2>3, <2>4 DEF TablesAgree
<1>3. QueuedOnce'
  BY <1>0, <1>1 DEF Excepter, QueuedOnce, TypeOK, NetTypeOK
<1>4. DispatchOnce'
  BY <1>0, <1>1 DEF DispatchOnce, conn
<1> QED
  BY <1>2, <1>3, <1>4 DEF Tables

(* Changing the event mask of a live connection leaves the tables in step. *)
LEMMA RearmTables ==
  ASSUME ReactorInv, conn \in Conns,
         UNCHANGED <<cl, fdtab, revs, connections, leaked>>, conn \notin leaked,
         \/ UNCHANGED <<interest, ready>>
         \/ \E writeable \in BOOLEAN : EnableReadWrite(conn, writeable)
  PROVE  TablesAgree'
<1> USE FdFacts
<1>0. TypeOK /\ TablesAgree
  BY DEF ReactorInv
<1>1. conn \in AllFds /\ conn \in connections
  BY <1>0 DEF TypeOK, Conns
<1>2. /\ \A f \in AllFds : f # conn => interest'[f] = interest[f]
      /\ interest'[conn] = interest[conn] \/ interest'[conn] # {}
      /\ ready' \subseteq ready \cup {conn}
  <2>1. CASE UNCHANGED <<interest, ready>>
    BY <2>1
  <2>2. ASSUME NEW writeable \in BOOLEAN, EnableReadWrite(conn, writeable)
        PROVE  /\ \A f \in AllFds : f # conn => interest'[f] = interest[f]
               /\ interest'[conn] = interest[conn] \/ interest'[conn] # {}
               /\ ready' \subseteq ready \cup {conn}
    <3>1. interest \in [AllFds -> SUBSET {"IN", "OUT"}]
      BY <1>0 DEF TypeOK
    <3>2. /\ interest' = [interest EXCEPT ![conn] =
                            {"IN"} \cup IF writeable THEN {"OUT"} ELSE {}]
          /\ ready' = ready \/ ready' = ready \cup {conn}
      BY <2>2 DEF EnableReadWrite
    <3> QED
      BY <1>1, <3>1, <3>2
  <2> QED
    BY <2>1, <2>2
<1>3. Watched' = Watched
  BY <1>0, <1>1, <1>2 DEF TablesAgree, Watched
<1> QED
  BY <1>0, <1>1, <1>2, <1>3 DEF TablesAgree, Watched, Conns

LEMMA NextTables == ReactorInv /\ [Next]_vars => Tables'
<1> SUFFICES ASSUME ReactorInv, [Next]_vars PROVE Tables'
  OBVIOUS
<1> USE FdFacts DEF Tables
<1>0. TypeOK /\ TablesAgree /\ QueuedOnce /\ DispatchOnce
  BY DEF ReactorInv
<1>1. ASSUME NEW k \in Clients, Connect(k) PROVE Tables'
  <2>0. /\ UNCHANGED <<fdtab, interest, pc, revs, cur, connections, leaked>>
        /\ ready' = ready \cup {f \in {Listen} : "IN" \in interest[f]}
        /\ backlog' = Append(backlog, k) /\ cl[k] = "new"
        /\ \A j \in Clients : cl'[j] = IF j = k THEN "queued" ELSE cl[j]
    BY <1>0, <1>1 DEF Connect, NetConnect, TypeOK, NetTypeOK
  <2>1. TablesAgree'
    BY <1>0, <2>0 DEF TablesAgree, Watched, Conns
  <2>1a. DispatchOnce'
    BY <1>0, <2>0 DEF DispatchOnce, Conns, conn
  <2>2. /\ Len(backlog) \in Nat /\ DOMAIN backlog = 1..Len(backlog)
        /\ DOMAIN backlog' = 1..(Len(backlog) + 1)
        /\ \A i \in DOMAIN backlog : backlog'[i] = backlog[i] /\ backlog[i] \in Clients
        /\ backlog'[Len(backlog) + 1] = k
    <3>1. backlog \in Seq(Clients)
      BY <1>0 DEF TypeOK, NetTypeOK
    <3> QED
      BY <2>0, <3>1, LenProperties, AppendProperties, ElementOfSeq
  <2>3. QueuedOnce'
    <3>1. \A i \in DOMAIN backlog : backlog[i] # k
      BY <1>0, <2>0 DEF QueuedOnce
    <3>2. \A i \in DOMAIN backlog' :
            i \in DOMAIN backlog \/ i = Len(backlog) + 1
      BY <2>2
    <3>3. \A i \in DOMAIN backlog' : cl'[backlog'[i]] = "queued"
      BY <1>0, <2>0, <2>2, <3>1, <3>2 DEF QueuedOnce
    <3>4. \A i, j \in DOMAIN backlog' : backlog'[i] = backlog'[j] => i = j
      BY <1>0, <2>2, <3>1, <3>2 DEF QueuedOnce
    <3> QED
      BY <3>3, <3>4 DEF QueuedOnce
  <2> QED
    BY <2>1, <2>1a, <2>3
<1>2. ASSUME NEW k \in Clients, ClientInput(k) \/ ClientRead(k) PROVE Tables'
  <2>1. UNCHANGED <<cl, backlog, fdtab, interest, pc, revs, cur, connections, leaked>>
    BY <1>2 DEF ClientInput, ClientRead, NetSend, NetFin, NetReset, NetRead
  <2>2. ready' \subseteq Watched
    BY <1>0, <1>2 DEF ClientInput, ClientRead, Edge, TablesAgree, Watched, TypeOK
  <2> QED
    BY <1>0, <2>1, <2>2 DEF TablesAgree, Watched, QueuedOnce, DispatchOnce, Conns, conn
<1>3. CASE WaitEpoll
  <2>1. \A e \in revs' : e.fd \in ready
    BY <1>3 DEF WaitEpoll
  <2>2. \A d, e \in revs' : d.fd = e.fd => d = e
    BY <1>3 DEF WaitEpoll
  <2> QED
    BY <1>0, <1>3, <2>1, <2>2
    DEF WaitEpoll, TablesAgree, Watched, QueuedOnce, DispatchOnce, Conns, conn, netVars
<1>4. CASE DispatchIn
  <2>1. PICK e \in revs :
          /\ cur' = e /\ revs' = revs \ {e}
          /\ pc' = IF ~e.in \/ e.fd \notin connections THEN "out"
                   ELSE IF e.fd = Listen THEN "accept" ELSE "recv"
    BY <1>4 DEF DispatchIn
  <2>2. UNCHANGED <<netVars, fdtab, interest, ready, connections, leaked>>
    BY <1>4 DEF DispatchIn
  <2>3. TablesAgree' /\ QueuedOnce'
    BY <1>0, <2>1, <2>2 DEF TablesAgree, Watched, QueuedOnce, Conns, netVars
  <2>4. DispatchOnce'
    <3>1. e.fd \notin leaked
      BY <1>0 DEF TablesAgree
    <3> QED
      BY <1>0, <2>1, <2>2, <3>1 DEF DispatchOnce, Conns, conn
  <2> QED
    BY <2>3, <2>4
<1>5. CASE DispatchOut
  BY <1>0, <1>5
  DEF DispatchOut, TablesAgree, Watched, QueuedOnce, DispatchOnce, Conns, conn, netVars
<1>6. CASE EndLoop
  BY <1>0, <1>6
  DEF EndLoop, TablesAgree, Watched, QueuedOnce, DispatchOnce, Conns, conn, netVars
<1>7. CASE Accept
  <2>1. /\ Len(backlog) \in Nat /\ DOMAIN backlog = 1..Len(backlog)
        /\ 1 \in DOMAIN backlog /\ Head(backlog) = backlog[1]
        /\ DOMAIN backlog' = 1..(Len(backlog) - 1)
        /\ \A i \in DOMAIN backlog' : backlog'[i] = backlog[i + 1]
        /\ \A i \in DOMAIN backlog : backlog[i] \in Clients
    BY <1>0, <1>7, LenProperties, HeadTailProperties DEF Accept, TypeOK, NetTypeOK
  <2>2. PICK f \in FreeFds :
          /\ fdtab' = [fdtab EXCEPT ![f] = Head(backlog)]
          /\ cl' = [cl EXCEPT ![Head(backlog)] = "open"]
          /\ AddConnection(f, Head(backlog))
    BY <1>7 DEF Accept
  <2>3. /\ f \in Fds /\ fdtab[f] = None /\ f \notin connections
        /\ Head(backlog) \in Clients /\ cl[Head(backlog)] = "queued"
        /\ Head(backlog) # None
    BY <1>0, <2>1, <2>2, ReactorAssumption DEF FreeFds, TablesAgree, Watched, Conns, QueuedOnce
  <2> DEFINE k == Head(backlog)
  <2>3a. /\ \A g \in Fds : fdtab'[g] = IF g = f THEN k ELSE fdtab[g]
         /\ \A j \in Clients : cl'[j] = IF j = k THEN "open" ELSE cl[j]
         /\ \A g \in AllFds : g # f => interest'[g] = interest[g]
         /\ \/ leaked' = leaked /\ interest'[f] = {"IN"}
            \/ leaked' = leaked \cup {f} /\ interest'[f] = interest[f]
                /\ ready' = ready
         /\ connections' = connections \cup {f}
         /\ ready' \subseteq ready \cup {f}
    BY <1>0, <2>2, <2>3 DEF AddConnection, AddSockToEpoll, TypeOK, NetTypeOK
  <2>4. QueuedOnce'
    <3>1. \A i \in DOMAIN backlog' : backlog'[i] # k
      BY <1>0, <2>1 DEF QueuedOnce
    <3> HIDE DEF k
    <3>2. \A i \in DOMAIN backlog' : i + 1 \in DOMAIN backlog
      BY <2>1
    <3>3. \A i \in DOMAIN backlog' : cl'[backlog'[i]] = "queued"
      BY <1>0, <2>1, <2>3a, <3>1, <3>2 DEF QueuedOnce
    <3>4. \A i, j \in DOMAIN backlog' : backlog'[i] = backlog'[j] => i = j
      BY <1>0, <2>1, <3>2 DEF QueuedOnce
    <3> QED
      BY <3>3, <3>4 DEF QueuedOnce
  <2>5. TablesAgree'
    <3>0. k \in Clients /\ k # None /\ cl[k] = "queued"
      BY <2>3
    <3> HIDE DEF k
    <3>1. /\ connections' = Watched' \cup leaked' /\ Watched' \cap leaked' = {}
          /\ Conns' = {g \in Fds : fdtab'[g] # None}
          /\ Listen \in connections'
          /\ ready' \subseteq Watched'
      BY <1>0, <2>3, <2>3a, <3>0 DEF TablesAgree, Watched, Conns
    <3>1a. \A g \in Fds : fdtab[g] # k
      BY <1>0, <3>0 DEF TablesAgree, Watched
    <3>2. \A j \in Clients : cl'[j] = "open" <=> \E g \in Fds : fdtab'[g] = j
      <4> SUFFICES ASSUME NEW j \in Clients
          PROVE cl'[j] = "open" <=> \E g \in Fds : fdtab'[g] = j
        OBVIOUS
      <4>1. j # None /\ (cl[j] = "open" <=> \E g \in Fds : fdtab[g] = j)
        BY <1>0, ReactorAssumption DEF TablesAgree, Watched
      <4> QED
        BY <2>3, <2>3a, <3>1a, <4>1
    <3>3. \A g, h \in Conns' : fdtab'[g] = fdtab'[h] => g = h
      <4>1. \A g, h \in Fds : fdtab[g] # None /\ fdtab[g] = fdtab[h] => g = h
        BY <1>0 DEF TablesAgree, Watched
      <4> QED
        BY <2>3, <2>3a, <3>1, <3>1a, <4>1
    <3>4. \A e \in revs' : e.fd \in Watched'
      BY <1>0, <1>7, <2>2, <2>3, <2>3a DEF Accept, AddConnection, AddSockToEpoll, TablesAgree, Watched
    <3> QED
      BY <3>1, <3>2, <3>3, <3>4 DEF TablesAgree, Watched
  <2>6. DispatchOnce'
    BY <1>0, <1>7, <2>3, <2>3a DEF Accept, DispatchOnce, conn
  <2> QED
    BY <2>4, <2>5, <2>6
<1>8. CASE AcceptEnds
  BY <1>0, <1>8
  DEF AcceptEnds, TablesAgree, Watched, QueuedOnce, DispatchOnce, Conns, conn, netVars
<1>9. CASE RecvData
  BY <1>0, <1>9
  DEF RecvData, TablesAgree, Watched, QueuedOnce, DispatchOnce, Conns, conn
<1>10. CASE RecvCloses
  BY <1>0, <1>10, ExcepterTables DEF RecvCloses, DispatchOnce
<1>11. CASE RecvAgain
  BY <1>0, <1>11
  DEF RecvAgain, TablesAgree, Watched, QueuedOnce, DispatchOnce, Conns, conn, netVars
<1>12. CASE HandleMessage
  <2>1. /\ conn \in Conns \ leaked
        /\ UNCHANGED <<netVars, fdtab, pc, revs, cur, connections, leaked>>
    BY <1>0, <1>12 DEF HandleMessage, DispatchOnce
  <2>2. \/ UNCHANGED <<interest, ready>>
        \/ EnableReadWrite(conn, TRUE)
    BY <1>12 DEF HandleMessage, NetCal
  <2>3. TablesAgree'
    BY <1>0, <2>1, <2>2, RearmTables DEF netVars
  <2> QED
    BY <1>0, <2>1, <2>3 DEF QueuedOnce, DispatchOnce, Conns, conn, netVars
<1>13. CASE HandleDone \/ NetCalTraps
  BY <1>0, <1>13
  DEF HandleDone, NetCalTraps, TablesAgree, Watched, QueuedOnce, DispatchOnce, Conns, conn, netVars
<1>14. CASE SendData
  BY <1>0, <1>14
  DEF SendData, TablesAgree, Watched, QueuedOnce, DispatchOnce, Conns, conn
<1>15. CASE SendAgain
  BY <1>0, <1>15
  DEF SendAgain, TablesAgree, Watched, QueuedOnce, DispatchOnce, Conns, conn, netVars
<1>16. CASE SendFails
  BY <1>0, <1>16, ExcepterTables DEF SendFails, DispatchOnce
<1>17. CASE Rearm
  <2>1. conn \in Conns \ leaked
    BY <1>0, <1>17 DEF Rearm, DispatchOnce, Conns
  <2>2. TablesAgree'
    <3>1. EnableReadWrite(conn, TRUE) \/ EnableReadWrite(conn, FALSE)
      BY <1>17 DEF Rearm
    <3> QED
      BY <1>17, <2>1, <3>1, RearmTables DEF Rearm, netVars
  <2> QED
    BY <1>0, <1>17, <2>2 DEF Rearm, QueuedOnce, DispatchOnce, Conns, conn, netVars
<1>18. CASE RearmDeleted
  BY <1>0, <1>18
  DEF RearmDeleted, TablesAgree, Watched, QueuedOnce, DispatchOnce, Conns, conn, netVars
<1>19. CASE UNCHANGED vars
  BY <1>0, <1>19
  DEF vars, netVars, serverVars, TablesAgree, Watched, QueuedOnce, DispatchOnce, Conns, conn
<1> QED
  BY <1>1, <1>2, <1>3, <1>4, <1>5, <1>6, <1>7, <1>8, <1>9, <1>10, <1>11,
     <1>12, <1>13, <1>14, <1>15, <1>16, <1>17, <1>18, <1>19
  DEF Next, Server, Dispatch, Accepter, Recver, Sender, WaitTimeout
-----------------------------------------------------------------------------
Armed == OutputArmed /\ SenderHasOutput /\ EventsArmed

(* The descriptors of the events that wait belong to live connections.     *)
LEMMA EventPeers ==
  ASSUME ReactorInv
  PROVE  /\ \A f \in Conns : f \in Fds /\ fdtab[f] \in Clients
         /\ \A e \in revs : e.fd # Listen => e.fd \in Conns
<1>1. TypeOK /\ TablesAgree
  BY DEF ReactorInv
<1> QED
  BY <1>1, FdFacts DEF TypeOK, TablesAgree, Watched, Conns

(* A step that leaves the connections alone and resets at most.            *)
LEMMA ArmedStable ==
  ASSUME ReactorInv,
         UNCHANGED <<fdtab, interest, pc, revs, cur, connections, outbuffer>>,
         \A k \in Clients : ctl[k] = "rst" => ctl'[k] = "rst"
  PROVE  Armed'
<1>1. /\ OutputArmed /\ SenderHasOutput /\ EventsArmed /\ DispatchOnce
      /\ TablesAgree
  BY DEF ReactorInv
<1>2. OutputArmed' /\ SenderHasOutput'
  BY <1>1 DEF OutputArmed, SenderHasOutput, conn
<1>3. pc = "recv" => peer \in Clients
  BY <1>1, EventPeers DEF DispatchOnce, peer
<1>4. EventsArmed'
  BY <1>1, <1>3, EventPeers DEF EventsArmed, Conns, conn, peer
<1> QED
  BY <1>2, <1>4 DEF Armed

(* Closing the connection being dispatched takes its events along.         *)
LEMMA ExcepterArmed ==
  ASSUME ReactorInv, Excepter, conn \in Conns, pc \notin {"wait", "dispatch"},
         pc # "rearm", pc' \in {"out", "rearm"},
         UNCHANGED <<ctl, revs, cur, outbuffer>>
  PROVE  Armed'
<1> USE FdFacts
<1>1. /\ TypeOK /\ OutputArmed /\ EventsArmed /\ DispatchOnce
  BY DEF ReactorInv
<1>2. conn \in Fds
  BY EventPeers
<1>3. /\ \A f \in AllFds : interest'[f] = IF f = conn THEN {} ELSE interest[f]
      /\ \A f \in Fds : f # conn => fdtab'[f] = fdtab[f]
      /\ connections' = connections \ {conn}
      /\ conn' = conn
  BY <1>1 DEF Excepter, TypeOK, conn
<1>4. OutputArmed'
  BY <1>1, <1>2, <1>3 DEF OutputArmed
<1>5. SenderHasOutput'
  BY DEF SenderHasOutput
<1>6. EventsArmed'
  <2>1. \A e \in revs : e.fd # conn /\ e.fd \in AllFds
    BY <1>1 DEF DispatchOnce, TypeOK, Event
  <2>2. conn' \notin Conns'
    BY <1>3 DEF Conns
  <2>3. \A e \in revs' : e.out /\ e.fd # Listen =>
          \/ "OUT" \in interest'[e.fd]
          \/ e.in /\ ctl'[fdtab'[e.fd]] = "rst"
    BY <1>1, <1>3, <2>1 DEF EventsArmed
  <2> QED
    BY <2>2, <2>3 DEF EventsArmed
<1> QED
  BY <1>4, <1>5, <1>6 DEF Armed

LEMMA NextArmed == ReactorInv /\ [Next]_vars => Armed'
<1> SUFFICES ASSUME ReactorInv, [Next]_vars PROVE Armed'
  OBVIOUS
<1> USE FdFacts
<1>0. /\ TypeOK /\ TablesAgree /\ DispatchOnce
      /\ OutputArmed /\ SenderHasOutput /\ EventsArmed
  BY DEF ReactorInv
<1>1. ASSUME NEW k \in Clients, Connect(k) \/ ClientInput(k) \/ ClientRead(k)
      PROVE  Armed'
  <2>1. ctl \in [Clients -> {"ok", "fin", "rst"}]
    BY <1>0 DEF TypeOK, NetTypeOK
  <2>2. \A j \in Clients : ctl[j] = "rst" => ctl'[j] = "rst"
    BY <1>1, <2>1
    DEF Connect, ClientInput, ClientRead, NetConnect, NetSend, NetFin, NetReset,
        NetRead
  <2> QED
    BY <1>1, <2>2, ArmedStable DEF Connect, ClientInput, ClientRead
<1>2. CASE WaitEpoll
  <2>1. OutputArmed' /\ SenderHasOutput'
    BY <1>0, <1>2 DEF WaitEpoll, OutputArmed, SenderHasOutput
  <2>2. \A e \in revs' : e.out /\ e.fd # Listen =>
          "OUT" \in interest[e.fd] \/ (e.in /\ ctl[fdtab[e.fd]] = "rst")
    <3> SUFFICES ASSUME NEW e \in revs', e.out, e.fd # Listen
        PROVE  "OUT" \in interest[e.fd] \/ (e.in /\ ctl[fdtab[e.fd]] = "rst")
      OBVIOUS
    <3>1. PICK f \in ready :
            e = [fd  |-> f,
                 in  |-> HasErr(f) \/ ("IN" \in interest[f] /\ HasIn(f)),
                 out |-> HasErr(f) \/ ("OUT" \in interest[f] /\ HasOut(f))]
      BY <1>2 DEF WaitEpoll
    <3>2. /\ e.fd = f
          /\ e.in = (HasErr(f) \/ ("IN" \in interest[f] /\ HasIn(f)))
          /\ e.out = (HasErr(f) \/ ("OUT" \in interest[f] /\ HasOut(f)))
      BY <3>1, Zenon
    <3>3. HasErr(f) => ctl[fdtab[f]] = "rst"
      BY DEF HasErr
    <3> QED
      BY <3>2, <3>3, Zenon
  <2>3. EventsArmed'
    BY <1>2, <2>2 DEF WaitEpoll, EventsArmed, netVars
  <2> QED
    BY <2>1, <2>3 DEF Armed
<1>3. CASE DispatchIn
  <2>1. PICK e \in revs :
          /\ cur' = e /\ revs' = revs \ {e}
          /\ pc' = IF ~e.in \/ e.fd \notin connections THEN "out"
                   ELSE IF e.fd = Listen THEN "accept" ELSE "recv"
    BY <1>3 DEF DispatchIn
  <2>2. UNCHANGED <<netVars, fdtab, interest, connections, outbuffer>> /\ pc = "dispatch"
    BY <1>3 DEF DispatchIn
  <2>3. OutputArmed' /\ SenderHasOutput'
    BY <1>0, <2>1, <2>2 DEF OutputArmed, SenderHasOutput
  <2>4. e.fd \in connections
    BY <1>0 DEF TablesAgree, Watched
  <2>5. EventsArmed'
    BY <1>0, <2>1, <2>2, <2>4 DEF EventsArmed, Conns, conn, peer, netVars
  <2> QED
    BY <2>3, <2>5 DEF Armed
<1>4. CASE DispatchOut
  <2>1. UNCHANGED <<netVars, fdtab, interest, revs, cur, connections, outbuffer>>
        /\ pc = "out" /\ pc' \in {"send", "dispatch"}
    BY <1>4 DEF DispatchOut
  <2>2. OutputArmed' /\ EventsArmed'
    BY <1>0, <2>1 DEF OutputArmed, EventsArmed, netVars
  <2>3. pc' = "send" => conn \in Conns /\ cur.out
    BY <1>4 DEF DispatchOut, Conns, conn
  <2>4. pc' = "send" => conn \in connections /\ outbuffer[conn] # <<>>
    BY <1>0, <2>1, <2>3, EventPeers DEF EventsArmed, OutputArmed, Conns
  <2> QED
    BY <2>1, <2>2, <2>4 DEF Armed, SenderHasOutput, conn
<1>5. CASE EndLoop
  BY <1>0, <1>5
  DEF EndLoop, Armed, OutputArmed, SenderHasOutput, EventsArmed, netVars
<1>6. CASE Accept
  <2>1. PICK f \in FreeFds :
          /\ fdtab' = [fdtab EXCEPT ![f] = Head(backlog)]
          /\ AddConnection(f, Head(backlog))
    BY <1>6 DEF Accept
  <2>2. f \in Fds /\ f \notin connections
    BY <1>0, <2>1 DEF FreeFds, TablesAgree, Watched, Conns
  <2>3. UNCHANGED <<ctl, pc, revs, cur>> /\ pc = "accept"
    BY <1>6 DEF Accept
  <2>4. /\ \A g \in Fds : g # f => fdtab'[g] = fdtab[g]
        /\ \A g \in Fds : outbuffer'[g] = IF g = f THEN <<>> ELSE outbuffer[g]
        /\ \A g \in AllFds : g # f => interest'[g] = interest[g]
        /\ interest'[f] \in {{"IN"}, {}}
        /\ connections' = connections \cup {f}
    <3>1. interest[f] = {}
      BY <1>0, <2>2 DEF TablesAgree, Watched, AllFds
    <3> QED
      BY <1>0, <2>1, <2>2, <3>1 DEF AddConnection, AddSockToEpoll, TypeOK
  <2>5. OutputArmed' /\ SenderHasOutput'
    BY <1>0, <2>2, <2>3, <2>4 DEF OutputArmed, SenderHasOutput
  <2>6. \A e \in revs : e.fd \in AllFds /\ e.fd # f
    BY <1>0, <2>2 DEF TablesAgree, Watched, TypeOK, Event
  <2>7. EventsArmed'
    BY <1>0, <2>3, <2>4, <2>6 DEF EventsArmed
  <2> QED
    BY <2>5, <2>7 DEF Armed
<1>7. CASE AcceptEnds
  <2>1. conn \notin Conns
    BY <1>0, <1>7 DEF AcceptEnds, DispatchOnce, Conns
  <2> QED
    BY <1>0, <1>7, <2>1
    DEF AcceptEnds, Armed, OutputArmed, SenderHasOutput, EventsArmed, conn, Conns,
        netVars
<1>8. CASE RecvData
  BY <1>8, ArmedStable DEF RecvData
<1>9. CASE RecvCloses
  BY <1>0, <1>9, ExcepterArmed DEF RecvCloses, DispatchOnce
<1>10. CASE RecvAgain
  BY <1>0, <1>10
  DEF RecvAgain, Armed, OutputArmed, SenderHasOutput, EventsArmed, conn, peer,
      Conns, netVars
<1>11. CASE HandleMessage
  <2>1. conn \in Conns /\ conn \in Fds
    BY <1>0, <1>11, EventPeers DEF HandleMessage, DispatchOnce
  <2>2. UNCHANGED <<netVars, fdtab, pc, revs, cur, connections>> /\ pc = "handle"
    BY <1>11 DEF HandleMessage
  <2>3. PICK i \in DOMAIN inbuffer[conn] :
          NetCal(conn, SubSeq(inbuffer[conn], 1, i - 1))
    BY <1>11 DEF HandleMessage
  <2> DEFINE request == SubSeq(inbuffer[conn], 1, i - 1)
  <2>4. CASE Deserialized(request)
    <3>0. /\ outbuffer' = [outbuffer EXCEPT ![conn] = Append(@, request[1])]
          /\ interest' = [interest EXCEPT ![conn] = {"IN", "OUT"}]
      BY <2>3, <2>4 DEF NetCal, EnableReadWrite
    <3>1. request[1] \in Int
      <4>1. inbuffer[conn] \in Seq(Int) /\ i - 1 \in 0..Len(inbuffer[conn])
        BY <1>0, <2>1, LenProperties DEF TypeOK
      <4>2. request \in Seq(Int)
        BY <4>1, CutSeq
      <4> QED
        BY <2>4, <4>2, LenProperties, EmptySeq DEF Deserialized
    <3> HIDE DEF request
    <3>2. Append(outbuffer[conn], request[1]) # <<>>
      <4>1. outbuffer[conn] \in Seq(Int)
        BY <1>0, <2>1 DEF TypeOK
      <4>2. Len(Append(outbuffer[conn], request[1])) = Len(outbuffer[conn]) + 1
            /\ Len(outbuffer[conn]) \in Nat
        BY <3>1, <4>1, AppendProperties, LenProperties
      <4> QED
        BY <4>2, Len(<<>>) = 0
    <3>3. /\ \A f \in AllFds : interest'[f] = IF f = conn THEN {"IN", "OUT"} ELSE interest[f]
          /\ \A f \in Fds : f # conn => outbuffer'[f] = outbuffer[f]
          /\ outbuffer'[conn] # <<>>
          /\ conn' = conn
      BY <1>0, <2>1, <2>2, <3>0, <3>2 DEF TypeOK, conn
    <3>4. OutputArmed' /\ SenderHasOutput'
      BY <1>0, <2>1, <2>2, <3>3 DEF OutputArmed, SenderHasOutput
    <3>5. \A e \in revs : e.fd \in AllFds
      BY <1>0 DEF TypeOK, Event
    <3>6. EventsArmed'
      BY <1>0, <2>1, <2>2, <3>3, <3>5 DEF EventsArmed, Conns, netVars
    <3> QED
      BY <3>4, <3>6 DEF Armed
  <2>5. CASE ~Deserialized(request)
    BY <2>2, <2>3, <2>5, ArmedStable DEF NetCal, netVars
  <2> QED
    BY <2>4, <2>5
<1>12. CASE HandleDone \/ NetCalTraps
  BY <1>0, <1>12
  DEF HandleDone, NetCalTraps, Armed, OutputArmed, SenderHasOutput, EventsArmed, conn, Conns,
      netVars
<1>13. CASE SendData
  <2>1. conn \in Conns /\ conn \in Fds
    BY <1>0, <1>13, EventPeers DEF SendData, DispatchOnce
  <2>2. /\ UNCHANGED <<ctl, fdtab, interest, revs, cur, connections>>
        /\ pc = "send" /\ conn' = conn
        /\ outbuffer' = [outbuffer EXCEPT ![conn] = Unsent(SendCount)]
        /\ pc' = IF Unsent(SendCount) = <<>> THEN "rearm" ELSE "send"
    BY <1>13 DEF SendData, conn
  <2>3. outbuffer \in [Fds -> Seq(Int)]
    BY <1>0 DEF TypeOK
  <2>4. OutputArmed' /\ SenderHasOutput'
    BY <1>0, <2>1, <2>2, <2>3 DEF OutputArmed, SenderHasOutput
  <2>5. EventsArmed'
    BY <1>0, <2>2 DEF EventsArmed
  <2> QED
    BY <2>4, <2>5 DEF Armed
<1>14. CASE SendAgain
  BY <1>0, <1>14
  DEF SendAgain, Armed, OutputArmed, SenderHasOutput, EventsArmed, conn, netVars
<1>15. CASE SendFails
  BY <1>0, <1>15, ExcepterArmed DEF SendFails, DispatchOnce
<1>16. CASE Rearm
  <2>1. conn \in Conns /\ conn \in Fds
    BY <1>0, <1>16 DEF Rearm, DispatchOnce, Conns
  <2>2. /\ UNCHANGED <<ctl, fdtab, revs, cur, connections, outbuffer>>
        /\ pc = "rearm" /\ pc' = "dispatch"
        /\ interest' = [interest EXCEPT ![conn] =
             {"IN"} \cup IF outbuffer[conn] # <<>> THEN {"OUT"} ELSE {}]
    BY <1>16 DEF Rearm, EnableReadWrite, netVars
  <2>3. \A f \in AllFds : interest'[f] = IF f = conn
            THEN {"IN"} \cup IF outbuffer[conn] # <<>> THEN {"OUT"} ELSE {}
            ELSE interest[f]
    BY <1>0, <2>2 DEF TypeOK
  <2>4. OutputArmed' /\ SenderHasOutput'
    BY <1>0, <2>1, <2>2, <2>3 DEF OutputArmed, SenderHasOutput
  <2>5. \A e \in revs : e.fd \in AllFds /\ e.fd # conn
    BY <1>0, <2>2 DEF TypeOK, Event, DispatchOnce
  <2>6. EventsArmed'
    BY <1>0, <2>2, <2>3, <2>5 DEF EventsArmed
  <2> QED
    BY <2>4, <2>6 DEF Armed
<1>17. CASE RearmDeleted
  <2>1. conn \in Fds /\ interest[conn] = {}
    BY <1>0, <1>17 DEF RearmDeleted, DispatchOnce, TablesAgree, Watched
  <2> QED
    BY <1>0, <1>17, <2>1
    DEF RearmDeleted, Armed, OutputArmed, SenderHasOutput, EventsArmed, conn, netVars
<1>18. CASE UNCHANGED vars
  BY <1>18, ArmedStable DEF vars, netVars, serverVars
<1> QED
  BY <1>1, <1>2, <1>3, <1>4, <1>5, <1>6, <1>7, <1>8, <1>9, <1>10, <1>11,
     <1>12, <1>13, <1>14, <1>15, <1>16, <1>17, <1>18
  DEF Next, Server, Dispatch, Accepter, Recver, Sender, WaitTimeout
-----------------------------------------------------------------------------
(* ReactorInv is an inductive invariant: the tables, the event masks and   *)
(* the buffers stay in step in every state of the server, with any number  *)
(* of clients and descriptors.                                             *)
THEOREM ReactorInvariance == Spec => []ReactorInv
<1>1. ReactorInv /\ [Next]_vars => ReactorInv'
  BY NextTypeOK, NextTables, NextArmed DEF ReactorInv, Tables, Armed
<1> QED
  BY InitInv, <1>1, PTL DEF Spec

(* Every variable keeps its type, partial sends included.                  *)
THEOREM TypeCorrect == Spec => []TypeOK
BY ReactorInvariance, PTL DEF ReactorInv

(* The connection map, the epoll set, the descriptor table and the events  *)
(* still to be dispatched never disagree: Excepter, AddConnection and a    *)
(* reused descriptor leave nothing behind.                                 *)
THEOREM TablesInvariance == Spec => []TablesAgree
BY ReactorInvariance, PTL DEF ReactorInv

(* EPOLLOUT is on exactly for the connections with output left to send.    *)
THEOREM OutputInvariance == Spec => []OutputArmed
BY ReactorInvariance, PTL DEF ReactorInv

(* Sender is only entered with something to send on a live connection,     *)
(* although LoopOnce turns an error event into both callbacks.             *)
THEOREM SenderInvariance == Spec => []SenderHasOutput
BY ReactorInvariance, PTL DEF ReactorInv
-----------------------------------------------------------------------------
(* A complete request is in an input buffer only while Recver is at work   *)
(* on its connection, or if the process ended there.                       *)
RequestsInHand ==
  \A f \in Conns : HasMessage(inbuffer[f]) => pc \in {"recv", "handle", "trapped"} /\ conn = f

(* Nothing that epoll has to tell is forgotten: what holds of a connection *)
(* is on the ready list, among the events that are still to be dispatched, *)
(* or being dealt with.                                                    *)
Live == Conns \ leaked

InputKept ==
  \A f \in Live : Readable(fdtab[f]) =>
    \/ f \in ready
    \/ \E e \in revs : e.fd = f /\ e.in
    \/ pc = "recv" /\ conn = f

OutputKept ==
  \A f \in Conns : outbuffer[f] # <<>> /\ Writable(fdtab[f]) =>
    \/ f \in ready
    \/ \E e \in revs : e.fd = f /\ e.out
    \/ conn = f /\ (pc \in {"send", "rearm"} \/ (cur.out /\ pc \in {"recv", "handle", "out", "trapped"}))

BacklogKept ==
  backlog # <<>> =>
    \/ Listen \in ready \cup leaked \/ refused \/ pc = "accept"
    \/ \E e \in revs : e.fd = Listen /\ e.in

(* A watched connection is watched for input all its life.                 *)
InputArmed == \A f \in Watched : "IN" \in interest[f]

EdgesKept == InputKept /\ OutputKept /\ BacklogKept /\ InputArmed

LEMMA InitKept == Init => RequestsInHand /\ EdgesKept
<1> SUFFICES ASSUME Init PROVE RequestsInHand /\ EdgesKept
  OBVIOUS
<1>1. Conns = {} /\ backlog = <<>>
      /\ \A f \in AllFds : interest[f] \in {{"IN"}, {}}
  BY FdFacts DEF Init, NetInit, Conns
<1> QED
  BY <1>1 DEF Watched, Live, RequestsInHand, EdgesKept, InputKept, OutputKept, BacklogKept, InputArmed

(* RecvData and SpliteMessage are the only ones that touch _inbuffer, and  *)
(* Recver does not return before SpliteMessage finds no separator.         *)
LEMMA NextRequests == ReactorInv /\ RequestsInHand /\ [Next]_vars => RequestsInHand'
<1> SUFFICES ASSUME ReactorInv, RequestsInHand, [Next]_vars PROVE RequestsInHand'
  OBVIOUS
<1> USE FdFacts DEF RequestsInHand
<1>0. TypeOK /\ TablesAgree /\ DispatchOnce
  BY DEF ReactorInv
<1>1. CASE UNCHANGED <<inbuffer, pc, cur, connections>>
  BY <1>1 DEF Conns, conn
<1>2. CASE WaitEpoll \/ EndLoop \/ AcceptEnds
  BY <1>0, <1>2 DEF WaitEpoll, EndLoop, AcceptEnds, Conns, DispatchOnce, conn
<1>3. CASE DispatchIn \/ DispatchOut
  BY <1>3 DEF DispatchIn, DispatchOut, Conns
<1>4. CASE Accept
  <2>1. PICK f \in FreeFds : AddConnection(f, Head(backlog))
    BY <1>4 DEF Accept
  <2>2. f \in Fds /\ f \notin connections
    BY <1>0, <2>1 DEF FreeFds, TablesAgree, Watched, Conns
  <2>3. /\ connections' = connections \cup {f}
        /\ \A g \in Fds : inbuffer'[g] = IF g = f THEN <<>> ELSE inbuffer[g]
    BY <1>0, <2>1, <2>2 DEF AddConnection, AddSockToEpoll, TypeOK
  <2>4. ~HasMessage(<<>>)
    BY DEF HasMessage
  <2>5. pc = "accept" /\ Conns' \subseteq Conns \cup {f} /\ Conns \subseteq Fds
    BY <1>4, <2>3, EventPeers DEF Accept, Conns
  <2> QED
    BY <2>2, <2>3, <2>4, <2>5
<1>5. CASE RecvData
  <2>1. pc = "recv" /\ pc' = pc /\ conn' = conn /\ connections' = connections
        /\ \A f \in Conns : f # conn => inbuffer'[f] = inbuffer[f]
    BY <1>0, <1>5, EventPeers DEF RecvData, TypeOK, conn
  <2> QED
    BY <2>1 DEF Conns
<1>6. CASE RecvCloses \/ SendFails
  <2>1. inbuffer' = inbuffer /\ connections' = connections \ {conn} /\ conn' = conn
    BY <1>6 DEF RecvCloses, SendFails, Excepter, conn
  <2> QED
    BY <2>1 DEF Conns
<1>7. CASE RecvAgain
  BY <1>7 DEF RecvAgain, Conns, conn
<1>8. CASE HandleMessage
  <2>1. pc = "handle" /\ pc' = pc /\ conn' = conn /\ connections' = connections
        /\ \A f \in Conns : f # conn => inbuffer'[f] = inbuffer[f]
    BY <1>0, <1>8, EventPeers DEF HandleMessage, TypeOK, conn
  <2> QED
    BY <2>1 DEF Conns
<1>9. CASE HandleDone \/ NetCalTraps
  BY <1>9 DEF HandleDone, NetCalTraps, Conns, conn
<1>10. CASE SendData \/ SendAgain \/ Rearm \/ RearmDeleted
  BY <1>10 DEF SendData, SendAgain, Rearm, RearmDeleted, Conns, conn
<1> QED
  BY <1>1, <1>2, <1>3, <1>4, <1>5, <1>6, <1>7, <1>8, <1>9, <1>10
  DEF Next, Server, Dispatch, Accepter, Recver, Sender, WaitTimeout, vars,
      serverVars, Connect, ClientInput, ClientRead

(* Every connection is added with EPOLLIN and EnableReadWrite keeps it.    *)
LEMMA NextInputArmed == ReactorInv /\ InputArmed /\ [Next]_vars => InputArmed'
<1> SUFFICES ASSUME ReactorInv, InputArmed, [Next]_vars PROVE InputArmed'
  OBVIOUS
<1> USE FdFacts DEF InputArmed, Watched
<1>0. TypeOK /\ TablesAgree /\ DispatchOnce
  BY DEF ReactorInv
<1>1. CASE UNCHANGED interest
  BY <1>1
<1>2. CASE Accept
  <2>1. PICK f \in FreeFds : AddConnection(f, Head(backlog))
    BY <1>2 DEF Accept
  <2> QED
    BY <1>0, <2>1 DEF AddConnection, AddSockToEpoll, TypeOK, FreeFds
<1>3. CASE RecvCloses \/ SendFails
  BY <1>0, <1>3 DEF RecvCloses, SendFails, Excepter, TypeOK
<1>4. CASE HandleMessage \/ Rearm
  <2>1. UNCHANGED interest \/ \E events : interest' = [interest EXCEPT ![conn] = {"IN"} \cup events]
    BY <1>4 DEF HandleMessage, Rearm, NetCal, EnableReadWrite
  <2> QED
    BY <1>0, <2>1 DEF TypeOK
<1> QED
  BY <1>1, <1>2, <1>3, <1>4
  DEF Next, Server, Dispatch, Accepter, Recver, Sender, WaitTimeout, vars,
      serverVars, Connect, ClientInput, ClientRead, WaitEpoll, DispatchIn,
      DispatchOut, EndLoop, AcceptEnds, RecvData, RecvAgain, HandleDone, NetCalTraps,
      SendData, SendAgain, RearmDeleted

(* epoll_wait reports what holds of a descriptor on the ready list.        *)
LEMMA WaitReports ==
  ASSUME WaitEpoll, NEW f \in ready
  PROVE  /\ "IN" \in interest[f] /\ HasIn(f) => \E e \in revs' : e.fd = f /\ e.in
         /\ "OUT" \in interest[f] /\ HasOut(f) => \E e \in revs' : e.fd = f /\ e.out
<1> DEFINE in  == HasErr(f) \/ ("IN" \in interest[f] /\ HasIn(f))
           out == HasErr(f) \/ ("OUT" \in interest[f] /\ HasOut(f))
           e   == [fd |-> f, in |-> in, out |-> out]
<1>1. e.fd = f /\ e.in = in /\ e.out = out
  BY Zenon
<1>2. e.in \/ e.out => e \in revs'
  BY DEF WaitEpoll
<1> HIDE DEF e
<1> QED
  BY <1>1, <1>2, Zenon

(* The input side.  An arrival is an edge of a descriptor that is watched  *)
(* for input, and Recver reads until there is nothing left.                *)
LEMMA NextInputKept ==
  ReactorInv /\ InputKept /\ InputArmed /\ [Next]_vars => InputKept'
<1> SUFFICES ASSUME ReactorInv, InputKept, InputArmed, [Next]_vars PROVE InputKept'
  OBVIOUS
<1> USE FdFacts
<1>0. TypeOK /\ TablesAgree /\ DispatchOnce
  BY DEF ReactorInv
<1>a. \A f \in Live : f \in Fds /\ fdtab[f] \in Clients /\ f \in Watched
  BY <1>0, EventPeers DEF Conns, Live, TablesAgree
<1>b. /\ rx \in [Clients -> Seq(Int)]
      /\ ctl \in [Clients -> {"ok", "fin", "rst"}]
  BY <1>0 DEF TypeOK, NetTypeOK
<1>1. ASSUME UNCHANGED <<fdtab, revs, pc, cur, connections, leaked, rx, ctl>>, ready \subseteq ready'
      PROVE  InputKept'
  BY <1>1 DEF InputKept, Readable, Conns, Live, conn
<1>2. ASSUME NEW k \in Clients, ClientInput(k) PROVE InputKept'
  <2>1. /\ UNCHANGED <<fdtab, revs, pc, cur, connections, leaked>>
        /\ ready' = ready \cup Edge(k, "IN")
    BY <1>2 DEF ClientInput
  <2>2. \A j \in Clients : j # k => rx'[j] = rx[j] /\ ctl'[j] = ctl[j]
    BY <1>2, <1>b DEF ClientInput, NetSend, NetFin, NetReset
  <2>3. \A f \in Live : fdtab[f] = k => f \in ready'
    BY <2>1, <1>a DEF Edge, InputArmed
  <2> QED
    BY <1>a, <2>1, <2>2, <2>3 DEF InputKept, Readable, Conns, Live, conn
<1>3. CASE WaitEpoll
  <2>1. UNCHANGED <<fdtab, connections, leaked, rx, ctl>> /\ pc = "wait" /\ revs = {}
    BY <1>0, <1>3 DEF WaitEpoll, netVars, DispatchOnce
  <2>2. \A f \in Live : Readable(fdtab[f]) => f \in ready /\ HasIn(f) /\ "IN" \in interest[f]
    BY <2>1, <1>a DEF InputKept, InputArmed, HasIn, Conns, Live
  <2> QED
    BY <1>3, <2>1, <2>2, WaitReports DEF InputKept, Readable, Conns, Live
<1>4. CASE DispatchIn
  <2>1. PICK e \in revs :
          /\ cur' = e /\ revs' = revs \ {e}
          /\ pc' = IF ~e.in \/ e.fd \notin connections THEN "out"
                   ELSE IF e.fd = Listen THEN "accept" ELSE "recv"
    BY <1>4 DEF DispatchIn
  <2>2. UNCHANGED <<fdtab, ready, connections, leaked, rx, ctl>> /\ pc = "dispatch"
    BY <1>4 DEF DispatchIn, netVars
  <2>3. \A f \in Live : f \in connections /\ f # Listen
    BY DEF Conns, Live
  <2> QED
    BY <2>1, <2>2, <2>3 DEF InputKept, Readable, Conns, Live, conn
<1>5. CASE Accept
  <2>1. PICK f \in FreeFds :
          /\ fdtab' = [fdtab EXCEPT ![f] = Head(backlog)]
          /\ AddConnection(f, Head(backlog))
    BY <1>5 DEF Accept
  <2>2. f \in Fds /\ f \notin connections
    BY <1>0, <2>1 DEF FreeFds, TablesAgree, Watched, Conns
  <2>3. /\ fdtab'[f] = Head(backlog) /\ \A g \in Fds : g # f => fdtab'[g] = fdtab[g]
        /\ Live' \subseteq Live \cup {f} /\ ready \subseteq ready'
        /\ f \in Live' /\ Readable(Head(backlog)) => f \in ready'
    BY <1>0, <2>1, <2>2 DEF AddConnection, AddSockToEpoll, TypeOK, Conns, Live
  <2>4. UNCHANGED <<rx, ctl, revs, pc, cur>>
    BY <1>5 DEF Accept
  <2> QED
    BY <1>a, <2>2, <2>3, <2>4 DEF InputKept, Readable, conn
<1>6. CASE RecvData
  BY <1>a, <1>b, <1>6 DEF RecvData, InputKept, Readable, Conns, Live, conn, peer
<1>7. CASE RecvAgain
  BY <1>7 DEF RecvAgain, InputKept, Readable, Conns, Live, conn, peer, netVars
<1>8. CASE RecvCloses \/ SendFails
  <2>1. /\ Live' = Live \ {conn} /\ conn' = conn
        /\ UNCHANGED <<rx, ctl, revs>>
        /\ ready' = ready \ {conn}
        /\ \A f \in Fds : f # conn => fdtab'[f] = fdtab[f]
    BY <1>0, <1>8 DEF RecvCloses, SendFails, Excepter, Conns, Live, conn, TypeOK
  <2> QED
    BY <1>a, <2>1 DEF InputKept, Readable, Live
<1>9. CASE HandleMessage \/ Rearm
  <2>1. ready \subseteq ready' /\ UNCHANGED <<fdtab, revs, cur, connections, leaked, rx, ctl>>
        /\ pc # "recv"
    BY <1>9 DEF HandleMessage, Rearm, NetCal, EnableReadWrite, netVars
  <2> QED
    BY <2>1 DEF InputKept, Readable, Conns, Live, conn
<1>10. CASE \/ DispatchOut \/ EndLoop \/ AcceptEnds \/ HandleDone \/ NetCalTraps
            \/ SendData \/ SendAgain \/ RearmDeleted
  <2>1. UNCHANGED <<fdtab, ready, revs, cur, connections, leaked, rx, ctl>> /\ pc # "recv"
    BY <1>10
    DEF DispatchOut, EndLoop, AcceptEnds, HandleDone, NetCalTraps, SendData, SendAgain,
        RearmDeleted, netVars
  <2> QED
    BY <2>1 DEF InputKept, Readable, Conns, Live, conn
<1>11. ASSUME NEW k \in Clients, Connect(k) \/ ClientRead(k) PROVE InputKept'
  BY <1>1, <1>11 DEF Connect, ClientRead, NetConnect, NetRead
<1>12. CASE UNCHANGED vars
  BY <1>1, <1>12 DEF vars, netVars, serverVars
<1> QED
  BY <1>2, <1>3, <1>4, <1>5, <1>6, <1>7, <1>8, <1>9, <1>10, <1>11, <1>12
  DEF Next, Server, Dispatch, Accepter, Recver, Sender, WaitTimeout

(* The output side.  Output means that EPOLLOUT is on, so that room in the *)
(* send buffer is an edge; Sender ends by looking once more.               *)
LEMMA NextOutputKept ==
  ReactorInv /\ OutputKept /\ InputArmed /\ [Next]_vars => OutputKept'
<1> SUFFICES ASSUME ReactorInv, OutputKept, InputArmed, [Next]_vars PROVE OutputKept'
  OBVIOUS
<1> USE FdFacts
<1>0. TypeOK /\ TablesAgree /\ DispatchOnce /\ OutputArmed
  BY DEF ReactorInv
<1>a. \A f \in Conns : f \in Fds /\ fdtab[f] \in Clients /\ f \in connections /\ f # Listen
  BY EventPeers DEF Conns
<1>b. /\ tx \in [Clients -> Seq(Int)]
      /\ ctl \in [Clients -> {"ok", "fin", "rst"}]
  BY <1>0 DEF TypeOK, NetTypeOK
<1>1. ASSUME UNCHANGED <<fdtab, revs, pc, cur, connections, tx, ctl, outbuffer>>,
             ready \subseteq ready'
      PROVE  OutputKept'
  BY <1>1 DEF OutputKept, Writable, Conns, conn
<1>2. ASSUME NEW k \in Clients, ClientInput(k) PROVE OutputKept'
  <2>1. /\ UNCHANGED <<fdtab, revs, pc, cur, connections, tx, outbuffer>>
        /\ ready' = ready \cup Edge(k, "IN")
    BY <1>2 DEF ClientInput, NetSend, NetFin, NetReset
  <2>2. \A j \in Clients : j # k => ctl'[j] = ctl[j]
    BY <1>2, <1>b DEF ClientInput, NetSend, NetFin, NetReset
  <2>3. \A f \in Conns : fdtab[f] = k /\ outbuffer[f] # <<>> => f \in ready'
    BY <2>1, <1>0, <1>a DEF Edge, InputArmed, OutputArmed, Watched
  <2> QED
    BY <1>a, <2>1, <2>2, <2>3 DEF OutputKept, Writable, Conns, conn
<1>3. ASSUME NEW k \in Clients, ClientRead(k) PROVE OutputKept'
  <2>1. /\ UNCHANGED <<fdtab, interest, revs, pc, cur, connections, ctl, outbuffer>>
        /\ ready' = ready \cup IF Writable(k) THEN {} ELSE Edge(k, "OUT")
        /\ \A j \in Clients : j # k => tx'[j] = tx[j]
    BY <1>3, <1>b DEF ClientRead, NetRead
  <2>2. \A f \in Conns : fdtab[f] = k /\ outbuffer[f] # <<>> => Writable(k) \/ f \in ready'
    BY <1>0, <1>a, <2>1 DEF Edge, OutputArmed
  <2> QED
    BY <1>a, <2>1, <2>2 DEF OutputKept, Writable, Conns, conn
<1>4. CASE WaitEpoll
  <2>1. UNCHANGED <<fdtab, connections, tx, ctl, outbuffer>> /\ pc = "wait" /\ revs = {}
    BY <1>0, <1>4 DEF WaitEpoll, netVars, DispatchOnce
  <2>2. \A f \in Conns : outbuffer[f] # <<>> /\ Writable(fdtab[f])
                           => f \in ready /\ HasOut(f) /\ "OUT" \in interest[f]
    BY <1>0, <1>a, <2>1 DEF OutputKept, OutputArmed, HasOut
  <2> QED
    BY <1>4, <2>1, <2>2, WaitReports DEF OutputKept, Writable, Conns
<1>5. CASE DispatchIn
  <2>1. PICK e \in revs :
          /\ cur' = e /\ revs' = revs \ {e}
          /\ pc' = IF ~e.in \/ e.fd \notin connections THEN "out"
                   ELSE IF e.fd = Listen THEN "accept" ELSE "recv"
    BY <1>5 DEF DispatchIn
  <2>2. UNCHANGED <<fdtab, ready, connections, tx, ctl, outbuffer>> /\ pc = "dispatch"
    BY <1>5 DEF DispatchIn, netVars
  <2> QED
    BY <1>a, <2>1, <2>2 DEF OutputKept, Writable, Conns, conn
<1>6. CASE DispatchOut
  BY <1>a, <1>6 DEF DispatchOut, OutputKept, Writable, Conns, conn, netVars
<1>7. CASE Accept
  <2>1. PICK f \in FreeFds :
          /\ fdtab' = [fdtab EXCEPT ![f] = Head(backlog)]
          /\ AddConnection(f, Head(backlog))
    BY <1>7 DEF Accept
  <2>2. f \in Fds /\ f \notin connections
    BY <1>0, <2>1 DEF FreeFds, TablesAgree, Watched, Conns
  <2>3. /\ \A g \in Fds : g # f => fdtab'[g] = fdtab[g]
        /\ \A g \in Fds : outbuffer'[g] = IF g = f THEN <<>> ELSE outbuffer[g]
        /\ Conns' = Conns \cup {f}
        /\ ready \subseteq ready'
    BY <1>0, <2>1, <2>2 DEF AddConnection, AddSockToEpoll, TypeOK, Conns
  <2>4. UNCHANGED <<tx, ctl, revs, pc, cur>>
    BY <1>7 DEF Accept
  <2> QED
    BY <1>a, <2>2, <2>3, <2>4 DEF OutputKept, Writable, conn
<1>8. CASE RecvCloses \/ SendFails
  <2>1. /\ Conns' = Conns \ {conn} /\ conn' = conn
        /\ UNCHANGED <<tx, ctl, revs, outbuffer>>
        /\ ready' = ready \ {conn}
        /\ \A f \in Fds : f # conn => fdtab'[f] = fdtab[f]
    BY <1>0, <1>8 DEF RecvCloses, SendFails, Excepter, Conns, conn, TypeOK
  <2> QED
    BY <1>a, <2>1 DEF OutputKept, Writable
<1>9. CASE HandleMessage
  <2>1. /\ UNCHANGED <<fdtab, pc, revs, cur, connections, tx, ctl>>
        /\ conn \in Conns
    BY <1>0, <1>9 DEF HandleMessage, DispatchOnce, netVars
  <2>2. /\ ready \subseteq ready'
        /\ \A f \in Fds : f # conn => outbuffer'[f] = outbuffer[f]
        /\ outbuffer'[conn] = outbuffer[conn] \/ (HasOut(conn) => conn \in ready')
    BY <1>0, <1>9 DEF HandleMessage, NetCal, EnableReadWrite, TypeOK
  <2> QED
    BY <1>a, <2>1, <2>2 DEF OutputKept, Writable, Conns, conn, HasOut
<1>10. CASE SendData
  <2>1. /\ UNCHANGED <<ctl, fdtab, ready, revs, cur, connections>>
        /\ pc' \in {"send", "rearm"} /\ pc = "send" /\ conn \in Conns
    BY <1>0, <1>10 DEF SendData, DispatchOnce
  <2>2. /\ \A k \in Clients : k # peer => tx'[k] = tx[k]
        /\ \A f \in Fds : f # conn => outbuffer'[f] = outbuffer[f]
    BY <1>0, <1>b, <1>10 DEF SendData, TypeOK
  <2>3. \A f \in Conns : f # conn => fdtab[f] # peer
    BY <1>0, <2>1 DEF TablesAgree, Watched, peer
  <2> QED
    BY <1>a, <2>1, <2>2, <2>3 DEF OutputKept, Writable, Conns, conn
<1>11. CASE Rearm
  <2>1. /\ UNCHANGED <<fdtab, revs, cur, connections, tx, ctl, outbuffer>>
        /\ ready \subseteq ready'
        /\ outbuffer[conn] # <<>> /\ HasOut(conn) => conn \in ready'
    BY <1>11 DEF Rearm, EnableReadWrite, netVars
  <2> QED
    BY <1>a, <2>1 DEF OutputKept, Writable, Conns, conn, HasOut
<1>12. CASE \/ EndLoop \/ AcceptEnds \/ RecvData \/ RecvAgain \/ HandleDone \/ NetCalTraps
            \/ SendAgain \/ RearmDeleted
  <2>1. /\ UNCHANGED <<fdtab, ready, revs, cur, connections, tx, ctl, outbuffer>>
        /\ pc = "accept" => conn \notin Conns
    BY <1>0, <1>12
    DEF EndLoop, AcceptEnds, RecvData, RecvAgain, HandleDone, NetCalTraps, SendAgain,
        RearmDeleted, netVars, DispatchOnce, Conns
  <2> QED
    BY <1>12, <2>1
    DEF EndLoop, AcceptEnds, RecvData, RecvAgain, HandleDone, NetCalTraps, SendAgain,
        RearmDeleted, OutputKept, Writable, Conns, conn
<1>13. ASSUME NEW k \in Clients, Connect(k) PROVE OutputKept'
  BY <1>1, <1>13 DEF Connect, NetConnect
<1>14. CASE UNCHANGED vars
  BY <1>1, <1>14 DEF vars, netVars, serverVars
<1> QED
  BY <1>2, <1>3, <1>4, <1>5, <1>6, <1>7, <1>8, <1>9, <1>10, <1>11, <1>12,
     <1>13, <1>14
  DEF Next, Server, Dispatch, Accepter, Recver, Sender, WaitTimeout

(* The listening socket.  Accepter accepts until nobody waits, unless the  *)
(* descriptors run out.                                                    *)
LEMMA NextBacklogKept ==
  ReactorInv /\ BacklogKept /\ InputArmed /\ [Next]_vars => BacklogKept'
<1> SUFFICES ASSUME ReactorInv, BacklogKept, InputArmed, [Next]_vars PROVE BacklogKept'
  OBVIOUS
<1> USE FdFacts
<1>0. TypeOK /\ TablesAgree /\ DispatchOnce
  BY DEF ReactorInv
<1>1. CASE /\ UNCHANGED <<backlog, revs, refused, leaked>> /\ pc # "accept"
           /\ Listen \in ready => Listen \in ready'
  BY <1>1 DEF BacklogKept
<1>2. ASSUME NEW k \in Clients, Connect(k) PROVE BacklogKept'
  <2>1. Listen \in Watched \cup leaked
    BY <1>0 DEF TablesAgree
  <2> QED
    BY <1>2, <2>1 DEF Connect, BacklogKept, InputArmed
<1>3. ASSUME NEW k \in Clients, ClientInput(k) \/ ClientRead(k) PROVE BacklogKept'
  BY <1>3
  DEF ClientInput, ClientRead, NetSend, NetFin, NetReset, NetRead, BacklogKept
<1>4. CASE WaitEpoll
  <2>1. UNCHANGED <<backlog, refused, leaked>> /\ pc = "wait" /\ revs = {}
    BY <1>0, <1>4 DEF WaitEpoll, netVars, DispatchOnce
  <2>2. backlog # <<>> /\ ~refused /\ Listen \notin leaked
          => /\ Listen \in ready /\ HasIn(Listen) /\ "IN" \in interest[Listen]
    BY <1>0, <2>1 DEF BacklogKept, HasIn, InputArmed, TablesAgree, Watched
  <2> QED
    BY <1>4, <2>1, <2>2, WaitReports DEF BacklogKept
<1>5. CASE DispatchIn
  <2>1. PICK e \in revs :
          /\ revs' = revs \ {e}
          /\ pc' = IF ~e.in \/ e.fd \notin connections THEN "out"
                   ELSE IF e.fd = Listen THEN "accept" ELSE "recv"
    BY <1>5 DEF DispatchIn
  <2>2. UNCHANGED <<backlog, ready, refused, leaked>> /\ pc = "dispatch"
    BY <1>5 DEF DispatchIn, netVars
  <2> QED
    BY <1>0, <2>1, <2>2 DEF BacklogKept, TablesAgree, Watched
<1>6. CASE Accept \/ AcceptEnds
  BY <1>6 DEF Accept, AcceptEnds, BacklogKept, netVars
<1>7. CASE RecvCloses \/ SendFails
  <2>1. /\ UNCHANGED <<backlog, revs, refused, leaked>> /\ pc # "accept"
        /\ ready' = ready \ {conn} /\ conn # Listen
    BY <1>0, <1>7 DEF RecvCloses, SendFails, Excepter, DispatchOnce, Conns
  <2> QED
    BY <1>1, <2>1
<1>8. CASE \/ DispatchOut \/ EndLoop \/ RecvData \/ RecvAgain \/ HandleMessage
           \/ HandleDone \/ NetCalTraps \/ SendData \/ SendAgain \/ Rearm \/ RearmDeleted
  BY <1>1, <1>8
  DEF DispatchOut, EndLoop, RecvData, RecvAgain, HandleMessage, NetCal, HandleDone, NetCalTraps,
      SendData, SendAgain, Rearm, RearmDeleted, EnableReadWrite, netVars
<1>9. CASE UNCHANGED vars
  BY <1>9 DEF vars, netVars, serverVars, BacklogKept
<1> QED
  BY <1>2, <1>3, <1>4, <1>5, <1>6, <1>7, <1>8, <1>9
  DEF Next, Server, Dispatch, Accepter, Recver, Sender, WaitTimeout

LEMMA KeptInvariance == Spec => [](ReactorInv /\ RequestsInHand /\ EdgesKept)
<1> DEFINE Inv == ReactorInv /\ RequestsInHand /\ EdgesKept
<1>1. Inv /\ [Next]_vars => Inv'
  BY NextTypeOK, NextTables, NextArmed, NextRequests, NextInputArmed,
     NextInputKept, NextOutputKept, NextBacklogKept
  DEF ReactorInv, Tables, Armed, EdgesKept
<1>2. Init => Inv
  BY InitInv, InitKept
<1> QED
  BY <1>1, <1>2, PTL DEF Spec

(* Edge triggering loses nothing, whoever sends, reads, resets or connects *)
(* between any two calls of the server: when the server sleeps, whatever   *)
(* it still has to do is on the ready list.                                *)
THEOREM NoEdgeLost == Spec => []NoLostEdge
<1>1. ReactorInv /\ EdgesKept => NoLostEdge
  BY DEF ReactorInv, EdgesKept, InputKept, OutputKept, BacklogKept, DispatchOnce,
         NoLostEdge, Live
<1> QED
  BY <1>1, KeptInvariance, PTL

(* However requests were cut and joined on their way, none that is         *)
(* complete stays in a buffer while the server sleeps.                     *)
THEOREM NothingParked == Spec => []NoRequestParked
<1>1. RequestsInHand => NoRequestParked
  BY DEF RequestsInHand, NoRequestParked
<1> QED
  BY <1>1, KeptInvariance, PTL
-----------------------------------------------------------------------------
(* Induction over Nat, for a set instead of a predicate: a set that misses *)
(* a number misses a least one.                                            *)
LEMMA SetInduction ==
  ASSUME NEW T, 0 \in T, \A n \in Nat : n \in T => n + 1 \in T
  PROVE  Nat \subseteq T
<1> DEFINE Less == OpToRel(<, Nat)
           Missing == Nat \ T
<1>1. IsWellFoundedOn(Less, Nat)
  BY NatLessThanWellFounded, Zenon
<1>2. Less = {pair \in Nat \X Nat : pair[1] < pair[2]}
  BY Zenon DEF OpToRel
<1> HIDE DEF Less
<1> SUFFICES ASSUME Missing # {} PROVE FALSE
  OBVIOUS
<1>3. PICK m \in Missing : \A n \in Missing : ~(<<n, m>> \in Less)
  <2> HIDE DEF Missing
  <2>1. Missing \subseteq Nat
    BY DEF Missing
  <2> QED
    BY <1>1, <2>1, WFMin, Zenon
<1>4. \A n \in Missing : ~(n < m)
  BY <1>2, <1>3
<1>5. m \in Nat /\ m \notin T
  OBVIOUS
<1>6. m # 0 /\ m - 1 \in Nat /\ (m - 1) + 1 = m
  BY <1>5
<1>7. m - 1 \notin T
  BY <1>5, <1>6
<1> QED
  BY <1>4, <1>6, <1>7

(* One symbol of a stream adds a reply or none.                            *)
Extend(replies, symbol) == IF symbol > 0 THEN Append(replies, symbol) ELSE replies

LEMMA ExtendType ==
  ASSUME NEW r \in Seq(Int), NEW x \in Int
  PROVE  Extend(r, x) \in Seq(Int)
BY AppendProperties DEF Extend

(* What Replies computes, as a function of the length of a prefix.         *)
RepliesOf(f, s, m) ==
  /\ f \in [0..m -> Seq(Int)]
  /\ f[0] = <<>>
  /\ \A n \in 1..m : f[n] = Extend(f[n - 1], s[n])

LEMMA RepliesExist ==
  ASSUME NEW s \in Seq(Int)
  PROVE  \E f : RepliesOf(f, s, Len(s))
<1> DEFINE T == {n \in Nat : n <= Len(s) => \E f : RepliesOf(f, s, n)}
<1>0. Len(s) \in Nat /\ \A i \in 1..Len(s) : s[i] \in Int
  BY LenProperties, ElementOfSeq
<1>1. 0 \in T
  <2>1. RepliesOf([i \in 0..0 |-> <<>>], s, 0)
    BY EmptySeq DEF RepliesOf
  <2> QED
    BY <2>1
<1>2. ASSUME NEW n \in Nat, n \in T PROVE n + 1 \in T
  <2> SUFFICES ASSUME n + 1 <= Len(s) PROVE \E f : RepliesOf(f, s, n + 1)
    OBVIOUS
  <2>1. PICK f : RepliesOf(f, s, n)
    BY <1>0, <1>2
  <2> DEFINE x == Extend(f[n], s[n + 1])
             g == [i \in 0..(n + 1) |-> IF i = n + 1 THEN x ELSE f[i]]
  <2>2. x \in Seq(Int)
    <3>1. n \in 0..n /\ n + 1 \in 1..Len(s)
      BY <1>0
    <3>2. f[n] \in Seq(Int) /\ s[n + 1] \in Int
      BY <1>0, <2>1, <3>1 DEF RepliesOf
    <3> QED
      BY <3>2, ExtendType
  <2>3. f \in [0..n -> Seq(Int)] /\ f[0] = <<>>
        /\ \A i \in 1..n : f[i] = Extend(f[i - 1], s[i])
    BY <2>1 DEF RepliesOf
  <2> HIDE DEF x
  <2>4. g \in [0..(n + 1) -> Seq(Int)] /\ g[0] = <<>>
    BY <2>2, <2>3
  <2>5. \A i \in 1..(n + 1) : g[i] = Extend(g[i - 1], s[i])
    <3> SUFFICES ASSUME NEW i \in 1..(n + 1) PROVE g[i] = Extend(g[i - 1], s[i])
      OBVIOUS
    <3>1. g[i - 1] = f[i - 1]
      OBVIOUS
    <3>2. CASE i = n + 1
      <4>1. g[i] = x /\ i - 1 = n
        BY <3>2
      <4> QED
        BY <3>1, <3>2, <4>1 DEF x
    <3>3. CASE i \in 1..n
      <4>1. g[i] = f[i]
        BY <3>3
      <4>2. f[i] = Extend(f[i - 1], s[i])
        BY <2>3, <3>3
      <4> QED
        BY <3>1, <4>1, <4>2
    <3> QED
      BY <3>2, <3>3
  <2> HIDE DEF g
  <2>6. RepliesOf(g, s, n + 1)
    BY <2>4, <2>5 DEF RepliesOf
  <2> QED
    BY <2>6
<1> HIDE DEF T
<1>3. Len(s) \in T
  BY <1>0, <1>1, <1>2, SetInduction
<1> QED
  BY <1>0, <1>3 DEF T

LEMMA RepliesUnique ==
  ASSUME NEW s \in Seq(Int), NEW f, RepliesOf(f, s, Len(s))
  PROVE  Replies(s) = f[Len(s)]
<1> DEFINE Body(g) == [n \in 0..Len(s) |->
                         IF n = 0 THEN <<>>
                         ELSE IF s[n] > 0 THEN Append(g[n - 1], s[n]) ELSE g[n - 1]]
           h == CHOOSE g : g = Body(g)
<1>0. Len(s) \in Nat
  BY LenProperties
<1>1. Replies(s) = h[Len(s)]
  BY DEF Replies
<1>1a. \A g : \A n \in 0..Len(s) :
         Body(g)[n] = IF n = 0 THEN <<>> ELSE Extend(g[n - 1], s[n])
  BY DEF Extend
<1>1b. \A g : \A n \in 0..Len(s) : DOMAIN Body(g) = 0..Len(s)
  OBVIOUS
<1>2. f = Body(f)
  <2>1. f \in [0..Len(s) -> Seq(Int)] /\ f[0] = <<>>
        /\ \A n \in 1..Len(s) : f[n] = Extend(f[n - 1], s[n])
    BY DEF RepliesOf
  <2>2. \A n \in 0..Len(s) : f[n] = Body(f)[n]
    <3> TAKE n \in 0..Len(s)
    <3>1. CASE n = 0
      BY <1>1a, <2>1, <3>1
    <3>2. CASE n \in 1..Len(s)
      <4>1. Body(f)[n] = Extend(f[n - 1], s[n])
        BY <1>0, <1>1a, <3>2
      <4> QED
        BY <2>1, <3>2, <4>1
    <3> QED
      BY <1>0, <3>1, <3>2
  <2> QED
    BY <2>1, <2>2
<1> HIDE DEF Body
<1>3. h = Body(h)
  BY <1>2
<1> HIDE DEF h
<1> DEFINE T == {n \in Nat : n <= Len(s) => h[n] = f[n]}
<1>4. 0 \in T
  BY <1>0, <1>1a, <1>3 DEF RepliesOf
<1>5. ASSUME NEW n \in Nat, n \in T PROVE n + 1 \in T
  <2> SUFFICES ASSUME n + 1 <= Len(s) PROVE h[n + 1] = f[n + 1]
    OBVIOUS
  <2>1. h[n] = f[n] /\ n + 1 \in 1..Len(s) /\ n + 1 \in 0..Len(s)
        /\ n + 1 # 0 /\ (n + 1) - 1 = n
    BY <1>0, <1>5
  <2>2. Body(h)[n + 1] = Extend(h[n], s[n + 1])
    BY <1>1a, <2>1
  <2>3. f[n + 1] = Extend(f[n], s[n + 1])
    BY <2>1 DEF RepliesOf
  <2> QED
    BY <1>3, <2>1, <2>2, <2>3
<1> HIDE DEF T
<1>6. Len(s) \in T
  BY <1>0, <1>4, <1>5, SetInduction
<1> QED
  BY <1>0, <1>1, <1>6 DEF T

(* Replies, one symbol at a time.                                          *)
LEMMA RepliesStep ==
  ASSUME NEW s \in Seq(Int)
  PROVE  /\ Replies(SubSeq(s, 1, 0)) = <<>>
         /\ \A n \in 0..Len(s) : Replies(SubSeq(s, 1, n)) \in Seq(Int)
         /\ \A n \in 1..Len(s) :
              Replies(SubSeq(s, 1, n)) = Extend(Replies(SubSeq(s, 1, n - 1)), s[n])
<1>0. Len(s) \in Nat /\ \A i \in 1..Len(s) : s[i] \in Int
  BY LenProperties, ElementOfSeq
<1>1. PICK f : RepliesOf(f, s, Len(s))
  BY RepliesExist
<1>1a. f \in [0..Len(s) -> Seq(Int)] /\ f[0] = <<>>
      /\ \A n \in 1..Len(s) : f[n] = Extend(f[n - 1], s[n])
  BY <1>1 DEF RepliesOf
<1>2. \A n \in 0..Len(s) : Replies(SubSeq(s, 1, n)) = f[n]
  <2> TAKE n \in 0..Len(s)
  <2> DEFINE t == SubSeq(s, 1, n)
             g == [i \in 0..n |-> f[i]]
  <2>1. t \in Seq(Int) /\ Len(t) = n /\ \A i \in 1..n : t[i] = s[i]
    BY <1>0, SubSeqProperties
  <2> HIDE DEF t
  <2>3. g \in [0..n -> Seq(Int)] /\ g[0] = <<>> /\ g[n] = f[n]
    BY <1>0, <1>1a
  <2>4. \A i \in 1..n : g[i] = Extend(g[i - 1], t[i])
    <3> TAKE i \in 1..n
    <3>1. g[i] = f[i] /\ g[i - 1] = f[i - 1] /\ t[i] = s[i] /\ i \in 1..Len(s)
      BY <1>0, <2>1
    <3> QED
      BY <1>1a, <3>1
  <2> HIDE DEF g
  <2>5. RepliesOf(g, t, Len(t))
    BY <2>1, <2>3, <2>4 DEF RepliesOf
  <2>6. Replies(t) = g[n]
    BY <2>1, <2>5, RepliesUnique
  <2> QED
    BY <2>3, <2>6 DEF t
<1>3. \A n \in 1..Len(s) : n \in 0..Len(s) /\ n - 1 \in 0..Len(s)
  BY <1>0
<1>4. Replies(SubSeq(s, 1, 0)) = <<>>
  BY <1>0, <1>1a, <1>2
<1>5. \A n \in 0..Len(s) : Replies(SubSeq(s, 1, n)) \in Seq(Int)
  BY <1>1a, <1>2
<1>6. ASSUME NEW n \in 1..Len(s)
      PROVE Replies(SubSeq(s, 1, n)) = Extend(Replies(SubSeq(s, 1, n - 1)), s[n])
  <2>1. n \in 0..Len(s) /\ n - 1 \in 0..Len(s)
    BY <1>3
  <2>2. Replies(SubSeq(s, 1, n)) = f[n] /\ Replies(SubSeq(s, 1, n - 1)) = f[n - 1]
    BY <1>2, <2>1
  <2> QED
    BY <1>1a, <2>2
<1> QED
  BY <1>4, <1>5, <1>6
-----------------------------------------------------------------------------
(* The requests of a stream are two symbols each.                          *)
Shaped(stream) ==
  \A i \in 1..Len(stream) : stream[i] = SEP <=> i % 2 = 0

StreamsShaped == \A k \in Clients : Shaped(sent[k])

(* Nothing has happened to a connection that was not accepted.             *)
Unaccepted ==
  \A k \in Clients : cl[k] \in {"new", "queued"} =>
    rx[k] = sent[k] /\ tx[k] = <<>> /\ got[k] = <<>>

(* One connection: its stream is what was handled, _inbuffer and what has  *)
(* not been received, in this order; whole requests were handled; and the  *)
(* replies to them are with the client, on their way or in _outbuffer.     *)
Flow(stream, unreceived, read, underway, inbuf, outbuf) ==
  LET taken == Len(stream) - Len(unreceived) - Len(inbuf)
  IN  /\ taken \in Nat /\ taken % 2 = 0
      /\ \A i \in 1..Len(inbuf) : inbuf[i] = stream[taken + i]
      /\ \A i \in 1..Len(unreceived) :
           unreceived[i] = stream[taken + Len(inbuf) + i]
      /\ read \o underway \o outbuf = Replies(SubSeq(stream, 1, taken))

FlowOf(f) ==
  Flow(sent[fdtab[f]], rx[fdtab[f]], got[fdtab[f]], tx[fdtab[f]],
       inbuffer[f], outbuffer[f])

FlowsKept == \A f \in Conns : FlowOf(f)

StreamsKept == StreamsShaped /\ Unaccepted /\ FlowsKept

(* A stream only grows, and a prefix of it stays what it was.              *)
LEMMA CutAppend ==
  ASSUME NEW s \in Seq(Int), NEW x \in Int, NEW n \in 0..Len(s)
  PROVE  SubSeq(Append(s, x), 1, n) = SubSeq(s, 1, n)
<1> DEFINE t == Append(s, x)
<1>1. Len(s) \in Nat /\ t \in Seq(Int) /\ Len(t) = Len(s) + 1
      /\ \A i \in 1..Len(s) : t[i] = s[i]
  BY LenProperties, AppendProperties
<1>2. \A i \in 1..n : s[i] \in Int /\ t[i] \in Int /\ t[i] = s[i]
  BY <1>1, ElementOfSeq
<1> HIDE DEF t
<1>3. /\ SubSeq(t, 1, n) \in Seq(Int) /\ SubSeq(s, 1, n) \in Seq(Int)
      /\ Len(SubSeq(t, 1, n)) = n /\ Len(SubSeq(s, 1, n)) = n
  BY <1>1, <1>2, SubSeqProperties
<1>4. \A i \in 1..n : SubSeq(t, 1, n)[i] = SubSeq(s, 1, n)[i]
  BY <1>1, <1>2, SubSeqProperties
<1>5. SubSeq(t, 1, n) = SubSeq(s, 1, n)
  BY <1>3, <1>4, SeqEqual
<1> QED
  BY <1>5 DEF t

(* Client k sends a symbol.                                                *)
LEMMA FlowSend ==
  ASSUME NEW s \in Seq(Int), NEW r \in Seq(Int), NEW g, NEW t,
         NEW ib \in Seq(Int), NEW ob, NEW x \in Int, Flow(s, r, g, t, ib, ob)
  PROVE  Flow(Append(s, x), Append(r, x), g, t, ib, ob)
<1> DEFINE ss == Append(s, x)
           rr == Append(r, x)
           taken == Len(s) - Len(r) - Len(ib)
<1>0. Len(s) \in Nat /\ Len(r) \in Nat /\ Len(ib) \in Nat
  BY LenProperties
<1>1. /\ Len(ss) = Len(s) + 1 /\ Len(rr) = Len(r) + 1
      /\ \A i \in 1..Len(s) : ss[i] = s[i]
      /\ \A i \in 1..Len(r) : rr[i] = r[i]
      /\ ss[Len(s) + 1] = x /\ rr[Len(r) + 1] = x
  BY AppendProperties
<1>2. /\ taken \in Nat /\ taken % 2 = 0
      /\ \A i \in 1..Len(ib) : ib[i] = s[taken + i]
      /\ \A i \in 1..Len(r) : r[i] = s[taken + Len(ib) + i]
      /\ g \o t \o ob = Replies(SubSeq(s, 1, taken))
  BY DEF Flow
<1>2a. taken \in Nat
  BY <1>2
<1>3. SubSeq(ss, 1, taken) = SubSeq(s, 1, taken)
  BY <1>0, <1>2, CutAppend
<1> HIDE DEF ss, rr
<1>4. Len(ss) - Len(rr) - Len(ib) = taken
  BY <1>0, <1>1
<1>5. \A i \in 1..Len(ib) : ib[i] = ss[taken + i]
  <2> TAKE i \in 1..Len(ib)
  <2>1. taken + i \in 1..Len(s)
    BY <1>0, <1>2a
  <2> QED
    BY <1>1, <1>2, <2>1
<1>6. \A i \in 1..Len(rr) : rr[i] = ss[taken + Len(ib) + i]
  <2> TAKE i \in 1..Len(rr)
  <2>1. CASE i \in 1..Len(r)
    <3>1. taken + Len(ib) + i \in 1..Len(s)
      BY <1>0, <1>2, <2>1
    <3> QED
      BY <1>1, <1>2, <2>1, <3>1
  <2>2. CASE i = Len(r) + 1
    <3>1. taken + Len(ib) + i = Len(s) + 1
      BY <1>0, <2>2
    <3> QED
      BY <1>1, <2>2, <3>1
  <2>3. i \in 1..Len(r) \/ i = Len(r) + 1
    BY <1>0, <1>1
  <2> QED
    BY <2>1, <2>2, <2>3
<1> HIDE DEF taken
<1>7. Flow(ss, rr, g, t, ib, ob)
  BY <1>2, <1>3, <1>4, <1>5, <1>6 DEF Flow
<1> QED
  BY <1>7 DEF ss, rr

(* Concatenating three sequences of symbols.                               *)
LEMMA ConcatThree ==
  ASSUME NEW a \in Seq(Int), NEW b \in Seq(Int), NEW c \in Seq(Int)
  PROVE  (a \o b) \o c = a \o (b \o c)
BY ConcatAssociative

(* Two sequences of replies that meet: the first of the second moves over. *)
LEMMA MoveHead ==
  ASSUME NEW g \in Seq(Int), NEW t \in Seq(Int), t # <<>>
  PROVE  Append(g, Head(t)) \o Tail(t) = g \o t
<1> DEFINE h == Head(t)
           rest == Tail(t)
<1>1. h \in Int /\ rest \in Seq(Int) /\ Len(rest) = Len(t) - 1
      /\ \A i \in 1..Len(rest) : rest[i] = t[i + 1]
  BY HeadTailProperties
<1>1a. h = t[1] /\ Len(t) \in Nat \ {0}
  BY EmptySeq
<1>2. Append(g, h) = g \o <<h>> /\ <<h>> \in Seq(Int)
  BY <1>1, AppendIsConcat
<1>3. <<h>> \o rest = t
  <2>1. SubSeq(t, 1, Len(t)) = <<t[1]>> \o SubSeq(t, 2, Len(t))
    BY <1>1a, SubSeqRecursiveFirst
  <2> QED
    BY <1>1a, <2>1, SubSeqFull, TailIsSubSeq
<1> HIDE DEF h, rest
<1>4. (g \o <<h>>) \o rest = g \o (<<h>> \o rest)
  BY <1>1, <1>2, ConcatAssociative
<1>5. Append(g, h) \o rest = g \o t
  BY <1>2, <1>3, <1>4
<1> QED
  BY <1>5 DEF h, rest

(* Its client reads a reply.                                               *)
LEMMA FlowRead ==
  ASSUME NEW s, NEW r, NEW g \in Seq(Int), NEW t \in Seq(Int), NEW ib, NEW ob,
         t # <<>>, Flow(s, r, g, t, ib, ob)
  PROVE  Flow(s, r, Append(g, Head(t)), Tail(t), ib, ob)
BY MoveHead DEF Flow

(* recv() moves what has arrived to _inbuffer.                             *)
LEMMA FlowRecv ==
  ASSUME NEW s \in Seq(Int), NEW r \in Seq(Int), NEW g, NEW t,
         NEW ib \in Seq(Int), NEW ob, Flow(s, r, g, t, ib, ob)
  PROVE  Flow(s, <<>>, g, t, ib \o r, ob)
<1> DEFINE b == ib \o r
           taken == Len(s) - Len(r) - Len(ib)
<1>0. Len(s) \in Nat /\ Len(r) \in Nat /\ Len(ib) \in Nat /\ Len(<<>>) = 0
  BY LenProperties, EmptySeq
<1>1. Len(b) = Len(ib) + Len(r)
      /\ \A i \in 1..(Len(ib) + Len(r)) :
           b[i] = IF i <= Len(ib) THEN ib[i] ELSE r[i - Len(ib)]
  BY ConcatProperties
<1>2. /\ taken \in Nat /\ taken % 2 = 0
      /\ \A i \in 1..Len(ib) : ib[i] = s[taken + i]
      /\ \A i \in 1..Len(r) : r[i] = s[taken + Len(ib) + i]
      /\ g \o t \o ob = Replies(SubSeq(s, 1, taken))
  BY DEF Flow
<1> HIDE DEF b
<1>3. Len(s) - Len(<<>>) - Len(b) = taken
  BY <1>0, <1>1
<1>4. \A i \in 1..Len(b) : b[i] = s[taken + i]
  <2> TAKE i \in 1..Len(b)
  <2>1. CASE i \in 1..Len(ib)
    BY <1>0, <1>1, <1>2, <2>1
  <2>2. CASE i - Len(ib) \in 1..Len(r)
    <3> DEFINE j == i - Len(ib)
    <3>1. r[j] = s[taken + Len(ib) + j]
      BY <1>2, <2>2
    <3>2. i \in 1..(Len(ib) + Len(r)) /\ ~(i <= Len(ib))
      BY <1>0, <1>1, <2>2
    <3>3. b[i] = r[j]
      BY <1>1, <3>2
    <3>4. taken + Len(ib) + j = taken + i
      BY <1>0, <3>2
    <3> QED
      BY <3>1, <3>3, <3>4
  <2> QED
    BY <1>0, <1>1, <2>1, <2>2
<1>5. \A i \in 1..Len(<<>>) : <<>>[i] = s[taken + Len(b) + i]
  BY <1>0
<1> HIDE DEF taken
<1>6. Flow(s, <<>>, g, t, b, ob)
  BY <1>2, <1>3, <1>4, <1>5 DEF Flow
<1> QED
  BY <1>6 DEF b

(* An accepted connection starts with empty buffers.                       *)
LEMMA FlowNew ==
  ASSUME NEW s \in Seq(Int)
  PROVE  Flow(s, s, <<>>, <<>>, <<>>, <<>>)
<1>0. Len(s) \in Nat /\ Len(<<>>) = 0 /\ <<>> \in Seq(Int)
  BY LenProperties, EmptySeq
<1>1. Len(s) - Len(s) - Len(<<>>) = 0
  <2> DEFINE n == Len(s)
             z == Len(<<>>)
  <2>1. n \in Nat /\ z = 0
    BY <1>0
  <2> HIDE DEF n, z
  <2>2. n - n - z = 0
    BY <2>1
  <2> QED
    BY <2>2 DEF n, z
<1>2. <<>> \o <<>> \o <<>> = <<>>
  BY <1>0, ConcatEmptySeq
<1>3. Replies(SubSeq(s, 1, 0)) = <<>>
  BY RepliesStep
<1>4. \A i \in 1..Len(s) : s[i] = s[0 + Len(<<>>) + i]
  BY <1>0
<1> QED
  BY <1>0, <1>1, <1>2, <1>3, <1>4 DEF Flow

(* A reply is put at the end of _outbuffer.                                *)
LEMMA ConcatAppend ==
  ASSUME NEW a \in Seq(Int), NEW b \in Seq(Int), NEW x \in Int
  PROVE  a \o Append(b, x) = Append(a \o b, x)
<1>1. Append(b, x) = b \o <<x>> /\ <<x>> \in Seq(Int)
  BY AppendIsConcat
<1>2. a \o b \in Seq(Int)
  BY ConcatProperties
<1>3. Append(a \o b, x) = (a \o b) \o <<x>>
  BY <1>2, AppendIsConcat
<1>4. (a \o b) \o <<x>> = a \o (b \o <<x>>)
  BY <1>1, ConcatAssociative
<1> QED
  BY <1>1, <1>3, <1>4

LEMMA NotEmpty ==
  ASSUME NEW s \in Seq(Int), Len(s) = 1
  PROVE  s # <<>>
BY EmptySeq

LEMMA EvenNext ==
  ASSUME NEW n \in Nat, n % 2 = 0
  PROVE  (n + 1) % 2 = 1 /\ (n + 2) % 2 = 0
OBVIOUS

(* SpliteMessage finds the separator behind one symbol, and the message it *)
(* cuts off is the next request of the stream.                             *)
LEMMA FlowHandle ==
  ASSUME NEW s \in Seq(Int), NEW r \in Seq(Int), NEW g \in Seq(Int),
         NEW t \in Seq(Int), NEW ib \in Seq(Int), NEW ob \in Seq(Int),
         NEW i, FirstSep(ib, i), Shaped(s), Flow(s, r, g, t, ib, ob)
  PROVE  LET m == SubSeq(ib, 1, i - 1)
         IN  Flow(s, r, g, t, SubSeq(ib, i + 1, Len(ib)),
                  IF Deserialized(m) THEN Append(ob, m[1]) ELSE ob)
<1> DEFINE taken == Len(s) - Len(r) - Len(ib)
           m == SubSeq(ib, 1, i - 1)
           rest == SubSeq(ib, i + 1, Len(ib))
           out == IF Deserialized(m) THEN Append(ob, m[1]) ELSE ob
<1>0. Len(s) \in Nat /\ Len(r) \in Nat /\ Len(ib) \in Nat
      /\ DOMAIN ib = 1..Len(ib)
  BY LenProperties
<1>0a. \A j \in 1..Len(ib) : ib[j] \in Int
  BY ElementOfSeq
<1>1. /\ taken \in Nat /\ taken % 2 = 0
      /\ \A j \in 1..Len(ib) : ib[j] = s[taken + j]
      /\ \A j \in 1..Len(r) : r[j] = s[taken + Len(ib) + j]
      /\ g \o t \o ob = Replies(SubSeq(s, 1, taken))
  BY DEF Flow
<1>2. i \in 1..Len(ib) /\ ib[i] = SEP /\ \A j \in 1..(i - 1) : ib[j] # SEP
  BY <1>0 DEF FirstSep
<1>1a. taken \in Nat /\ taken % 2 = 0
  BY <1>1
<1>3. \A j \in 1..Len(ib) : taken + j \in 1..Len(s)
  <2>1. taken \in Nat
    BY <1>1a
  <2> QED
    BY <1>0, <2>1
<1> HIDE DEF taken
<1>3a. taken \in Nat /\ (taken + 1) % 2 = 1 /\ (taken + 2) % 2 = 0
  BY <1>1a, EvenNext
<1>4. ib[1] # SEP
  <2>1. 1 \in 1..Len(ib) /\ taken + 1 \in 1..Len(s)
    BY <1>0, <1>2, <1>3
  <2>2. s[taken + 1] # SEP
    BY <1>3a, <2>1 DEF Shaped
  <2> QED
    BY <1>1, <2>1, <2>2
<1>5. i = 2 /\ 2 \in 1..Len(ib)
  <2>1. i # 1
    BY <1>2, <1>4
  <2>2. 2 \in 1..Len(ib) /\ taken + 2 \in 1..Len(s)
    BY <1>0, <1>2, <1>3, <2>1
  <2>3. s[taken + 2] = SEP
    BY <1>3a, <2>2 DEF Shaped
  <2>4. ib[2] = SEP
    BY <1>1, <2>2, <2>3
  <2>5. ~(2 \in 1..(i - 1))
    BY <1>2, <2>4
  <2> QED
    BY <1>0, <1>2, <2>1, <2>2, <2>5
<1>6. rest \in Seq(Int) /\ Len(rest) = Len(ib) - 2
      /\ \A j \in 1..(Len(ib) - 2) : rest[j] = ib[j + 2]
  <2>1. i \in 0..Len(ib)
    BY <1>2
  <2>2. rest \in Seq(Int) /\ Len(rest) = Len(ib) - i
    BY <2>1, CutSeq
  <2>3. i + 1 \in Int /\ Len(ib) \in Int /\ \A j \in (i + 1)..Len(ib) : ib[j] \in Int
    BY <1>0, <1>0a, <1>2
  <2>4. \A j \in 1..(Len(ib) - (i + 1) + 1) : rest[j] = ib[(i + 1) + j - 1]
    BY <2>3, SubSeqProperties
  <2> HIDE DEF rest
  <2>5. ASSUME NEW j \in 1..(Len(ib) - 2) PROVE rest[j] = ib[j + 2]
    <3>1. j \in 1..(Len(ib) - (i + 1) + 1) /\ (i + 1) + j - 1 = j + 2
      BY <1>0, <1>5
    <3> QED
      BY <2>4, <3>1
  <2> QED
    BY <1>5, <2>2, <2>5
<1>7. m \in Seq(Int) /\ m[1] = ib[1] /\ m # <<>>
  <2>1. i - 1 \in 0..Len(ib)
    BY <1>0, <1>2
  <2>2. m \in Seq(Int) /\ Len(m) = i - 1
    BY <2>1, CutSeq
  <2>3. m[1] = ib[1]
    BY <1>0, <1>0a, <1>5, SubSeqProperties
  <2> HIDE DEF m
  <2>4. Len(m) = 1
    BY <1>5, <2>2
  <2>5. m # <<>>
    BY <2>2, <2>4, NotEmpty
  <2> QED
    BY <2>2, <2>3, <2>5
<1> DEFINE x == ib[1]
           done == Replies(SubSeq(s, 1, taken))
<1>8. out = Extend(ob, x)
  BY <1>7 DEF Deserialized, Extend
<1> HIDE DEF rest, m, out
<1>9. Len(s) - Len(r) - Len(rest) = taken + 2
  BY <1>0, <1>6 DEF taken
<1>10. \A j \in 1..Len(rest) : rest[j] = s[(taken + 2) + j]
  <2> TAKE j \in 1..Len(rest)
  <2>1. j + 2 \in 1..Len(ib) /\ j \in 1..(Len(ib) - 2)
    BY <1>0, <1>6
  <2>2. rest[j] = ib[j + 2] /\ ib[j + 2] = s[taken + (j + 2)]
    BY <1>1, <1>6, <2>1
  <2>3. taken + (j + 2) = (taken + 2) + j
    BY <1>3a, <2>1
  <2> QED
    BY <2>2, <2>3
<1>11. \A j \in 1..Len(r) : r[j] = s[(taken + 2) + Len(rest) + j]
  <2> TAKE j \in 1..Len(r)
  <2>1. (taken + 2) + Len(rest) + j = taken + Len(ib) + j
    BY <1>0, <1>3a, <1>6
  <2> QED
    BY <1>1, <2>1
<1>12. Replies(SubSeq(s, 1, taken + 2)) = Extend(done, x)
  <2>1. taken + 1 \in 1..Len(s) /\ taken + 2 \in 1..Len(s)
        /\ (taken + 1) - 1 = taken /\ (taken + 2) - 1 = taken + 1
    BY <1>0, <1>3, <1>3a, <1>5
  <2>2. Replies(SubSeq(s, 1, taken + 2))
          = Extend(Replies(SubSeq(s, 1, taken + 1)), s[taken + 2])
    BY <2>1, RepliesStep
  <2>3. Replies(SubSeq(s, 1, taken + 1)) = Extend(done, s[taken + 1])
    BY <2>1, RepliesStep
  <2>4. s[taken + 2] = SEP
    BY <1>3a, <2>1 DEF Shaped
  <2>5. s[taken + 1] = x
    BY <1>0, <1>1, <1>5
  <2>6. \A w : Extend(w, SEP) = w
    BY DEF Extend, SEP
  <2> QED
    BY <2>2, <2>3, <2>4, <2>5, <2>6
<1>13. g \o t \o out = Extend(done, x)
  <2>1. g \o t \in Seq(Int) /\ x \in Int
    BY <1>0, <1>0a, <1>5, ConcatProperties
  <2>2. CASE x > 0
    <3>1. out = Append(ob, x) /\ Extend(done, x) = Append(done, x)
      BY <1>8, <2>2 DEF Extend
    <3>2. (g \o t) \o Append(ob, x) = Append((g \o t) \o ob, x)
      BY <2>1, ConcatAppend
    <3> QED
      BY <1>1, <3>1, <3>2
  <2>3. CASE ~(x > 0)
    BY <1>1, <1>8, <2>3 DEF Extend
  <2> QED
    BY <2>2, <2>3
<1>14. taken + 2 \in Nat /\ (taken + 2) % 2 = 0
  BY <1>3a
<1>15. Flow(s, r, g, t, rest, out)
  BY <1>9, <1>10, <1>11, <1>12, <1>13, <1>14 DEF Flow
<1> QED
  BY <1>15 DEF rest, out, m

(* send() moves the first replies of _outbuffer to the client.            *)
LEMMA FlowMove ==
  ASSUME NEW s, NEW r, NEW g \in Seq(Int), NEW t \in Seq(Int), NEW ib,
         NEW a \in Seq(Int), NEW b \in Seq(Int), Flow(s, r, g, t, ib, a \o b)
  PROVE  Flow(s, r, g, t \o a, ib, b)
<1>1. g \o t \in Seq(Int)
  BY ConcatProperties
<1>2. (g \o t) \o a = g \o (t \o a)
  BY ConcatThree
<1>3. ((g \o t) \o a) \o b = (g \o t) \o (a \o b)
  BY <1>1, ConcatThree
<1>4. (g \o (t \o a)) \o b = (g \o t) \o (a \o b)
  BY <1>2, <1>3
<1> QED
  BY <1>4 DEF Flow

LEMMA FlowSendData ==
  ASSUME NEW s, NEW r, NEW g \in Seq(Int), NEW t \in Seq(Int), NEW ib,
         NEW ob \in Seq(Int), NEW n \in 0..Len(ob), Flow(s, r, g, t, ib, ob)
  PROVE  Flow(s, r, g, t \o SubSeq(ob, 1, n), ib, SubSeq(ob, n + 1, Len(ob)))
<1>0. Len(ob) \in Nat
  BY LenProperties
<1>1. SubSeq(ob, 1, n) \in Seq(Int) /\ SubSeq(ob, n + 1, Len(ob)) \in Seq(Int)
  BY CutSeq
<1>2. SubSeq(ob, 1, n) \o SubSeq(ob, n + 1, Len(ob)) = ob
  <2>1. 1 \in 1..(Len(ob) + 1) /\ n \in (1 - 1)..Len(ob) /\ Len(ob) \in n..Len(ob)
    BY <1>0
  <2> QED
    BY <2>1, ConcatAdjacentSubSeq, SubSeqFull
<1> QED
  BY <1>1, <1>2, FlowMove

(* The replies to a prefix of a stream are a prefix of the replies to it.  *)
IsPrefixOf(a, b) == Len(a) <= Len(b) /\ a = SubSeq(b, 1, Len(a))

LEMMA PrefixExtends ==
  ASSUME NEW a \in Seq(Int), NEW b \in Seq(Int), NEW x \in Int, IsPrefixOf(a, b)
  PROVE  IsPrefixOf(a, Extend(b, x))
<1>1. Len(a) \in Nat /\ Len(b) \in Nat /\ Len(a) \in 0..Len(b)
  BY LenProperties DEF IsPrefixOf
<1>2. Len(Append(b, x)) = Len(b) + 1
  BY AppendProperties
<1>3. SubSeq(Append(b, x), 1, Len(a)) = SubSeq(b, 1, Len(a))
  BY <1>1, CutAppend
<1>4. IsPrefixOf(a, Append(b, x))
  BY <1>1, <1>2, <1>3 DEF IsPrefixOf
<1> QED
  BY <1>4 DEF Extend

LEMMA PrefixShorter ==
  ASSUME NEW a \in Seq(Int), NEW b \in Seq(Int), NEW c \in Seq(Int),
         IsPrefixOf(a \o b, c)
  PROVE  IsPrefixOf(a, c)
<1> DEFINE ab == a \o b
<1>0. Len(a) \in Nat /\ Len(b) \in Nat /\ Len(c) \in Nat
  BY LenProperties
<1>1. ab \in Seq(Int) /\ Len(ab) = Len(a) + Len(b)
      /\ \A i \in 1..(Len(a) + Len(b)) : ab[i] = IF i <= Len(a) THEN a[i] ELSE b[i - Len(a)]
  BY ConcatProperties
<1>2. Len(ab) <= Len(c) /\ ab = SubSeq(c, 1, Len(ab))
  BY DEF IsPrefixOf
<1> HIDE DEF ab
<1>3. Len(a) <= Len(c) /\ Len(a) \in 0..Len(c)
  BY <1>0, <1>1, <1>2
<1>4. \A i \in 1..Len(c) : c[i] \in Int
  BY ElementOfSeq
<1>5. \A i \in 1..Len(ab) : ab[i] = c[i]
  <2>1. 1 \in Int /\ Len(ab) \in Int /\ (\A i \in 1..Len(ab) : c[i] \in Int)
    BY <1>0, <1>1, <1>2, <1>4
  <2>2. \A i \in 1..(Len(ab) - 1 + 1) : SubSeq(c, 1, Len(ab))[i] = c[1 + i - 1]
    BY <2>1, SubSeqProperties
  <2> TAKE i \in 1..Len(ab)
  <2>3. i \in 1..(Len(ab) - 1 + 1) /\ 1 + i - 1 = i
    BY <1>0, <1>1
  <2> QED
    BY <1>2, <2>2, <2>3
<1>6. SubSeq(c, 1, Len(a)) \in Seq(Int) /\ Len(SubSeq(c, 1, Len(a))) = Len(a)
  BY <1>3, CutSeq
<1>7. \A i \in 1..Len(a) : a[i] = SubSeq(c, 1, Len(a))[i]
  <2>1. 1 \in Int /\ Len(a) \in Int /\ (\A i \in 1..Len(a) : c[i] \in Int)
    BY <1>0, <1>3, <1>4
  <2>2. \A i \in 1..(Len(a) - 1 + 1) : SubSeq(c, 1, Len(a))[i] = c[1 + i - 1]
    BY <2>1, SubSeqProperties
  <2> TAKE i \in 1..Len(a)
  <2>3. i \in 1..(Len(a) - 1 + 1) /\ 1 + i - 1 = i /\ i \in 1..Len(ab) /\ i <= Len(a)
        /\ i \in 1..(Len(a) + Len(b))
    BY <1>0, <1>1
  <2>4. ab[i] = a[i] /\ ab[i] = c[i]
    BY <1>1, <1>5, <2>3
  <2> QED
    BY <2>2, <2>3, <2>4
<1>8. a = SubSeq(c, 1, Len(a))
  BY <1>6, <1>7, SeqEqual
<1> QED
  BY <1>3, <1>8 DEF IsPrefixOf

LEMMA RepliesPrefix ==
  ASSUME NEW s \in Seq(Int), NEW m \in 0..Len(s), NEW n \in m..Len(s)
  PROVE  IsPrefixOf(Replies(SubSeq(s, 1, m)), Replies(SubSeq(s, 1, n)))
<1> DEFINE R(i) == Replies(SubSeq(s, 1, i))
           T == {d \in Nat : m + d <= Len(s) => IsPrefixOf(R(m), R(m + d))}
<1>0. Len(s) \in Nat /\ (\A i \in 1..Len(s) : s[i] \in Int)
  BY LenProperties, ElementOfSeq
<1>1. /\ \A i \in 0..Len(s) : R(i) \in Seq(Int)
      /\ \A i \in 1..Len(s) : R(i) = Extend(R(i - 1), s[i])
  BY RepliesStep
<1> HIDE DEF R
<1>2. 0 \in T
  <2>1. R(m) \in Seq(Int) /\ Len(R(m)) \in Nat
    BY <1>1, LenProperties
  <2>2. R(m) = SubSeq(R(m), 1, Len(R(m)))
    BY <2>1, SubSeqFull
  <2>3. IsPrefixOf(R(m), R(m))
    BY <2>1, <2>2 DEF IsPrefixOf
  <2>4. m + 0 = m
    BY <1>0
  <2> QED
    BY <2>3, <2>4
<1>3. ASSUME NEW d \in Nat, d \in T PROVE d + 1 \in T
  <2> SUFFICES ASSUME m + (d + 1) <= Len(s) PROVE IsPrefixOf(R(m), R(m + (d + 1)))
    OBVIOUS
  <2>1. m + d <= Len(s) /\ m + d \in 0..Len(s) /\ m + (d + 1) \in 1..Len(s)
        /\ (m + (d + 1)) - 1 = m + d
    BY <1>0
  <2>2. IsPrefixOf(R(m), R(m + d))
    BY <1>3, <2>1
  <2>3. R(m + (d + 1)) = Extend(R(m + d), s[m + (d + 1)])
    BY <1>1, <2>1
  <2>4. R(m) \in Seq(Int) /\ R(m + d) \in Seq(Int) /\ s[m + (d + 1)] \in Int
    BY <1>0, <1>1, <2>1
  <2> QED
    BY <2>2, <2>3, <2>4, PrefixExtends
<1> HIDE DEF T
<1>4. n - m \in T
  <2>1. n - m \in Nat
    BY <1>0
  <2> QED
    BY <1>2, <1>3, <2>1, SetInduction
<1>5. IsPrefixOf(R(m), R(n))
  <2>1. m + (n - m) = n /\ m + (n - m) <= Len(s)
    BY <1>0
  <2> QED
    BY <1>4, <2>1 DEF T
<1> QED
  BY <1>5 DEF R

LEMMA EvenBelow ==
  ASSUME NEW n \in Nat, NEW m \in Nat, m % 2 = 0, m <= n
  PROVE  2 * (n \div 2) \in m..n
OBVIOUS

(* What a client has read and what is on its way to it answers its         *)
(* complete requests.                                                      *)
LEMMA FlowInOrder ==
  ASSUME NEW s \in Seq(Int), NEW r \in Seq(Int), NEW g \in Seq(Int),
         NEW t \in Seq(Int), NEW ib \in Seq(Int), NEW ob \in Seq(Int),
         Flow(s, r, g, t, ib, ob)
  PROVE  IsPrefixOf(g \o t, Replies(SubSeq(s, 1, 2 * (Len(s) \div 2))))
<1> DEFINE taken == Len(s) - Len(r) - Len(ib)
           whole == 2 * (Len(s) \div 2)
<1>0. Len(s) \in Nat /\ Len(r) \in Nat /\ Len(ib) \in Nat
  BY LenProperties
<1>1. taken \in Nat /\ taken % 2 = 0 /\ g \o t \o ob = Replies(SubSeq(s, 1, taken))
  BY DEF Flow
<1>2. taken <= Len(s)
  BY <1>0
<1> HIDE DEF taken
<1>3. whole \in 0..Len(s) /\ taken \in 0..Len(s) /\ whole \in taken..Len(s)
  BY <1>0, <1>1, <1>2, EvenBelow
<1>4. IsPrefixOf(g \o t \o ob, Replies(SubSeq(s, 1, whole)))
  BY <1>1, <1>3, RepliesPrefix
<1>5. g \o t \in Seq(Int) /\ Replies(SubSeq(s, 1, whole)) \in Seq(Int)
  BY <1>3, ConcatProperties, RepliesStep
<1> HIDE DEF whole
<1>6. IsPrefixOf(g \o t, Replies(SubSeq(s, 1, whole)))
  BY <1>4, <1>5, PrefixShorter
<1> QED
  BY <1>6 DEF whole
-----------------------------------------------------------------------------
LEMMA InitStreams == Init => StreamsKept /\ RepliesInOrder
<1> SUFFICES ASSUME Init PROVE StreamsKept /\ RepliesInOrder
  OBVIOUS
<1>0. \A k \in Clients : sent[k] = <<>> /\ rx[k] = <<>> /\ tx[k] = <<>>
                         /\ got[k] = <<>> /\ cl[k] = "new"
  BY DEF Init, NetInit
<1>1. Len(<<>>) = 0 /\ <<>> \in Seq(Int) /\ <<>> \o <<>> = <<>>
  BY EmptySeq, ConcatEmptySeq
<1>2. StreamsShaped
  BY <1>0, <1>1 DEF StreamsShaped, Shaped
<1>3. Unaccepted
  BY <1>0 DEF Unaccepted
<1>4. FlowsKept
  BY FdFacts DEF FlowsKept, Conns, Init
<1>5. RepliesInOrder
  <2> SUFFICES ASSUME NEW k \in Clients
      PROVE LET owed == Replies(SubSeq(sent[k], 1, 2 * (Len(sent[k]) \div 2)))
            IN  IsPrefixOf(got[k] \o tx[k], owed)
    BY DEF RepliesInOrder, IsPrefixOf
  <2>1. Flow(<<>>, <<>>, <<>>, <<>>, <<>>, <<>>)
    BY <1>1, FlowNew
  <2> QED
    BY <1>0, <1>1, <2>1, FlowInOrder
<1> QED
  BY <1>2, <1>3, <1>4, <1>5 DEF StreamsKept

LEMMA SymbolParity ==
  ASSUME NEW n \in Nat, NEW x,
         x \in IF n % 2 = 1 THEN {SEP} ELSE {n \div 2 + 1, -(n \div 2 + 1)}
  PROVE  x \in Int /\ (x = SEP <=> (n + 1) % 2 = 0)
<1> DEFINE q == n \div 2 + 1
<1>1. q \in Nat \ {0}
  OBVIOUS
<1>2. n % 2 = 1 \/ n % 2 = 0
  OBVIOUS
<1>3. n % 2 = 1 => (n + 1) % 2 = 0
  OBVIOUS
<1>4. n % 2 = 0 => (n + 1) % 2 = 1
  OBVIOUS
<1> HIDE DEF q
<1>5. x \in IF n % 2 = 1 THEN {SEP} ELSE {q, -q}
  BY DEF q
<1> QED
  BY <1>1, <1>2, <1>3, <1>4, <1>5 DEF SEP

(* Clients send payload and separator in turn.                             *)
LEMMA NextShaped == ReactorInv /\ StreamsShaped /\ [Next]_vars => StreamsShaped'
<1> SUFFICES ASSUME ReactorInv, StreamsShaped, [Next]_vars PROVE StreamsShaped'
  OBVIOUS
<1>0. TypeOK
  BY DEF ReactorInv
<1>1. CASE sent' = sent
  BY <1>1 DEF StreamsShaped
<1>2. ASSUME NEW k \in Clients, NetSend(k) PROVE StreamsShaped'
  <2>1. PICK x \in NextSymbols(k) : sent' = [sent EXCEPT ![k] = Append(@, x)]
    BY <1>2 DEF NetSend
  <2> DEFINE s == sent[k]
             n == Len(s)
  <2>2. s \in Seq(Int) /\ n \in Nat
    BY <1>0, LenProperties DEF TypeOK, NetTypeOK
  <2>3. x \in Int /\ (x = SEP <=> (n + 1) % 2 = 0)
    <3>1. x \in IF n % 2 = 1 THEN {SEP} ELSE {n \div 2 + 1, -(n \div 2 + 1)}
      BY <2>1, Zenon DEF NextSymbols
    <3> HIDE DEF n
    <3> QED
      BY <2>2, <3>1, SymbolParity
  <2> HIDE DEF s, n
  <2>4. Shaped(s)
    BY DEF StreamsShaped, s
  <2>5. Shaped(Append(s, x))
    <3>1. /\ Len(Append(s, x)) = n + 1 /\ Append(s, x)[n + 1] = x
          /\ \A i \in 1..n : Append(s, x)[i] = s[i]
      BY <2>2, <2>3, AppendProperties DEF n
    <3>2. \A i \in 1..(n + 1) : i \in 1..n \/ i = n + 1
      BY <2>2
    <3>3. \A i \in 1..n : s[i] = SEP <=> i % 2 = 0
      BY <2>4 DEF Shaped, n
    <3> QED
      BY <2>3, <3>1, <3>2, <3>3 DEF Shaped
  <2>6. \A j \in Clients : Shaped(sent[j]')
    BY <1>0, <2>1, <2>5 DEF StreamsShaped, TypeOK, NetTypeOK, s
  <2> QED
    BY <2>6 DEF StreamsShaped
<1>3. sent' = sent \/ \E k \in Clients : NetSend(k)
  BY DEF Next, Server, Dispatch, Accepter, Recver, Sender, vars, netVars,
    WaitEpoll, WaitTimeout, DispatchIn, DispatchOut, EndLoop, Accept, AcceptEnds,
    RecvData, RecvCloses, RecvAgain, HandleMessage, HandleDone, NetCalTraps, SendData,
    SendAgain, SendFails, Rearm, RearmDeleted, Connect, NetConnect, ClientInput,
    NetFin, NetReset, ClientRead, NetRead
<1> QED
  BY <1>1, <1>2, <1>3

LEMMA NextUnaccepted == ReactorInv /\ Unaccepted /\ [Next]_vars => Unaccepted'
<1> SUFFICES ASSUME ReactorInv, Unaccepted, [Next]_vars PROVE Unaccepted'
  OBVIOUS
<1>0. TypeOK /\ TablesAgree /\ DispatchOnce /\ SenderHasOutput
  BY DEF ReactorInv
<1>1. CASE UNCHANGED <<cl, sent, rx, tx, got>>
  BY <1>1 DEF Unaccepted
<1>2. ASSUME NEW k \in Clients, Connect(k) PROVE Unaccepted'
  BY <1>0, <1>2 DEF Connect, NetConnect, Unaccepted, TypeOK, NetTypeOK
<1>3. ASSUME NEW k \in Clients, NetSend(k) PROVE Unaccepted'
  <2>1. PICK x : /\ sent' = [sent EXCEPT ![k] = Append(@, x)]
                 /\ rx' = [rx EXCEPT ![k] = Append(@, x)]
    BY <1>3 DEF NetSend
  <2> QED
    BY <1>0, <1>3, <2>1 DEF NetSend, Unaccepted, TypeOK, NetTypeOK
<1>4. ASSUME NEW k \in Clients, NetRead(k) PROVE Unaccepted'
  BY <1>0, <1>4 DEF NetRead, Unaccepted, TypeOK, NetTypeOK
<1>5. CASE Accept
  <2>1. cl' = [cl EXCEPT ![Head(backlog)] = "open"]
    BY <1>5 DEF Accept
  <2> QED
    BY <1>0, <1>5, <2>1 DEF Accept, Unaccepted, TypeOK, NetTypeOK
<1>6. CASE RecvCloses \/ SendFails
  <2>1. cl' = [cl EXCEPT ![peer] = "closed"]
    BY <1>6 DEF RecvCloses, SendFails, Excepter
  <2> QED
    BY <1>0, <1>6, <2>1 DEF RecvCloses, SendFails, Unaccepted, TypeOK, NetTypeOK
<1>7. CASE RecvData \/ SendData
  <2>1. pc \in {"recv", "send"}
    BY <1>7 DEF RecvData, SendData
  <2>2. peer \in Clients /\ cl[peer] = "open"
    BY <1>0, <2>1 DEF TablesAgree, Watched, DispatchOnce, Conns, TypeOK, conn, peer
  <2>3. /\ cl' = cl /\ sent' = sent /\ got' = got
        /\ \A k \in Clients \ {peer} : rx'[k] = rx[k] /\ tx'[k] = tx[k]
    BY <1>0, <1>7 DEF RecvData, SendData, TypeOK, NetTypeOK
  <2> QED
    BY <2>2, <2>3 DEF Unaccepted
<1>8. \/ UNCHANGED <<cl, sent, rx, tx, got>>
      \/ \E k \in Clients : Connect(k) \/ NetSend(k) \/ NetRead(k)
      \/ Accept \/ RecvCloses \/ SendFails \/ RecvData \/ SendData
  BY DEF Next, Server, Dispatch, Accepter, Recver, Sender, vars, netVars,
    WaitEpoll, WaitTimeout, DispatchIn, DispatchOut, EndLoop, AcceptEnds,
    RecvAgain, HandleMessage, HandleDone, NetCalTraps,
    SendAgain, Rearm, RearmDeleted, ClientInput,
    NetFin, NetReset, ClientRead
<1> QED
  BY <1>1, <1>2, <1>3, <1>4, <1>5, <1>6, <1>7, <1>8

LEMMA ConnTypes ==
  ASSUME TypeOK, TablesAgree
  PROVE  /\ \A f \in Conns : f \in Fds /\ fdtab[f] \in Clients /\ cl[fdtab[f]] = "open"
                             /\ inbuffer[f] \in Seq(Int) /\ outbuffer[f] \in Seq(Int)
         /\ \A k \in Clients : /\ sent[k] \in Seq(Int) /\ rx[k] \in Seq(Int)
                               /\ got[k] \in Seq(Int) /\ tx[k] \in Seq(Int)
         /\ \A f, g \in Conns : fdtab[f] = fdtab[g] => f = g
<1>1. \A f \in Conns : f \in Fds /\ fdtab[f] \in Clients
  BY DEF TypeOK, TablesAgree, Watched
<1>2. \A f \in Conns : cl[fdtab[f]] = "open"
  BY <1>1 DEF TablesAgree, Watched
<1>3. \A f \in Conns : inbuffer[f] \in Seq(Int) /\ outbuffer[f] \in Seq(Int)
  BY <1>1 DEF TypeOK
<1>4. \A k \in Clients : /\ sent[k] \in Seq(Int) /\ rx[k] \in Seq(Int)
                         /\ got[k] \in Seq(Int) /\ tx[k] \in Seq(Int)
  BY DEF TypeOK, NetTypeOK
<1> QED
  BY <1>1, <1>2, <1>3, <1>4 DEF TablesAgree, Watched

LEMMA NextFlows == ReactorInv /\ StreamsKept /\ [Next]_vars => FlowsKept'
<1> SUFFICES ASSUME ReactorInv, StreamsKept, [Next]_vars PROVE FlowsKept'
  OBVIOUS
<1>0. TypeOK /\ TablesAgree /\ DispatchOnce /\ SenderHasOutput /\ QueuedOnce
      /\ StreamsShaped /\ Unaccepted /\ FlowsKept
  BY DEF ReactorInv, StreamsKept
<1>0a. /\ \A f \in Conns : f \in Fds /\ fdtab[f] \in Clients
                           /\ inbuffer[f] \in Seq(Int) /\ outbuffer[f] \in Seq(Int)
       /\ \A k \in Clients : /\ sent[k] \in Seq(Int) /\ rx[k] \in Seq(Int)
                             /\ got[k] \in Seq(Int) /\ tx[k] \in Seq(Int)
       /\ \A f, g \in Conns : fdtab[f] = fdtab[g] => f = g
  BY <1>0, ConnTypes
<1>0b. \A f \in Conns : Flow(sent[fdtab[f]], rx[fdtab[f]], got[fdtab[f]],
                             tx[fdtab[f]], inbuffer[f], outbuffer[f])
  BY <1>0 DEF FlowsKept, FlowOf
<1>0c. /\ Fds = DOMAIN fdtab /\ Fds = DOMAIN inbuffer /\ Fds = DOMAIN outbuffer
       /\ Clients = DOMAIN sent /\ Clients = DOMAIN rx /\ Clients = DOMAIN got
       /\ Clients = DOMAIN tx
  BY <1>0 DEF TypeOK, NetTypeOK
<1>1. CASE UNCHANGED <<fdtab, connections, sent, rx, got, tx, inbuffer, outbuffer>>
  BY <1>0, <1>1 DEF FlowsKept, FlowOf, Conns
<1>2. CASE RecvCloses \/ SendFails
  <2>1. /\ fdtab' = [fdtab EXCEPT ![conn] = None]
        /\ connections' = connections \ {conn}
        /\ UNCHANGED <<sent, rx, got, tx, inbuffer, outbuffer>>
    BY <1>2 DEF RecvCloses, SendFails, Excepter
  <2>2. ASSUME NEW f \in Conns' PROVE f \in Conns /\ fdtab'[f] = fdtab[f]
    BY <1>0a, <1>0c, <2>1 DEF Conns
  <2> QED
    BY <1>0, <2>1, <2>2 DEF FlowsKept, FlowOf
<1>3. ASSUME NEW k \in Clients, NetSend(k), UNCHANGED <<fdtab, connections, inbuffer, outbuffer>>
      PROVE FlowsKept'
  <2>1. PICK x \in NextSymbols(k) :
          /\ sent' = [sent EXCEPT ![k] = Append(@, x)]
          /\ rx' = [rx EXCEPT ![k] = Append(@, x)]
    BY <1>3 DEF NetSend
  <2>2. x \in Int /\ tx' = tx /\ got' = got
    BY <1>0a, <1>3, LenProperties DEF NextSymbols, SEP, NetSend
  <2> SUFFICES ASSUME NEW f \in Conns PROVE FlowOf(f)'
    BY <1>3 DEF FlowsKept, Conns
  <2>3. CASE fdtab[f] = k
    <3>1. sent'[k] = Append(sent[k], x) /\ rx'[k] = Append(rx[k], x)
      BY <1>0c, <2>1
    <3>2. Flow(Append(sent[k], x), Append(rx[k], x), got[k], tx[k], inbuffer[f], outbuffer[f])
      BY <1>0a, <1>0b, <2>2, <2>3, FlowSend
    <3> QED
      BY <1>3, <2>2, <2>3, <3>1, <3>2 DEF FlowOf
  <2>4. CASE fdtab[f] # k
    <3>1. sent'[fdtab[f]] = sent[fdtab[f]] /\ rx'[fdtab[f]] = rx[fdtab[f]]
      BY <1>0a, <1>0c, <2>1, <2>4
    <3> QED
      BY <1>0b, <1>3, <2>2, <3>1 DEF FlowOf
  <2> QED
    BY <2>3, <2>4
<1>4. ASSUME NEW k \in Clients, NetRead(k), UNCHANGED <<fdtab, connections, inbuffer, outbuffer>>
      PROVE FlowsKept'
  <2>1. /\ tx[k] # <<>> /\ sent' = sent /\ rx' = rx
        /\ got' = [got EXCEPT ![k] = Append(@, Head(tx[k]))]
        /\ tx' = [tx EXCEPT ![k] = Tail(@)]
    BY <1>4 DEF NetRead
  <2> SUFFICES ASSUME NEW f \in Conns PROVE FlowOf(f)'
    BY <1>4 DEF FlowsKept, Conns
  <2>3. CASE fdtab[f] = k
    <3>1. got'[k] = Append(got[k], Head(tx[k])) /\ tx'[k] = Tail(tx[k])
      BY <1>0c, <2>1
    <3>2. Flow(sent[k], rx[k], Append(got[k], Head(tx[k])), Tail(tx[k]), inbuffer[f], outbuffer[f])
      BY <1>0a, <1>0b, <2>1, <2>3, FlowRead
    <3> QED
      BY <1>4, <2>1, <2>3, <3>1, <3>2 DEF FlowOf
  <2>4. CASE fdtab[f] # k
    <3>1. got'[fdtab[f]] = got[fdtab[f]] /\ tx'[fdtab[f]] = tx[fdtab[f]]
      BY <1>0a, <1>0c, <2>1, <2>4
    <3> QED
      BY <1>0b, <1>4, <2>1, <3>1 DEF FlowOf
  <2> QED
    BY <2>3, <2>4
<1>5. CASE Accept
  <2> DEFINE k == Head(backlog)
  <2>1. PICK g \in FreeFds : fdtab' = [fdtab EXCEPT ![g] = k] /\ AddConnection(g, k)
    BY <1>5 DEF Accept
  <2>2. UNCHANGED <<sent, rx, tx, got>> /\ backlog # <<>>
    BY <1>5 DEF Accept
  <2>3. g \in Fds /\ g \notin connections
    BY <1>0, <2>1, FdFacts DEF FreeFds, TablesAgree, Watched, Conns
  <2>4. k \in Clients /\ cl[k] = "queued"
    BY <1>0, <2>2, EmptySeq, LenProperties, HeadTailProperties
    DEF QueuedOnce, TypeOK, NetTypeOK
  <2>5. /\ connections' = connections \cup {g}
        /\ inbuffer' = [inbuffer EXCEPT ![g] = <<>>]
        /\ outbuffer' = [outbuffer EXCEPT ![g] = <<>>]
    BY <2>1, <2>3 DEF AddConnection, AddSockToEpoll
  <2> SUFFICES ASSUME NEW f \in Conns' PROVE FlowOf(f)'
    BY DEF FlowsKept
  <2>6. CASE f = g
    <3>1. /\ fdtab'[f] = k /\ inbuffer'[f] = <<>> /\ outbuffer'[f] = <<>>
          /\ rx[k] = sent[k] /\ tx[k] = <<>> /\ got[k] = <<>>
      BY <1>0, <1>0c, <2>1, <2>3, <2>4, <2>5, <2>6 DEF Unaccepted
    <3>2. Flow(sent[k], rx[k], got[k], tx[k], <<>>, <<>>)
      BY <1>0a, <2>4, <3>1, FlowNew
    <3> QED
      BY <2>2, <3>1, <3>2 DEF FlowOf
  <2>7. CASE f # g
    <3>1. f \in Conns
      BY <2>5, <2>7 DEF Conns
    <3>2. fdtab'[f] = fdtab[f] /\ inbuffer'[f] = inbuffer[f] /\ outbuffer'[f] = outbuffer[f]
      BY <1>0a, <1>0c, <2>1, <2>5, <2>7, <3>1
    <3> QED
      BY <1>0b, <2>2, <3>1, <3>2 DEF FlowOf
  <2> QED
    BY <2>6, <2>7
<1>6. CASE RecvData \/ HandleMessage \/ SendData
  <2>1. pc \in {"recv", "handle", "send"} /\ UNCHANGED <<fdtab, connections, sent, got>>
    BY <1>6 DEF RecvData, HandleMessage, SendData, netVars
  <2>2. conn \in Conns /\ conn \in Fds /\ peer = fdtab[conn] /\ peer \in Clients
    BY <1>0, <1>0a, <2>1 DEF DispatchOnce, peer
  <2>2a. /\ sent[peer] \in Seq(Int) /\ rx[peer] \in Seq(Int) /\ got[peer] \in Seq(Int)
         /\ tx[peer] \in Seq(Int) /\ inbuffer[conn] \in Seq(Int)
         /\ outbuffer[conn] \in Seq(Int)
    BY <1>0a, <2>2
  <2>3. Flow(sent[peer], rx[peer], got[peer], tx[peer], inbuffer[conn], outbuffer[conn])
    BY <1>0b, <2>2
  <2>4. Flow(sent[peer], rx'[peer], got[peer], tx'[peer], inbuffer'[conn], outbuffer'[conn])
    <3>1. CASE RecvData
      <4>1. /\ rx'[peer] = <<>> /\ inbuffer'[conn] = inbuffer[conn] \o rx[peer]
            /\ tx' = tx /\ outbuffer' = outbuffer
        BY <1>0c, <2>2, <3>1 DEF RecvData
      <4> QED
        BY <2>2a, <2>3, <4>1, FlowRecv
    <3>2. CASE HandleMessage
      <4> DEFINE ib == inbuffer[conn]
      <4>1. PICK i \in DOMAIN ib :
              /\ FirstSep(ib, i) /\ NetCal(conn, SubSeq(ib, 1, i - 1))
              /\ inbuffer' = [inbuffer EXCEPT ![conn] = SubSeq(@, i + 1, Len(@))]
        BY <3>2 DEF HandleMessage
      <4> DEFINE m == SubSeq(ib, 1, i - 1)
      <4>2. outbuffer'[conn] = IF Deserialized(m) THEN Append(outbuffer[conn], m[1])
                               ELSE outbuffer[conn]
        <5> HIDE DEF m
        <5>1. CASE Deserialized(m)
          BY <1>0c, <2>2, <4>1, <5>1 DEF NetCal, m
        <5>2. CASE ~Deserialized(m)
          BY <4>1, <5>2 DEF NetCal, m
        <5> QED
          BY <5>1, <5>2
      <4>3. inbuffer'[conn] = SubSeq(ib, i + 1, Len(ib)) /\ rx' = rx /\ tx' = tx
        BY <1>0c, <2>2, <3>2, <4>1 DEF HandleMessage, netVars
      <4>4. Shaped(sent[peer])
        BY <1>0, <2>2 DEF StreamsShaped
      <4> HIDE DEF ib
      <4>5. ib \in Seq(Int) /\ Flow(sent[peer], rx[peer], got[peer], tx[peer], ib, outbuffer[conn])
        BY <2>2a, <2>3 DEF ib
      <4>6. Flow(sent[peer], rx[peer], got[peer], tx[peer], SubSeq(ib, i + 1, Len(ib)),
                 IF Deserialized(m) THEN Append(outbuffer[conn], m[1]) ELSE outbuffer[conn])
        BY <2>2a, <4>1, <4>4, <4>5, FlowHandle
      <4> HIDE DEF m
      <4> QED
        BY <4>2, <4>3, <4>6
    <3>3. CASE SendData
      <4> DEFINE ob == outbuffer[conn]
      <4>1. /\ tx'[peer] = tx[peer] \o SubSeq(ob, 1, SendCount)
            /\ outbuffer'[conn] = SubSeq(ob, SendCount + 1, Len(ob))
            /\ rx' = rx /\ inbuffer' = inbuffer
        BY <1>0c, <2>2, <3>3 DEF SendData, Unsent
      <4>2. SendCount \in 0..Len(ob)
        <5>1. Len(ob) \in Nat /\ Len(tx[peer]) \in Nat /\ SndBuf \in Nat
          BY <2>2a, LenProperties, TcpNetAssumption
        <5>2. SendCount > 0
          BY <3>3 DEF SendData
        <5> QED
          BY <5>1, <5>2 DEF SendCount
      <4> QED
        BY <2>2a, <2>3, <4>1, <4>2, FlowSendData
    <3> QED
      BY <1>6, <3>1, <3>2, <3>3
  <2>5. ASSUME NEW f \in Conns, f # conn
        PROVE /\ rx'[fdtab[f]] = rx[fdtab[f]] /\ tx'[fdtab[f]] = tx[fdtab[f]]
              /\ inbuffer'[f] = inbuffer[f] /\ outbuffer'[f] = outbuffer[f]
    <3>1. fdtab[f] # peer /\ f \in Fds /\ fdtab[f] \in Clients
      BY <1>0a, <2>2, <2>5
    <3>2. CASE RecvData
      BY <1>0c, <2>5, <3>1, <3>2 DEF RecvData
    <3>3. CASE HandleMessage
      BY <1>0c, <2>5, <3>1, <3>3 DEF HandleMessage, NetCal, netVars
    <3>4. CASE SendData
      BY <1>0c, <2>5, <3>1, <3>4 DEF SendData
    <3> QED
      BY <1>6, <3>2, <3>3, <3>4
  <2> SUFFICES ASSUME NEW f \in Conns PROVE FlowOf(f)'
    BY <2>1 DEF FlowsKept, Conns
  <2>6. CASE f = conn
    BY <2>1, <2>2, <2>4, <2>6 DEF FlowOf
  <2>7. CASE f # conn
    BY <1>0b, <2>1, <2>5, <2>7 DEF FlowOf
  <2> QED
    BY <2>6, <2>7
<1>7. \/ UNCHANGED <<fdtab, connections, sent, rx, got, tx, inbuffer, outbuffer>>
      \/ RecvCloses \/ SendFails \/ Accept \/ RecvData \/ HandleMessage \/ SendData
      \/ \E k \in Clients : /\ NetSend(k) \/ NetRead(k)
                            /\ UNCHANGED <<fdtab, connections, inbuffer, outbuffer>>
  BY DEF Next, Server, Dispatch, Accepter, Recver, Sender, vars, netVars,
    serverVars, WaitEpoll, WaitTimeout, DispatchIn, DispatchOut, EndLoop,
    AcceptEnds, RecvAgain, HandleDone, NetCalTraps, SendAgain, Rearm, RearmDeleted, Connect,
    NetConnect, ClientInput, NetFin, NetReset, ClientRead
<1> QED
  BY <1>1, <1>2, <1>3, <1>4, <1>5, <1>6, <1>7

LEMMA NextInOrder ==
  ReactorInv /\ StreamsKept /\ RepliesInOrder /\ [Next]_vars
    /\ ReactorInv' /\ StreamsKept' => RepliesInOrder'
<1> SUFFICES ASSUME ReactorInv, StreamsKept, RepliesInOrder, [Next]_vars,
                    ReactorInv', StreamsKept'
    PROVE RepliesInOrder'
  OBVIOUS
<1> DEFINE Owed(s) == Replies(SubSeq(s, 1, 2 * (Len(s) \div 2)))
<1>0. TypeOK /\ TablesAgree /\ DispatchOnce /\ Unaccepted
  BY DEF ReactorInv, StreamsKept
<1>0a. TypeOK' /\ TablesAgree' /\ Unaccepted' /\ FlowsKept'
  BY DEF ReactorInv, StreamsKept
<1>0b. \A k \in Clients : IsPrefixOf(got[k] \o tx[k], Owed(sent[k]))
  BY DEF RepliesInOrder, IsPrefixOf
<1>0c. \A k \in Clients :
         /\ sent[k] \in Seq(Int) /\ got[k] \in Seq(Int) /\ tx[k] \in Seq(Int)
         /\ sent'[k] \in Seq(Int)
  BY <1>0, <1>0a DEF TypeOK, NetTypeOK
<1>0d. DOMAIN got = Clients /\ DOMAIN tx = Clients
  BY <1>0 DEF TypeOK, NetTypeOK
<1>1. SUFFICES ASSUME NEW k \in Clients
      PROVE IsPrefixOf(got'[k] \o tx'[k], Owed(sent'[k]))
  BY DEF RepliesInOrder, IsPrefixOf
<1> HIDE DEF Owed
<1>2. CASE cl'[k] \in {"new", "queued"}
  <2>1. tx'[k] = <<>> /\ got'[k] = <<>>
    BY <1>0a, <1>2 DEF Unaccepted
  <2>2. Len(<<>>) = 0 /\ <<>> \in Seq(Int) /\ <<>> \o <<>> = <<>>
    BY EmptySeq, ConcatEmptySeq
  <2>3. Flow(sent'[k], sent'[k], <<>>, <<>>, <<>>, <<>>)
    BY <1>0c, FlowNew
  <2> QED
    BY <1>0c, <2>1, <2>2, <2>3, FlowInOrder DEF Owed
<1>3. CASE cl'[k] = "open"
  <2>1. PICK f \in Fds : fdtab'[f] = k
    BY <1>0a, <1>3 DEF TablesAgree, Watched
  <2>2. f \in Conns'
    BY <1>0a, <2>1, ReactorAssumption DEF TablesAgree, Watched
  <2>3. Flow(sent'[k], rx'[k], got'[k], tx'[k], inbuffer'[f], outbuffer'[f])
    BY <1>0a, <2>1, <2>2 DEF FlowsKept, FlowOf
  <2>4. /\ sent'[k] \in Seq(Int) /\ rx'[k] \in Seq(Int) /\ got'[k] \in Seq(Int)
        /\ tx'[k] \in Seq(Int) /\ inbuffer'[f] \in Seq(Int) /\ outbuffer'[f] \in Seq(Int)
    BY <1>0a, <2>1 DEF TypeOK, NetTypeOK
  <2> QED
    BY <2>3, <2>4, FlowInOrder DEF Owed
<1>4. CASE cl'[k] = "closed"
  <2>1. sent'[k] = sent[k] /\ got'[k] \o tx'[k] = got[k] \o tx[k]
    <3>1. CASE UNCHANGED <<sent, got, tx>>
      BY <3>1
    <3>2. ASSUME NEW j \in Clients, NetSend(j) PROVE sent'[k] = sent[k] /\ got' = got /\ tx' = tx
      <4>1. j # k /\ got' = got /\ tx' = tx
        BY <1>4, <3>2 DEF NetSend, Established
      <4>2. \E x : sent' = [sent EXCEPT ![j] = Append(@, x)]
        BY <3>2 DEF NetSend
      <4> QED
        BY <4>1, <4>2
    <3>3. ASSUME NEW j \in Clients, NetRead(j)
          PROVE sent' = sent /\ got'[k] \o tx'[k] = got[k] \o tx[k]
      <4>1. /\ tx[j] # <<>> /\ sent' = sent
            /\ got' = [got EXCEPT ![j] = Append(@, Head(tx[j]))]
            /\ tx' = [tx EXCEPT ![j] = Tail(@)]
        BY <3>3 DEF NetRead
      <4>2. CASE j # k
        BY <1>0d, <4>1, <4>2
      <4>3. CASE j = k
        <5>1. got'[k] = Append(got[k], Head(tx[k])) /\ tx'[k] = Tail(tx[k])
          BY <1>0, <4>1, <4>3 DEF TypeOK, NetTypeOK
        <5> QED
          BY <1>0c, <4>1, <4>3, <5>1, MoveHead
      <4> QED
        BY <4>1, <4>2, <4>3
    <3>4. CASE SendData
      <4>1. conn \in Conns
        BY <1>0, <3>4 DEF SendData, DispatchOnce
      <4>2. cl[peer] = "open"
        BY <1>0, <4>1, ConnTypes DEF peer
      <4>3. peer # k
        BY <1>4, <3>4, <4>2 DEF SendData
      <4>4. /\ sent' = sent /\ got' = got
            /\ tx' = [tx EXCEPT ![peer] = @ \o SubSeq(outbuffer[conn], 1, SendCount)]
        BY <3>4 DEF SendData
      <4> QED
        BY <1>0d, <4>3, <4>4
    <3>5. \/ UNCHANGED <<sent, got, tx>> \/ SendData
          \/ \E j \in Clients : NetSend(j) \/ NetRead(j)
      BY DEF Next, Server, Dispatch, Accepter, Recver, Sender, vars, netVars,
        WaitEpoll, WaitTimeout, DispatchIn, DispatchOut, EndLoop, Accept,
        AcceptEnds, RecvData, RecvCloses, RecvAgain, HandleMessage, HandleDone, NetCalTraps,
        SendAgain, SendFails, Rearm, RearmDeleted, Connect, NetConnect,
        ClientInput, NetFin, NetReset, ClientRead
    <3> QED
      BY <3>1, <3>2, <3>3, <3>4, <3>5
  <2> QED
    BY <1>0b, <2>1
<1>5. cl'[k] \in {"new", "queued", "open", "closed"}
  BY <1>0a DEF TypeOK, NetTypeOK
<1> QED
  BY <1>2, <1>3, <1>4, <1>5

LEMMA StreamsInvariance == Spec => [](ReactorInv /\ StreamsKept /\ RepliesInOrder)
<1> DEFINE Inv == ReactorInv /\ StreamsKept /\ RepliesInOrder
<1>1. Inv /\ [Next]_vars => Inv'
  <2> SUFFICES ASSUME Inv, [Next]_vars PROVE Inv'
    OBVIOUS
  <2>1. ReactorInv'
    BY NextTypeOK, NextTables, NextArmed DEF ReactorInv, Tables, Armed
  <2>2. StreamsKept'
    BY NextShaped, NextUnaccepted, NextFlows DEF StreamsKept
  <2> QED
    BY <2>1, <2>2, NextInOrder
<1>2. Init => Inv
  BY InitInv, InitStreams
<1> QED
  BY <1>1, <1>2, PTL DEF Spec

(* No reply is lost, repeated or reordered between NetCal, _outbuffer and  *)
(* the client, however often send() and epoll cut the way in pieces: what  *)
(* the client has, what the kernel holds and what _outbuffer holds are     *)
(* together the answers to the requests handled so far.                    *)
THEOREM NoReplyIsLost == Spec => []NoReplyLost
<1>1. ReactorInv /\ StreamsKept => NoReplyLost
  BY DEF StreamsKept, FlowsKept, FlowOf, Flow, NoReplyLost
<1> QED
  BY <1>1, StreamsInvariance, PTL

(* Every client gets the answers to its own complete requests, in order,   *)
(* also through a descriptor that was closed and accepted again.           *)
THEOREM RepliesComeInOrder == Spec => []RepliesInOrder
BY StreamsInvariance, PTL
=============================================================================
