---------------------------- MODULE ServersProofs ----------------------------
(* Proofs about the programs of Servers, for any users, callers, requests,  *)
(* visitors, texts, ...: ChatServer by itself first, then each component as *)
(* the program that Servers runs.  The invariant of a component holds       *)
(* whichever program it is: what does not run stays in its initial state.   *)
EXTENDS Servers, Integers, TLAPS, FiniteSetTheorems, SequenceTheorems

\* While Recv deals with a datagram, it is about to push its sender's message.
Carries == /\ rpc \in {"lock", "insert", "push"} =>
                offer["recv"] = peer /\ peer \in Users
           /\ rpc \in {"new", "recvfrom"} => offer["recv"] = NoUser

\* Whose message Recv is about to push, whose message is in the queue, and
\* whose message Boardcast has popped, is in the table.
Known == /\ rpc = "push" => peer \in online
         /\ \A i \in 1..Len(rq) : rq[i] \in online
         /\ bpc \in {"lock", "copy", "send"} => got["boardcast"] \in online

\* Recv does nothing until main has started it.
Started == mpc \in {"run_c", "run_p"} => rpc = "new"

IInv == TypeOK /\ Started /\ Carries /\ Known /\ SenderIncluded

LEMMA InitIInv == Init => IInv
<1> SUFFICES ASSUME Init PROVE IInv
  OBVIOUS
<1> USE DEF Init, Ring!Init
<1>1. rq = <<>> /\ rq \in Seq(Users) /\ Len(rq) = 0
  BY Len(<<>>) = 0
<1>2. /\ offer = [p \in {"recv"} |-> NoUser]
      /\ got = [c \in {"boardcast"} |-> NoUser]
  OBVIOUS
<1>3. TypeOK
  <2>1. Len(rq) <= Capacity
    BY <1>1, CapacityAssumption
  <2>2. /\ offer \in [{"recv"} -> Users \cup {NoUser}]
        /\ got \in [{"boardcast"} -> Users \cup {NoUser}]
    BY <1>2
  <2> QED
    BY <1>1, <2>1, <2>2 DEF TypeOK
<1>4. Started /\ Carries /\ Known /\ SenderIncluded
  BY <1>1, <1>2 DEF Started, Carries, Known, SenderIncluded
<1> QED
  BY <1>3, <1>4 DEF IInv

\* Every step keeps the invariant: the table only grows, and a message reaches
\* the queue after its sender reached the table.
LEMMA NextIInv == IInv /\ [Next]_vars => IInv'
<1> SUFFICES ASSUME IInv, [Next]_vars PROVE IInv'
  OBVIOUS
<1> USE UsersAssumption, CapacityAssumption
    DEF IInv, TypeOK, Started, Carries, Known, SenderIncluded, queueVars
<1>1. CASE MainStep
  <2>1. CASE RunC
    BY <2>1 DEF RunC
  <2>2. CASE RunP
    BY <2>2 DEF RunP
  <2>3. CASE Destroy
    BY <2>3 DEF Destroy
  <2> QED
    BY <1>1, <2>1, <2>2, <2>3 DEF MainStep
<1>2. ASSUME NEW u \in Users, RecvFrom(u)
      PROVE  IInv'
  <2>1. /\ offer["recv"] = NoUser /\ offer' = [offer EXCEPT !["recv"] = u]
        /\ rpc' = "lock" /\ rpc = "recvfrom"
    BY <1>2 DEF RecvFrom, After, Ring!Offer
  <2>2. offer'["recv"] = u /\ offer' \in [{"recv"} -> Users \cup {NoUser}]
    BY <2>1
  <2> QED
    BY <1>2, <2>1, <2>2 DEF RecvFrom, Ring!Offer
<1>3. CASE AddUser
  BY <1>3 DEF AddUser, Lock
<1>4. CASE AddUserEnd
  BY <1>4 DEF AddUserEnd, Unlock, After
<1>5. CASE Push
  <2>1. /\ rpc = "push" /\ rpc' = "recvfrom"
        /\ Len(rq) < Capacity /\ rq' = Append(rq, peer)
        /\ offer' = [offer EXCEPT !["recv"] = NoUser]
        /\ UNCHANGED <<mpc, bpc, owner, mutex, online, peer, v, torn, got>>
    BY <1>5 DEF Push, After, Ring!Put
  <2>2. /\ rq' \in Seq(Users) /\ Len(rq') = Len(rq) + 1
        /\ \A i \in 1..Len(rq') : rq'[i] = IF i <= Len(rq) THEN rq[i] ELSE peer
    BY <2>1
  <2>3. \A i \in 1..Len(rq') : rq'[i] \in online
    BY <2>1, <2>2
  <2>4. /\ offer'["recv"] = NoUser
        /\ offer' \in [{"recv"} -> Users \cup {NoUser}]
    BY <2>1
  <2> QED
    BY <2>1, <2>2, <2>3, <2>4
<1>6. CASE Pop
  <2>1. /\ bpc = "pop" /\ bpc' = "lock"
        /\ rq # <<>> /\ rq' = Tail(rq)
        /\ got' = [got EXCEPT !["boardcast"] = Head(rq)]
        /\ UNCHANGED <<mpc, rpc, owner, mutex, online, peer, v, torn, offer>>
    BY <1>6 DEF Pop, Ring!Get
  <2>2. /\ Len(rq) \in Nat \ {0} /\ Head(rq) = rq[1]
        /\ rq' \in Seq(Users) /\ Len(rq') = Len(rq) - 1
        /\ \A i \in 1..Len(rq') : rq'[i] = rq[i + 1]
    BY <2>1
  <2>3. Head(rq) \in online /\ \A i \in 1..Len(rq') : rq'[i] \in online
    BY <2>1, <2>2
  <2>4. /\ got'["boardcast"] = Head(rq)
        /\ got' \in [{"boardcast"} -> Users \cup {NoUser}]
    BY <2>1, <2>3
  <2> QED
    BY <2>1, <2>2, <2>3, <2>4
<1>7. CASE Copy
  BY <1>7 DEF Copy, Lock
<1>8. CASE CopyEnd
  <2>1. v' \subseteq Users /\ (~torn => v' = online)
    BY <1>8 DEF CopyEnd, Inserting
  <2> QED
    BY <1>8, <2>1 DEF CopyEnd, Unlock
<1>9. CASE SendAll
  BY <1>9 DEF SendAll
<1>10. CASE UNCHANGED vars
  BY <1>10 DEF vars
<1> QED
  BY <1>1, <1>2, <1>3, <1>4, <1>5, <1>6, <1>7, <1>8, <1>9, <1>10
     DEF Next, RecvStep, BoardcastStep

\* The invariant holds of every behaviour.
THEOREM Invariance == Spec => []IInv
BY InitIInv, NextIInv, PTL DEF Spec

\* The sender is among the recipients of every message that was copied in
\* peace (SenderIncluded), whatever became of the mutex.
THEOREM SenderHears == Spec => []SenderIncluded
<1>1. IInv => SenderIncluded
  BY DEF IInv
<1> QED
  BY Invariance, <1>1, PTL
----------------------------------------------------------------------------
(* The programs of Servers *)

\* The chat server runs in Servers as it runs by itself.
THEOREM ServersRunChat == ServersSpec => Spec
<1>1. ServersInit => Init
  BY DEF ServersInit
<1>2. [ServersNext]_serversVars => [Next]_vars
  BY DEF ServersNext, serversVars, chatVars, vars
<1> QED
  BY <1>1, <1>2, PTL DEF ServersSpec, Spec

----------------------------------------------------------------------------
(* The forking servers *)

Child(k) == <<"child", k>>
Grandchild(k) == <<"grandchild", k>>
Kept == Forks!Kin
Living == {"start", "recv"}

ForkTyped ==
  /\ forkMain \in {"setup", "accept", "fork", "close", "wait", "sleep", "exit"}
  /\ forkCur \subseteq Visitors
  /\ holders \in [Visitors -> SUBSET ({Forks!Main, Forks!Backlog} \cup Kept)]
  /\ kin \in [Kept -> Living \cup {"none", "zombie", "gone"}]
  /\ visitor \in [Visitors -> {"start", "idle", "ended", "dropped", "left"}
                               \cup Forks!Asking]
  /\ reply \in [Visitors -> {"none", "307", "200", "404"}]

\* The first process holds the connection in hand and no other, and no child
\* has it before the fork.
InHand ==
  /\ \A j, k \in forkCur : j = k
  /\ forkMain \notin {"fork", "close", "sleep"} => forkCur = {}
  /\ \A k \in Visitors : Forks!Main \in holders[k] => k \in forkCur
  /\ \A k \in forkCur : forkMain = "fork" => holders[k] = {Forks!Main}

\* Besides the first process one holds a connection at most; a living child or
\* grandchild holds its own, and nobody holds one that has ended.
OneKeeper ==
  \A k \in Visitors :
    /\ \A p, q \in holders[k] \ {Forks!Main} : p = q
    /\ Forks!Backlog \in holders[k] => holders[k] = {Forks!Backlog}
    /\ \A p \in {Child(k), Grandchild(k)} : kin[p] \in Living => p \in holders[k]
    /\ visitor[k] \in {"start", "ended", "dropped"} => holders[k] = {}

\* The parent of redirect waits for the one child it has made.
OneChild ==
  /\ \A k \in Visitors : kin[Grandchild(k)] # "zombie"
  /\ program = "redirect" =>
       LET unreaped == {k \in Visitors : kin[Child(k)] \notin {"none", "gone"}}
       IN /\ forkMain \notin {"close", "wait"} => unreaped = {}
          /\ forkMain = "close" => unreaped \subseteq forkCur
          /\ \A j, k \in unreaped : j = k

\* The child or grandchild of a connection has replied when it is gone.
Replied ==
  \A k \in Visitors :
    kin[Child(k)] \in {"zombie", "gone"} =>
      \/ reply[k] # "none" \/ visitor[k] = "left" \/ kin[Grandchild(k)] = "recv"
      \/ program # "redirect" /\ visitor[k] \in {"fragment", "dropped"}

ForkInv == ForkTyped /\ InHand /\ OneKeeper /\ OneChild /\ Replied

Main == Forks!Main
Backlog == Forks!Backlog

\* The processes are different.
LEMMA KinFacts ==
  /\ Main \notin Kept /\ Backlog \notin Kept /\ Main # Backlog
  /\ \A k \in Visitors : Child(k) \in Kept /\ Grandchild(k) \in Kept
  /\ \A p \in Kept : \E k \in Visitors : p \in {Child(k), Grandchild(k)} /\ p[2] = k
  /\ \A j, k \in Visitors : /\ Child(j) = Child(k) => j = k
                            /\ Grandchild(j) = Grandchild(k) => j = k
                            /\ Child(j) # Grandchild(k)
<1> USE DEF Kept, Forks!Kin, Child, Grandchild, Main, Backlog, Forks!Main, Forks!Backlog
<1>1. Main \notin Kept /\ Backlog \notin Kept /\ Main # Backlog
  OBVIOUS
<1>2. \A k \in Visitors : Child(k) \in Kept /\ Grandchild(k) \in Kept
  OBVIOUS
<1>3. \A p \in Kept : \E k \in Visitors : p \in {Child(k), Grandchild(k)} /\ p[2] = k
  OBVIOUS
<1>4. \A j, k \in Visitors : /\ Child(j) = Child(k) => j = k
                             /\ Grandchild(j) = Grandchild(k) => j = k
                             /\ Child(j) # Grandchild(k)
  OBVIOUS
<1> QED
  BY <1>1, <1>2, <1>3, <1>4

LEMMA ForkInitInv == Forks!ForkInit => ForkInv
<1> SUFFICES ASSUME Forks!ForkInit PROVE ForkInv
  OBVIOUS
<1> USE KinFacts DEF Forks!ForkInit
<1>1. \A k \in Visitors : /\ holders[k] = {} /\ visitor[k] = "start"
                          /\ kin[Child(k)] = "none" /\ kin[Grandchild(k)] = "none"
  BY DEF Kept
<1>2. ForkTyped
  BY DEF ForkTyped, Kept
<1> QED
  BY <1>1, <1>2 DEF ForkInv, InHand, OneKeeper, OneChild, Replied, Living

\* The clients' steps.
LEMMA VisitKeeps ==
  ASSUME ForkInv, NEW k \in Visitors,
         \/ Forks!VisitConnect(k) \/ Forks!VisitSend(k)
         \/ Forks!VisitLeave(k) \/ Forks!VisitEnd(k)
  PROVE  ForkInv'
<1> USE KinFacts DEF ForkInv, ForkTyped, Living, Main, Backlog
<1>1. CASE Forks!VisitConnect(k)
  <2> USE <1>1 DEF Forks!VisitConnect
  <2>1. /\ holders[k] = {} /\ visitor[k] = "start"
        /\ \A j \in Visitors :
             /\ holders'[j] = IF j = k THEN {Backlog} ELSE holders[j]
             /\ visitor'[j] = IF j = k THEN "idle" ELSE visitor[j]
    BY DEF OneKeeper
  <2>2. ForkTyped'
    OBVIOUS
  <2>3. InHand'
    <3>1. \A j \in Visitors : Main \in holders'[j] => Main \in holders[j]
      BY <2>1
    <3>2. ~(k \in forkCur /\ forkMain = "fork")
      <4>1. Main \notin holders[k]
        BY <2>1
      <4>2. k \in forkCur /\ forkMain = "fork" => Main \in holders[k]
        BY DEF InHand
      <4> QED
        BY <4>1, <4>2
    <3> QED
      BY <2>1, <3>1, <3>2 DEF InHand
  <2>4. OneKeeper'
    BY <2>1 DEF OneKeeper
  <2>5. OneChild' /\ Replied'
    BY <2>1 DEF OneChild, Replied
  <2> QED
    BY <2>2, <2>3, <2>4, <2>5
<1>2. CASE Forks!VisitSend(k)
  BY <1>2 DEF Forks!VisitSend, Forks!Asking, InHand, OneKeeper, OneChild, Replied
<1>3. CASE Forks!VisitLeave(k)
  BY <1>3 DEF Forks!VisitLeave, Forks!Asking, InHand, OneKeeper, OneChild, Replied
<1>4. CASE Forks!VisitEnd(k)
  BY <1>4 DEF Forks!VisitEnd, Forks!Asking, InHand, OneKeeper, OneChild, Replied
<1> QED
  BY <1>1, <1>2, <1>3, <1>4

\* The first process.
LEMMA MainKeeps ==
  ASSUME ForkInv, Forks!ForkMainStep \/ Forks!SleepAcceptFails
  PROVE  ForkInv'
<1> USE KinFacts DEF ForkInv, ForkTyped, Living, Main, Backlog
<1>1. CASE Forks!ForkListen
  BY <1>1 DEF Forks!ForkListen, InHand, OneKeeper, OneChild, Replied
<1>2. CASE Forks!SleepAcceptFails
  BY <1>2 DEF Forks!SleepAcceptFails, InHand, OneKeeper, OneChild, Replied
<1>3. ASSUME NEW k \in Visitors,
             \/ Forks!AcceptTo(k, "fork")
             \/ program = "sleep" /\ Forks!AcceptTo(k, "sleep")
      PROVE  ForkInv'
  <2> USE <1>3 DEF Forks!AcceptTo
  <2>1. /\ holders[k] = {Backlog} /\ forkMain = "accept"
        /\ forkMain' \in {"fork", "sleep"} /\ forkCur' = {k}
        /\ \A j \in Visitors :
             holders'[j] = IF j = k THEN {Main} ELSE holders[j]
    OBVIOUS
  <2>2. ForkTyped'
    OBVIOUS
  <2>3. InHand'
    <3>1. \A j \in Visitors : Main \notin holders[j]
      BY <2>1 DEF InHand
    <3>2. \A j \in Visitors : Main \in holders'[j] => j = k
      BY <2>1, <3>1
    <3> QED
      BY <2>1, <3>2 DEF InHand
  <2>4. OneKeeper'
    BY <2>1 DEF OneKeeper
  <2>5. OneChild' /\ Replied'
    BY DEF OneChild, Replied
  <2> QED
    BY <2>2, <2>3, <2>4, <2>5
<1>4. CASE Forks!ForkChild
  <2>1. CASE UNCHANGED <<kin, holders>>
    BY <1>4, <2>1 DEF Forks!ForkChild, InHand, OneKeeper, OneChild, Replied
  <2>2. ASSUME NEW k \in forkCur,
               /\ kin' = [kin EXCEPT ![<<"child", k>>] =
                            IF program = "redirect" THEN "start" ELSE "recv"]
               /\ holders' = Forks!Inherit(Forks!Main, <<"child", k>>)
        PROVE  ForkInv'
    <3>1. /\ forkMain = "fork" /\ forkMain' = "close" /\ k \in Visitors
          /\ UNCHANGED <<program, forkCur, visitor, reply>>
          /\ \A p \in Kept : kin'[p] = IF p = Child(k)
                                       THEN IF program = "redirect" THEN "start" ELSE "recv"
                                       ELSE kin[p]
      BY <1>4, <2>2 DEF Forks!ForkChild, Child
    <3>2. \A j \in Visitors :
            holders'[j] = IF j = k THEN {Main, Child(k)} ELSE holders[j]
      <4>1. \A j \in Visitors :
              holders'[j] = IF Main \in holders[j] THEN holders[j] \cup {Child(k)}
                                                   ELSE holders[j]
        BY <2>2 DEF Forks!Inherit, Child
      <4> QED
        BY <3>1, <4>1 DEF InHand
    <3>3. ForkTyped'
      <4>1. kin' \in [Kept -> Living \cup {"none", "zombie", "gone"}]
        BY <2>2, <3>1
      <4>2. holders' \in [Visitors -> SUBSET ({Main, Backlog} \cup Kept)]
        <5>1. holders' = [j \in Visitors |-> holders'[j]]
          BY <2>2 DEF Forks!Inherit
        <5>2. \A j \in Visitors : holders'[j] \subseteq {Main, Backlog} \cup Kept
          BY <3>1, <3>2
        <5> QED
          BY <5>1, <5>2
      <4> QED
        BY <3>1, <4>1, <4>2
    <3>4. InHand'
      BY <3>1, <3>2 DEF InHand
    <3>5. OneKeeper'
      <4>1. holders[k] = {Main}
        BY <3>1 DEF InHand
      <4>2. visitor[k] \notin {"start", "ended", "dropped"} /\ kin[Grandchild(k)] \notin Living
        <5>1. visitor[k] \notin {"start", "ended", "dropped"}
          BY <3>1, <4>1 DEF OneKeeper
        <5>2. Grandchild(k) \notin holders[k]
          BY <3>1, <4>1
        <5> QED
          BY <3>1, <5>1, <5>2 DEF OneKeeper
      <4>3. ASSUME NEW j \in Visitors, j # k
            PROVE  /\ holders'[j] = holders[j] /\ kin'[Child(j)] = kin[Child(j)]
                   /\ kin'[Grandchild(j)] = kin[Grandchild(j)]
        BY <3>1, <3>2, <4>3
      <4>4. kin'[Grandchild(k)] = kin[Grandchild(k)] /\ holders'[k] = {Main, Child(k)}
        BY <3>1, <3>2
      <4>5. \A p, q \in holders'[k] \ {Main} : p = q
        BY <4>4
      <4>6. Backlog \notin holders'[k] /\ Child(k) \in holders'[k]
        BY <3>1, <4>4
      <4> QED
        BY <3>1, <4>2, <4>3, <4>4, <4>5, <4>6 DEF OneKeeper
    <3>6. OneChild'
      BY <3>1 DEF OneChild, InHand
    <3>7. Replied'
      BY <3>1 DEF Replied
    <3> QED
      BY <3>3, <3>4, <3>5, <3>6, <3>7
  <2> QED
    BY <1>4, <2>1, <2>2 DEF Forks!ForkChild
<1>5. CASE Forks!CloseSockfd
  <2>1. /\ forkMain \in {"close", "sleep"} /\ forkCur' = {}
        /\ forkMain' = IF program = "redirect" THEN "wait" ELSE "accept"
        /\ UNCHANGED <<program, kin, visitor, reply>>
        /\ \A j \in Visitors :
             holders'[j] = IF j \in forkCur THEN holders[j] \ {Main} ELSE holders[j]
        /\ \A j \in Visitors : holders'[j] = holders[j] \ {Main}
    BY <1>5 DEF Forks!CloseSockfd, Forks!MainReleases, InHand
  <2>2. ForkTyped'
    BY <1>5, <2>1 DEF Forks!CloseSockfd, Forks!MainReleases
  <2>3. InHand'
    BY <2>1 DEF InHand
  <2>4. OneKeeper'
    <3>1. \A j \in Visitors : \A p \in holders'[j] : p \in holders[j] \ {Main}
      BY <2>1
    <3>2. \A j \in Visitors, p \in Kept : p \in holders[j] => p \in holders'[j]
      BY <2>1
    <3>3. \A j \in Visitors : Backlog \in holders'[j] => holders'[j] = {Backlog}
      BY <2>1 DEF OneKeeper
    <3> QED
      BY <2>1, <3>1, <3>2, <3>3 DEF OneKeeper
  <2>5. OneChild' /\ Replied'
    BY <2>1 DEF OneChild, Replied
  <2> QED
    BY <2>2, <2>3, <2>4, <2>5
<1>6. CASE Forks!WaitChild
  <2>1. ASSUME \A k \in Visitors : kin[Child(k)] \in {"none", "gone"}, UNCHANGED kin
        PROVE  ForkInv'
    BY <1>6, <2>1 DEF Forks!WaitChild, InHand, OneKeeper, OneChild, Replied
  <2>2. ASSUME NEW p \in Kept, kin[p] = "zombie", kin' = [kin EXCEPT ![p] = "gone"]
        PROVE  ForkInv'
    <3>1. PICK k \in Visitors : p = Child(k)
      BY <2>2 DEF OneChild
    <3>2. \A q \in Kept : kin'[q] = IF q = Child(k) THEN "gone" ELSE kin[q]
      BY <2>2, <3>1
    <3>3. ForkTyped' /\ InHand' /\ OneKeeper' /\ Replied'
      BY <1>6, <2>2, <3>1, <3>2 DEF Forks!WaitChild, InHand, OneKeeper, Replied
    <3>4. OneChild'
      BY <1>6, <2>2, <3>1, <3>2 DEF Forks!WaitChild, OneChild
    <3> QED
      BY <3>3, <3>4
  <2> QED
    BY <1>6, <2>1, <2>2 DEF Forks!WaitChild, Kept, Child
<1> QED
  BY <1>1, <1>2, <1>3, <1>4, <1>5, <1>6
  DEF Forks!ForkMainStep, Forks!RedirectSetup, Forks!HttpSetup, Forks!SleepSetup,
      Forks!ForkAccept, Forks!RedirectAccept, Forks!HttpAccept, Forks!SleepAccept

\* A child or grandchild p ends and, if it is a child that hands on its
\* connection, q takes its place.
LEMMA ForkAgainKeeps ==
  ASSUME ForkInv, NEW k \in Visitors, Forks!ForkAgain(k)
  PROVE  ForkInv'
<1> USE KinFacts DEF ForkInv, ForkTyped, Living, Main, Backlog
<1>1. PICK dad, son : dad = Child(k) /\ son = Grandchild(k)
  OBVIOUS
<1>2. /\ dad \in Kept /\ son \in Kept /\ dad # son /\ kin[dad] = "start"
      /\ dad \in holders[k]
      /\ UNCHANGED <<program, forkMain, forkCur, visitor, reply>>
  BY <1>1 DEF Forks!ForkAgain, Child, OneKeeper
<1>3. CASE kin' = [kin EXCEPT ![dad] = "recv"] /\ UNCHANGED holders
  <2>1. \A p \in Kept : kin'[p] = IF p = dad THEN "recv" ELSE kin[p]
    BY <1>3
  <2>2. ForkTyped'
    BY <1>2, <1>3
  <2>3. InHand' /\ OneKeeper' /\ OneChild'
    BY <1>1, <1>2, <1>3, <2>1 DEF InHand, OneKeeper, OneChild
  <2>4. Replied'
    BY <1>1, <1>2, <2>1 DEF Replied
  <2> QED
    BY <2>2, <2>3, <2>4
<1>4. CASE /\ kin' = [kin EXCEPT ![dad] = Forks!Remains(dad), ![son] = "recv"]
           /\ holders' = [u \in Visitors |-> Forks!Inherit(dad, son)[u] \ {dad}]
  <2>1. /\ Forks!Remains(dad) \in {"zombie", "gone"}
        /\ program # "redirect" => Forks!Remains(dad) = "gone"
    BY DEF Forks!Remains
  <2>2. \A p \in Kept : kin'[p] = IF p = son THEN "recv"
                                  ELSE IF p = dad THEN Forks!Remains(dad) ELSE kin[p]
    BY <1>2, <1>4
  <2>3. ASSUME NEW j \in Visitors
        PROVE  \A p : p \in holders'[j] <=>
                 p # dad /\ (p \in holders[j] \/ (p = son /\ dad \in holders[j]))
    BY <1>4, <2>3 DEF Forks!Inherit
  <2>4. ForkTyped'
    <3>1. kin' \in [Kept -> Living \cup {"none", "zombie", "gone"}]
      BY <1>2, <1>4, <2>1
    <3>2. \A j \in Visitors : holders'[j] \subseteq {Main, Backlog} \cup Kept
      BY <1>2, <2>3, Zenon
    <3>3. holders' = [j \in Visitors |-> holders'[j]]
      BY <1>4
    <3> QED
      BY <1>2, <3>1, <3>2, <3>3
  <2>5. InHand'
    <3>1. \A j \in Visitors : Main \in holders'[j] <=> Main \in holders[j]
      <4>1. Main # dad /\ Main # son
        BY <1>2
      <4> QED
        BY <2>3, <4>1
    <3>2. ASSUME NEW j \in forkCur, forkMain = "fork" PROVE holders'[j] = {Forks!Main}
      <4>1. holders[j] = {Main} /\ j \in Visitors
        BY <3>2 DEF InHand
      <4> QED
        BY <1>2, <2>3, <4>1
    <3> QED
      BY <1>2, <3>1, <3>2 DEF InHand
  <2>6. OneKeeper'
    <3> SUFFICES ASSUME NEW j \in Visitors
                 PROVE  /\ \A p, q \in holders'[j] \ {Main} : p = q
                        /\ Backlog \in holders'[j] => holders'[j] = {Backlog}
                        /\ \A p \in {Child(j), Grandchild(j)} :
                             kin'[p] \in Living => p \in holders'[j]
                        /\ visitor[j] \in {"start", "ended", "dropped"} => holders'[j] = {}
      BY <1>2 DEF OneKeeper
    <3>1. CASE dad \in holders[j]
      <4>1. holders[j] \ {Main} = {dad} /\ Backlog \notin holders[j]
        BY <1>2, <3>1 DEF OneKeeper
      <4>2. holders'[j] \ {Main} = {son} /\ Backlog \notin holders'[j]
        <5>1. son # Main /\ son # dad /\ son # Backlog
          BY <1>2
        <5>2. \A p : p \in holders[j] /\ p # Main => p = dad
          BY <4>1
        <5>3. son \in holders'[j] /\ \A p : p \in holders'[j] /\ p # Main => p = son
          BY <2>3, <3>1, <5>1, <5>2
        <5> QED
          BY <5>1, <5>3
      <4>3. visitor[j] \notin {"start", "ended", "dropped"}
        BY <3>1 DEF OneKeeper
      <4>4. \A p \in {Child(j), Grandchild(j)} :
              kin'[p] \in Living => p = son \/ p = dad \/ p \in holders[j]
        BY <2>2 DEF OneKeeper
      <4>5. kin'[dad] \notin Living
        BY <1>2, <2>1, <2>2
      <4>6. \A p \in {Child(j), Grandchild(j)} : kin'[p] \in Living => p = son
        BY <4>1, <4>4, <4>5
      <4> QED
        BY <4>2, <4>3, <4>6
    <3>2. CASE dad \notin holders[j]
      <4>1. holders'[j] = holders[j]
        <5>1. \A p : p \in holders'[j] <=> p \in holders[j]
          BY <2>3, <3>2
        <5> QED
          BY <5>1
      <4>0. j # k
        BY <1>2, <3>2
      <4>2. \A p \in {Child(j), Grandchild(j)} : kin'[p] = kin[p]
        BY <1>1, <2>2, <4>0
      <4> QED
        BY <4>1, <4>2 DEF OneKeeper
    <3> QED
      BY <3>1, <3>2
  <2>7. OneChild'
    <3>1. /\ \A j \in Visitors : kin'[Grandchild(j)] # "zombie"
      BY <1>1, <2>2 DEF OneChild
    <3>2. \A j \in Visitors : kin'[Child(j)] \notin {"none", "gone"}
                                => kin[Child(j)] \notin {"none", "gone"}
      BY <1>1, <1>2, <2>1, <2>2
    <3> QED
      BY <1>2, <3>1, <3>2 DEF OneChild
  <2>8. Replied'
    BY <1>1, <1>2, <2>2 DEF Replied
  <2> QED
    BY <2>4, <2>5, <2>6, <2>7, <2>8
<1> QED
  BY <1>1, <1>3, <1>4 DEF Forks!ForkAgain, Child, Grandchild

LEMMA ServeKeeps ==
  ASSUME ForkInv, NEW p \in Kept, Forks!ServeOne(p)
  PROVE  ForkInv'
<1> USE KinFacts DEF ForkInv, ForkTyped, Living, Main, Backlog
<1>1. PICK k \in Visitors : p \in {Child(k), Grandchild(k)} /\ p[2] = k
  OBVIOUS
<1>2. /\ kin[p] = "recv" /\ kin' = [kin EXCEPT ![p] = Forks!Remains(p)]
      /\ UNCHANGED <<program, forkMain, forkCur, visitor>>
      /\ visitor[k] \in {"page", "missing", "fragment", "left"}
      /\ \E s \in Forks!Status(k) : reply' = [reply EXCEPT ![k] = s]
      /\ \A j \in Visitors : holders'[j] = holders[j] \ {p}
  BY <1>1 DEF Forks!ServeOne, Forks!Release, Forks!Asking
<1>3. /\ Forks!Remains(p) \in {"zombie", "gone"}
      /\ program # "redirect" \/ p = Grandchild(k) => Forks!Remains(p) = "gone"
  BY DEF Forks!Remains, Grandchild
<1>4. /\ Forks!Status(k) \subseteq {"none", "307", "200", "404"}
      /\ visitor[k] # "left" /\ (program = "redirect" \/ visitor[k] # "fragment")
           => "none" \notin Forks!Status(k)
  BY <1>2 DEF Forks!Status
<1>5. \A q \in Kept : kin'[q] = IF q = p THEN Forks!Remains(p) ELSE kin[q]
  BY <1>2
<1>6. /\ \A j \in Visitors \ {k} : reply'[j] = reply[j]
      /\ visitor[k] # "left" /\ (program = "redirect" \/ visitor[k] # "fragment")
           => reply'[k] # "none"
  BY <1>2, <1>4
<1>7. ForkTyped'
  <2>1. holders' = [j \in Visitors |-> holders'[j]]
    BY DEF Forks!ServeOne, Forks!Release
  <2>2. holders' \in [Visitors -> SUBSET ({Main, Backlog} \cup Kept)]
    <3>1. \A j \in Visitors : holders'[j] \subseteq {Main, Backlog} \cup Kept
      <4>1. \A j \in Visitors : holders[j] \subseteq {Main, Backlog} \cup Kept
        OBVIOUS
      <4> QED
        BY <1>2, <4>1, Zenon
    <3> QED
      BY <2>1, <3>1
  <2>3. reply' \in [Visitors -> {"none", "307", "200", "404"}]
    BY <1>2, <1>4
  <2>4. kin' \in [Kept -> Living \cup {"none", "zombie", "gone"}]
    BY <1>2, <1>3
  <2> QED
    BY <1>2, <2>2, <2>3, <2>4
<1>8. InHand'
  <2>1. \A j \in Visitors : Main \in holders'[j] <=> Main \in holders[j]
    BY <1>2
  <2>2. ASSUME NEW j \in forkCur, forkMain = "fork" PROVE holders'[j] = {Forks!Main}
    <3>1. holders[j] = {Main} /\ j \in Visitors
      BY <2>2 DEF InHand
    <3> QED
      BY <1>2, <3>1
  <2> QED
    BY <1>2, <2>1, <2>2 DEF InHand
<1>9. OneKeeper'
  <2>1. \A j \in Visitors, q \in Kept : kin'[q] \in Living => kin[q] \in Living /\ q # p
    BY <1>3, <1>5
  <2>2. \A j \in Visitors : Backlog \in holders'[j] => holders'[j] = {Backlog}
    BY <1>2 DEF OneKeeper
  <2>3. \A j \in Visitors : \A q, r \in holders'[j] \ {Main} : q = r
    <3>1. \A j \in Visitors : \A q \in holders'[j] \ {Main} : q \in holders[j] \ {Main}
      BY <1>2
    <3> QED
      BY <3>1 DEF OneKeeper
  <2>4. \A j \in Visitors : \A q \in {Child(j), Grandchild(j)} :
          kin'[q] \in Living => q \in holders'[j]
    BY <1>2, <2>1 DEF OneKeeper
  <2>5. \A j \in Visitors : visitor'[j] \in {"start", "ended", "dropped"} => holders'[j] = {}
    BY <1>2 DEF OneKeeper
  <2> QED
    BY <2>2, <2>3, <2>4, <2>5 DEF OneKeeper
<1>10. OneChild'
  <2>1. \A j \in Visitors : kin'[Grandchild(j)] # "zombie"
    BY <1>1, <1>3, <1>5 DEF OneChild
  <2>2. \A j \in Visitors : kin'[Child(j)] \notin {"none", "gone"}
                              => kin[Child(j)] \notin {"none", "gone"}
    BY <1>2, <1>5
  <2> QED
    BY <1>2, <2>1, <2>2 DEF OneChild
<1>11. Replied'
  <2>1. ASSUME NEW j \in Visitors, j # k
        PROVE  kin'[Child(j)] = kin[Child(j)] /\ kin'[Grandchild(j)] = kin[Grandchild(j)]
    BY <1>1, <1>5, <2>1
  <2> QED
    BY <1>2, <1>6, <2>1 DEF Replied
<1> QED
  BY <1>7, <1>8, <1>9, <1>10, <1>11

LEMMA ForkInvariance == ServersSpec => []ForkInv
<1>1. ServersInit => ForkInv
  BY ForkInitInv DEF ServersInit
<1>2. ForkInv /\ [ServersNext]_serversVars => ForkInv'
  <2> SUFFICES ASSUME ForkInv, [ServersNext]_serversVars PROVE ForkInv'
    OBVIOUS
  <2>1. CASE Forks!ForkNext
    BY <2>1, MainKeeps, ServeKeeps, ForkAgainKeeps, VisitKeeps
    DEF Forks!ForkNext, Forks!ForkKinStep, Kept, Forks!Kin
  <2>2. CASE UNCHANGED <<program, forkVars>>
    BY <2>2 DEF forkVars, ForkInv, ForkTyped, InHand, OneKeeper, OneChild, Replied
  <2> QED
    BY <2>1, <2>2 DEF ServersNext, serversVars
<1> QED
  BY <1>1, <1>2, PTL DEF ServersSpec

LEMMA ForkAloneIs ==
  Forks!ForkAlone <=>
    (forkMain = "accept" =>
       /\ \A k \in Visitors : Main \notin holders[k] /\ Cardinality(holders[k]) <= 1
       /\ program = "redirect" => \A k \in Visitors : kin[Child(k)] \in {"none", "gone"})
<1>1. \A S : Forks!Cardinality(S) = Cardinality(S)
  BY DEF Forks!Cardinality, Cardinality
<1> QED
  BY <1>1 DEF Forks!ForkAlone, Child, Main

\* A forking server, with however many visitors, holds no connection when it
\* accepts, each connection is kept open by one process at most and by none
\* that does not serve it, redirect reaps every child it makes, and whoever
\* saw the end of the stream had a reply if there was a process to send it.
THEOREM ForksServe == ServersSpec => []ForkServed
<1>1. ForkInv => Forks!ForkAlone
  <2> SUFFICES ASSUME ForkInv, forkMain = "accept"
               PROVE  /\ \A k \in Visitors : /\ Main \notin holders[k]
                                             /\ Cardinality(holders[k]) <= 1
                      /\ program = "redirect" =>
                           \A k \in Visitors : kin[Child(k)] \in {"none", "gone"}
    BY ForkAloneIs
  <2>1. ASSUME NEW k \in Visitors
        PROVE  Main \notin holders[k] /\ Cardinality(holders[k]) <= 1
    <3>1. Main \notin holders[k] /\ \A p, q \in holders[k] : p = q
      BY DEF ForkInv, InHand, OneKeeper, Main
    <3>2. CASE holders[k] = {}
      BY <3>1, <3>2, FS_EmptySet
    <3>3. ASSUME NEW p \in holders[k] PROVE Cardinality(holders[k]) <= 1
      <4>1. holders[k] = {p}
        BY <3>1
      <4>2. Cardinality({p}) = 1
        BY FS_Singleton
      <4> QED
        BY <4>1, <4>2
    <3> QED
      BY <3>1, <3>2, <3>3
  <2> QED
    BY <2>1 DEF ForkInv, OneChild
<1>2. ForkInv => Forks!ForkReplied
  <2> SUFFICES ASSUME ForkInv, NEW k \in Visitors,
                      visitor[k] = "ended"
                      \/ (visitor[k] = "dropped" /\ program = "redirect")
               PROVE  reply[k] # "none" \/ kin[Child(k)] = "none"
    BY DEF Forks!ForkReplied, Child
  <2>1. kin[Child(k)] \notin Living /\ kin[Grandchild(k)] \notin Living
    BY DEF ForkInv, OneKeeper
  <2>2. kin[Child(k)] \in {"none", "zombie", "gone"}
    BY <2>1, KinFacts DEF ForkInv, ForkTyped
  <2> QED
    BY <2>1, <2>2 DEF ForkInv, Replied, Living
<1> QED
  BY <1>1, <1>2, ForkInvariance, PTL DEF ForkServed

----------------------------------------------------------------------------
(* Sequences of one and two elements *)

LEMMA Singleton ==
  ASSUME NEW S, NEW u \in Seq(S), Len(u) = 1
  PROVE  u = <<u[1]>>
<1>1. PICK t \in Seq(S) : t = <<u[1]>>
  OBVIOUS
<1>2. Len(t) = 1 /\ t[1] = u[1]
  BY <1>1
<1> QED
  BY <1>1, <1>2, SeqEqual

LEMMA Pair ==
  ASSUME NEW S, NEW u \in Seq(S), Len(u) = 2
  PROVE  u = <<u[1], u[2]>>
<1>1. PICK t \in Seq(S) : t = <<u[1], u[2]>>
  OBVIOUS
<1>2. Len(t) = 2 /\ t[1] = u[1] /\ t[2] = u[2]
  BY <1>1
<1> QED
  BY <1>1, <1>2, SeqEqual

LEMMA PairParts ==
  ASSUME NEW f, NEW b
  PROVE  /\ SubSeq(<<f, b>>, 1, 1) = <<f>> /\ SubSeq(<<f, b>>, 1, 2) = <<f, b>>
         /\ SubSeq(<<f, b>>, 2, 2) = <<b>> /\ SubSeq(<<f, b>>, 3, 2) = <<>>
         /\ SubSeq(<<b>>, 1, 1) = <<b>> /\ SubSeq(<<b>>, 2, 1) = <<>>
         /\ <<f>> \o <<b>> = <<f, b>>
         /\ <<>> \o <<f>> = <<f>> /\ <<>> \o <<f, b>> = <<f, b>>
<1>1. PICK S : S = {f, b}
  OBVIOUS
<1>2. PICK s, t, u : s = <<f, b>> /\ t = <<f>> /\ u = <<b>>
  OBVIOUS
<1>3. /\ s \in Seq(S) /\ Len(s) = 2 /\ s[1] = f /\ s[2] = b
      /\ t \in Seq(S) /\ Len(t) = 1 /\ t[1] = f
      /\ u \in Seq(S) /\ Len(u) = 1 /\ u[1] = b
  BY <1>1, <1>2
<1>4. SubSeq(s, 1, 1) \in Seq(S) /\ Len(SubSeq(s,1,1)) = 1 /\ SubSeq(s,1,1)[1] = f
  BY <1>3, SubSeqProperties
<1>5. SubSeq(s,1,1) = t
  BY <1>2, <1>4, Singleton
<1>6. SubSeq(s, 2, 2) \in Seq(S) /\ Len(SubSeq(s,2,2)) = 1 /\ SubSeq(s,2,2)[1] = b
  BY <1>3, SubSeqProperties
<1>7. SubSeq(s,2,2) = u
  BY <1>2, <1>6, Singleton
<1>8. SubSeq(s,1,2) = s /\ SubSeq(u, 1, 1) = u
  BY <1>3, SubSeqFull
<1>9. SubSeq(s,3,2) = <<>> /\ SubSeq(u, 2, 1) = <<>>
  BY <1>3, SubSeqEmpty
<1>10. t \o u \in Seq(S) /\ Len(t \o u) = 2 /\ (t \o u)[1] = f /\ (t \o u)[2] = b
  <2>1. PICK w : w = t \o u
    OBVIOUS
  <2>2. /\ w \in Seq(S) /\ Len(w) = Len(t) + Len(u)
        /\ \A i \in 1 .. Len(t) + Len(u) :
              w[i] = IF i <= Len(t) THEN t[i] ELSE u[i - Len(t)]
    BY <1>3, <2>1, ConcatProperties
  <2>3. w \in Seq(S) /\ Len(w) = 2 /\ w[1] = f /\ w[2] = b
    BY <1>3, <2>2
  <2> QED
    BY <2>1, <2>3
<1>11. t \o u = s
  BY <1>2, <1>10, Pair
<1>12. <<>> \o t = t /\ <<>> \o s = s
  BY <1>3, ConcatEmptySeq
<1> QED
  BY <1>2, <1>5, <1>7, <1>8, <1>9, <1>11, <1>12

----------------------------------------------------------------------------
(* The calculator's arithmetic *)

LEMMA ModSmall ==
  ASSUME NEW a \in Nat, NEW b \in Nat, a < b
  PROVE  a % b = a
OBVIOUS

LEMMA Division ==
  ASSUME NEW a \in Nat, NEW b \in Nat, b > 0
  PROVE  a \div b \in Nat /\ a % b \in 0..b - 1 /\ a = b * (a \div b) + (a % b)
<1>1. a % b \in 0..b - 1
  OBVIOUS
<1>2. a = b * (a \div b) + (a % b)
  OBVIOUS
<1>3. a \div b \in Nat
  OBVIOUS
<1> QED
  BY <1>1, <1>2, <1>3

\* A product of naturals is as large as its factor.
LEMMA ProductGrows ==
  ASSUME NEW d \in Nat, NEW b \in Nat, b > 0
  PROVE  d <= b * d /\ (b > 1 /\ d > 0 => d < b * d)
OBVIOUS

Abs(n) == Cal!Abs(n)
Quot(x, y) == Cal!Quot(x, y)
Ints == Cal!Ints
MinInt == Cal!MinInt

LEMMA IntRange == MaxInt \in Nat /\ MinInt = -MaxInt - 1 /\ Ints = MinInt..MaxInt
BY ServersAssumption DEF Cal!CalAssumption, Ints, MinInt, Cal!Ints, Cal!MinInt

\* A result that an int can hold does not wrap.
LEMMA WrapFits ==
  ASSUME NEW n \in Ints
  PROVE  Cal!Wrap(n) = n
BY IntRange, ModSmall DEF Cal!Wrap, MinInt

\* The quotient is an int, save for the one that traps, and it is rounded
\* towards zero: what it leaves of the dividend is smaller than the divisor
\* and has the sign of the dividend.
LEMMA QuotientFits ==
  ASSUME NEW x \in Ints, NEW y \in Ints, y # 0, ~(x = MinInt /\ y = -1)
  PROVE  /\ Quot(x, y) \in Ints
         /\ \E m \in Ints : Cal!TruncatedDivision(x, y, Quot(x, y), m)
<1> USE IntRange
<1>1. PICK a \in Nat, b \in Nat : a = Abs(x) /\ b = Abs(y) /\ b > 0
  BY DEF Abs, Cal!Abs
<1>2. PICK d \in Nat, m \in Nat : d = a \div b /\ m = a % b
  BY <1>1, Division
<1>3. m < b /\ a = b * d + m /\ d <= a
  BY <1>1, <1>2, Division, ProductGrows
<1>4. Quot(x, y) = (IF (x < 0) = (y < 0) THEN 1 ELSE -1) * d
  BY <1>1, <1>2 DEF Quot, Cal!Quot, Abs
<1>5. (x >= 0 /\ a = x) \/ (x < 0 /\ a = -x)
  BY <1>1 DEF Abs, Cal!Abs
<1>6. (y > 0 /\ b = y) \/ (y < 0 /\ b = -y)
  BY <1>1 DEF Abs, Cal!Abs
<1>7. Quot(x, y) \in {d, -d} /\ (Quot(x, y) = -d \/ (x < 0 <=> y < 0))
  BY <1>4
<1>8. b <= MaxInt + 1 /\ a <= MaxInt + 1
  BY <1>5, <1>6
<1>9. Quot(x, y) \in Ints
  <2>1. CASE Quot(x, y) = -d
    BY <1>3, <1>8, <2>1
  <2>2. CASE Quot(x, y) = d /\ (x < 0 <=> y < 0)
    <3>1. CASE d <= MaxInt
      BY <2>2, <3>1
    <3>2. CASE d > MaxInt
      <4>1. a = MaxInt + 1 /\ d = a
        BY <1>3, <1>8, <3>2
      <4>2. x = MinInt /\ x < 0
        BY <1>5, <4>1
      <4>3. b > 1 /\ d > 0
        BY <1>1, <1>6, <2>2, <4>1, <4>2
      <4>4. d < b * d
        BY <4>3, ProductGrows
      <4> QED
        BY <1>3, <4>1, <4>4
    <3> QED
      BY <3>1, <3>2
  <2> QED
    BY <1>7, <2>1, <2>2
<1>10. PICK n : n = IF x < 0 THEN -m ELSE m
  OBVIOUS
<1>11. n \in Int /\ Quot(x, y) * y = x - n
  <2>1. CASE x >= 0 /\ y > 0
    <3>1. Quot(x, y) = d /\ a = x /\ b = y
      BY <1>4, <1>5, <1>6, <2>1
    <3> QED
      BY <1>3, <1>10, <2>1, <3>1
  <2>2. CASE x >= 0 /\ y < 0
    <3>1. Quot(x, y) = -d /\ a = x /\ b = -y
      BY <1>4, <1>5, <1>6, <2>2
    <3> QED
      BY <1>3, <1>10, <2>2, <3>1
  <2>3. CASE x < 0 /\ y > 0
    <3>1. Quot(x, y) = -d /\ a = -x /\ b = y
      BY <1>4, <1>5, <1>6, <2>3
    <3> QED
      BY <1>3, <1>10, <2>3, <3>1
  <2>4. CASE x < 0 /\ y < 0
    <3>1. Quot(x, y) = d /\ a = -x /\ b = -y
      BY <1>4, <1>5, <1>6, <2>4
    <3> QED
      BY <1>3, <1>10, <2>4, <3>1
  <2> QED
    BY <1>5, <1>6, <2>1, <2>2, <2>3, <2>4
<1>12. n \in Ints /\ (n # 0 => (n < 0 <=> x < 0))
  BY <1>3, <1>8, <1>10
<1>13. Cal!Abs(n) = m /\ Cal!Abs(y) = b
  BY <1>1, <1>10 DEF Cal!Abs, Abs
<1>14. x = Quot(x, y) * y + n
  <2>1. PICK p \in Int : p = Quot(x, y) * y
    BY <1>9
  <2> QED
    BY <1>11, <2>1
<1>15. Cal!TruncatedDivision(x, y, Quot(x, y), n)
  BY <1>3, <1>12, <1>13, <1>14 DEF Cal!TruncatedDivision
<1> QED
  BY <1>9, <1>12, <1>15

\* What calculatorHelper computes, if it does not trap, is what
\* CalAnswersRight asks of an answer.
RightAnswer(a, r) ==
  LET exact == CASE r.op = "+" -> r.x + r.y
                 [] r.op = "-" -> r.x - r.y
                 [] r.op = "*" -> r.x * r.y
                 [] OTHER -> MinInt - 1
  IN /\ <<a.x, a.op, a.y>> = <<r.x, r.op, r.y>>
     /\ exact \in Ints => <<a.code, a.result>> = <<0, exact>>
     /\ r.op = "/" /\ r.y # 0 =>
          a.code = 0 /\ \E rest \in Ints : Cal!TruncatedDivision(r.x, r.y, a.result, rest)
     /\ r.op = "%" /\ r.y # 0 =>
          a.code = 0 /\ \E q \in Ints : Cal!TruncatedDivision(r.x, r.y, q, a.result)
     /\ r.op \in {"/", "%"} /\ r.y = 0 => a.code = (IF r.op = "/" THEN 1 ELSE 2)
     /\ r.op \notin {"+", "-", "*", "/", "%"} => a.code = 3

LEMMA HelperRight ==
  ASSUME NEW r \in Requests, ~Cal!Traps(r)
  PROVE  RightAnswer(Cal!ResponseText(r), r)
<1>1. r.x \in Ints /\ r.y \in Ints
  BY ServersAssumption DEF Cal!CalAssumption, Ints
<1>2. PICK a : a = Cal!ResponseText(r)
  OBVIOUS
<1>3. /\ a.x = r.x /\ a.y = r.y /\ a.op = r.op
      /\ a.code = Cal!Helper(r)[1] /\ a.result = Cal!Helper(r)[2]
  BY <1>2 DEF Cal!ResponseText
<1> USE <1>3, IntRange DEF Cal!Helper
<1>4. MinInt - 1 \notin Ints
  OBVIOUS
<1>5. CASE r.op = "+"
  <2>1. a.code = 0 /\ a.result = Cal!Wrap(r.x + r.y)
    BY <1>5
  <2> QED
    BY <1>2, <1>5, <2>1, WrapFits DEF RightAnswer
<1>6. CASE r.op = "-"
  <2>1. a.code = 0 /\ a.result = Cal!Wrap(r.x - r.y)
    BY <1>6
  <2> QED
    BY <1>2, <1>6, <2>1, WrapFits DEF RightAnswer
<1>7. CASE r.op = "*"
  <2>1. a.code = 0 /\ a.result = Cal!Wrap(r.x * r.y)
    BY <1>7
  <2> QED
    BY <1>2, <1>7, <2>1, WrapFits DEF RightAnswer
<1>8. CASE r.op \in {"/", "%"} /\ r.y = 0
  <2>1. a.code = IF r.op = "/" THEN 1 ELSE 2
    BY <1>8
  <2> QED
    BY <1>2, <1>4, <1>8, <2>1 DEF RightAnswer
<1>9. CASE r.op \in {"/", "%"} /\ r.y # 0
  <2>1. PICK x, y : x = r.x /\ y = r.y
    OBVIOUS
  <2>2. x \in Ints /\ y \in Ints /\ y # 0 /\ ~(x = MinInt /\ y = -1)
    BY <1>1, <1>9, <2>1 DEF Cal!Traps, MinInt
  <2>3. PICK q, rest \in Ints : q = Quot(x, y) /\ Cal!TruncatedDivision(x, y, q, rest)
    BY <2>2, QuotientFits
  <2>4. x \in Int /\ y \in Int /\ q \in Int /\ rest \in Int
    BY <2>2, <2>3
  <2>5. x = q * y + rest
    BY <2>3 DEF Cal!TruncatedDivision
  <2>6. rest = x - y * q
    BY <2>4, <2>5
  <2>7. a.code = 0
    BY <1>9
  <2>8. CASE r.op = "/"
    <3>1. a.result = q
      BY <1>9, <2>1, <2>3, <2>8 DEF Quot
    <3>2. \E m \in Ints : Cal!TruncatedDivision(r.x, r.y, a.result, m)
      BY <2>1, <2>3, <3>1
    <3> QED
      BY <1>2, <1>4, <1>9, <2>7, <2>8, <3>2 DEF RightAnswer
  <2>9. CASE r.op = "%"
    <3>1. a.result = rest
      BY <1>9, <2>1, <2>3, <2>6, <2>9 DEF Quot
    <3>2. \E m \in Ints : Cal!TruncatedDivision(r.x, r.y, m, a.result)
      BY <2>1, <2>3, <3>1
    <3> QED
      BY <1>2, <1>4, <1>9, <2>7, <2>9, <3>2 DEF RightAnswer
  <2> QED
    BY <1>9, <2>8, <2>9
<1>10. CASE r.op \notin {"+", "-", "*", "/", "%"}
  <2>1. a.code = 3
    BY <1>10
  <2> QED
    BY <1>2, <1>4, <1>10, <2>1 DEF RightAnswer
<1> QED
  BY <1>5, <1>6, <1>7, <1>8, <1>9, <1>10

----------------------------------------------------------------------------
(* The calculator's connections *)

Front(text) == [text |-> text, part |-> "front"]
Back(text) == [text |-> text, part |-> "back"]
Package(text) == <<Front(text), Back(text)>>

\* What a receiver's buffer and its stream hold of one package.
Arriving(held, stream, text) ==
  \/ held = <<>> /\ stream = Package(text)
  \/ held = <<Front(text)>> /\ stream = <<Back(text)>>

ToServer(c) == Arriving(calInbuffer[c], calUp[c], calAsked[c])
NoneToServer(c) == calInbuffer[c] = <<>> /\ calUp[c] = <<>>
ToClient(c) == Arriving(calBuffer[c], calDown[c], Cal!ResponseText(calAsked[c]))
NoneToClient(c) == calBuffer[c] = <<>> /\ calDown[c] = <<>>

\* Where the client's latest request or its answer is: nowhere, on its way to
\* the server, in the thread, on its way back.
Idle(c) == NoneToServer(c) /\ NoneToClient(c) /\ calThread[c] # "send"
Requested(c) ==
  ToServer(c) /\ NoneToClient(c) /\ calThread[c] \notin {"none", "send"}
Computing(c) ==
  /\ NoneToServer(c) /\ NoneToClient(c) /\ calThread[c] = "send"
  /\ calPackage[c] = calAsked[c]
Replying(c) ==
  /\ NoneToServer(c) /\ ToClient(c) /\ calThread[c] \notin {"none", "send"}
  /\ ~Cal!Traps(calAsked[c])

Asking(c) ==
  /\ calAsked[c] = NoRequest => Idle(c) /\ calUser[c] # "recv"
  /\ Idle(c) \/ Requested(c) \/ Computing(c) \/ Replying(c)
  /\ calUser[c] = "connect" => Idle(c) /\ calThread[c] = "none" /\ calAsked[c] = NoRequest
  /\ calUser[c] = "ask" => Idle(c) /\ calThread[c] # "none"

\* What was printed answers what was asked.
Shown(c) ==
  calShown[c] # <<>> =>
    /\ calShown[c] = <<Cal!ResponseText(calAsked[c])>>
    /\ calAsked[c] # NoRequest /\ ~Cal!Traps(calAsked[c])
    /\ calUser[c] # "recv"

CalTyped ==
  /\ calMain \in {"daemon", "setup", "accept", "exit", "crash"}
  /\ calFiles \in [0..3 -> {"terminal", "null", "closed"}]
  /\ sigpipe \in {"kills", "ignored"} /\ calSpare \in Nat
  /\ calThread \in [Callers -> {"none", "backlog", "recv", "send", "lost",
                                "closed"}]
  /\ calPackage \in [Callers -> Requests \cup {NoRequest}]
  /\ calUser \in [Callers -> {"connect", "ask", "recv", "gone"}]
  /\ calAsked \in [Callers -> Requests \cup {NoRequest}]
  /\ DOMAIN calUp = Callers /\ DOMAIN calInbuffer = Callers
  /\ DOMAIN calDown = Callers /\ DOMAIN calBuffer = Callers
  /\ DOMAIN calShown = Callers

\* A crash has its cause in a request that traps, whose client cannot ask for
\* anything else.
Crashed ==
  /\ calMain # "daemon" => sigpipe = "ignored"
  /\ calMain = "crash" =>
       \E c \in Callers : /\ calAsked[c] # NoRequest /\ Cal!Traps(calAsked[c])
                          /\ calUser[c] \in {"recv", "gone"}

CalInv == CalTyped /\ Crashed /\ \A c \in Callers : Asking(c) /\ Shown(c)

LEMMA SendEncodes ==
  ASSUME NEW text
  PROVE  <<>> \o Cal!Encode(text) = Package(text)
BY PairParts DEF Cal!Encode, Package, Front, Back

LEMMA NoneReceived == Cal!Received(<<>>) = {}
<1>1. Len(<<>>) = 0
  OBVIOUS
<1> QED
  BY <1>1 DEF Cal!Received

\* recv() takes the front, or both pieces, or the back.
LEMMA Arrivals ==
  ASSUME NEW text, NEW buf, NEW stream, Arriving(buf, stream, text),
         NEW piece \in Cal!Received(stream)
  PROVE  \/ /\ ~Cal!Complete(buf \o piece)
            /\ Arriving(buf \o piece, Cal!Left(stream, piece), text)
         \/ /\ Cal!Complete(buf \o piece)
            /\ Cal!DecodedText(buf \o piece) = text
            /\ Cal!DecodedRest(buf \o piece) = <<>> /\ Cal!Left(stream, piece) = <<>>
<1>1. PICK f, b : f = Front(text) /\ b = Back(text)
  OBVIOUS
<1>2. f.text = text
  BY <1>1 DEF Front
<1>3. Len(<<f, b>>) = 2 /\ Len(<<f>>) = 1 /\ Len(<<b>>) = 1 /\ Head(<<f, b>>) = f
  OBVIOUS
<1>4. /\ Cal!Complete(<<f, b>>) /\ Cal!DecodedText(<<f, b>>) = text
      /\ Cal!DecodedRest(<<f, b>>) = <<>> /\ ~Cal!Complete(<<f>>)
  BY <1>2, <1>3, PairParts DEF Cal!Complete, Cal!DecodedText, Cal!DecodedRest
<1>5. CASE buf = <<>> /\ stream = <<f, b>>
  <2>1. piece \in {<<f>>, <<f, b>>}
    <3>1. PICK n \in 1..Len(stream) : piece = SubSeq(stream, 1, n)
      BY DEF Cal!Received
    <3>2. n = 1 \/ n = 2
      BY <1>3, <1>5
    <3> QED
      BY <1>5, <3>1, <3>2, PairParts
  <2>2. buf \o piece = piece
    BY <1>5, <2>1, PairParts
  <2>3. Cal!Left(<<f, b>>, <<f>>) = <<b>> /\ Cal!Left(<<f, b>>, <<f, b>>) = <<>>
    <3>1. PICK s, t : s = <<f, b>> /\ t = <<f>>
      OBVIOUS
    <3>2. Len(s) = 2 /\ Len(t) = 1
      BY <1>3, <3>1
    <3>3. Cal!Left(s, t) = SubSeq(s, 2, 2)
      BY <3>2 DEF Cal!Left
    <3>4. Cal!Left(s, s) = SubSeq(s, 3, 2)
      BY <3>2 DEF Cal!Left
    <3> QED
      BY <3>1, <3>3, <3>4, PairParts
  <2>4. CASE piece = <<f>>
    BY <1>1, <1>4, <1>5, <2>2, <2>3, <2>4 DEF Arriving, Package
  <2>5. CASE piece = <<f, b>>
    BY <1>4, <1>5, <2>2, <2>3, <2>5
  <2> QED
    BY <2>1, <2>4, <2>5
<1>6. CASE buf = <<f>> /\ stream = <<b>>
  <2>1. piece = <<b>>
    <3>1. PICK n \in 1..Len(stream) : piece = SubSeq(stream, 1, n)
      BY DEF Cal!Received
    <3>2. n = 1
      BY <1>3, <1>6
    <3> QED
      BY <1>6, <3>1, <3>2, PairParts
  <2>2. buf \o piece = <<f, b>>
    BY <1>6, <2>1, PairParts
  <2>3. Cal!Left(<<b>>, <<b>>) = <<>>
    BY <1>3, PairParts DEF Cal!Left
  <2> QED
    BY <1>4, <1>6, <2>1, <2>2, <2>3
<1> QED
  BY <1>1, <1>5, <1>6 DEF Arriving, Package

LEMMA PackageNotEmpty ==
  ASSUME NEW text
  PROVE  Package(text) # <<>> /\ <<Front(text)>> # <<>> /\ <<Back(text)>> # <<>>
<1>1. PICK f, b : f = Front(text) /\ b = Back(text)
  OBVIOUS
<1>2. <<f, b>> # <<>> /\ <<f>> # <<>> /\ <<b>> # <<>>
  <2>1. Len(<<f, b>>) = 2 /\ Len(<<f>>) = 1 /\ Len(<<b>>) = 1 /\ Len(<<>>) = 0
    OBVIOUS
  <2> QED
    BY <2>1
<1> QED
  BY <1>1, <1>2 DEF Package

\* What is on its way shows in the stream.
LEMMA ArrivingShows ==
  ASSUME NEW text, NEW buf, NEW stream, Arriving(buf, stream, text)
  PROVE  stream # <<>>
BY PackageNotEmpty DEF Arriving

\* Nothing about client d changes.
SameAt(d) ==
  /\ calThread'[d] = calThread[d] /\ calUp'[d] = calUp[d]
  /\ calInbuffer'[d] = calInbuffer[d] /\ calPackage'[d] = calPackage[d]
  /\ calDown'[d] = calDown[d] /\ calBuffer'[d] = calBuffer[d]
  /\ calUser'[d] = calUser[d] /\ calAsked'[d] = calAsked[d]
  /\ calShown'[d] = calShown[d]

LEMMA Elsewhere ==
  ASSUME NEW d \in Callers, SameAt(d), Asking(d), Shown(d)
  PROVE  Asking(d)' /\ Shown(d)'
BY DEF SameAt, Asking, Shown, Idle, Requested, Computing, Replying, ToServer,
       NoneToServer, ToClient, NoneToClient

\* A step of one client, or of its thread.
LEMMA StepOfOne ==
  ASSUME CalInv, NEW c \in Callers, CalTyped', Crashed', Asking(c)', Shown(c)',
         \A d \in Callers \ {c} : SameAt(d)
  PROVE  CalInv'
BY Elsewhere DEF CalInv

LEMMA CalInitInv == Cal!CalInit => CalInv
<1> SUFFICES ASSUME Cal!CalInit PROVE CalInv
  OBVIOUS
<1> USE DEF Cal!CalInit
<1>1. CalTyped
  BY ServersAssumption DEF CalTyped, Cal!CalAssumption
<1>2. Crashed
  BY DEF Crashed
<1>3. ASSUME NEW c \in Callers PROVE Asking(c) /\ Shown(c)
  BY DEF Asking, Shown, Idle, NoneToServer, NoneToClient
<1> QED
  BY <1>1, <1>2, <1>3 DEF CalInv

LEMMA MainStepKeeps ==
  ASSUME CalInv, Cal!CalMainStep
  PROVE  CalInv'
<1> USE DEF CalInv, Cal!CalMainStep, Cal!MyDaemon, Cal!Setup, Cal!clientVars
<1>1. CalTyped'
  <2>1. CASE Cal!MyDaemon
    <3>1. PICK F : F = [0..3 -> {"terminal", "null", "closed"}]
      OBVIOUS
    <3>2. /\ \A old, new \in 0..3, f \in F : Cal!Dup2(f, old, new) \in F
          /\ \A f \in F : [f EXCEPT ![3] = "null"] \in F
          /\ \A f \in F : [f EXCEPT ![3] = "closed"] \in F
      BY <3>1 DEF Cal!Dup2
    <3>3. 0 \in 0..3 /\ 1 \in 0..3 /\ 2 \in 0..3 /\ 3 \in 0..3
      OBVIOUS
    <3>4. \A f \in F : Cal!Redirected(f) \in F
      BY <3>2, <3>3, Zenon DEF Cal!Redirected
    <3>5. calFiles' \in F
      BY <2>1, <3>1, <3>4 DEF CalTyped
    <3> QED
      BY <2>1, <3>1, <3>5 DEF CalTyped, Cal!SigpipeAction
  <2>2. CASE Cal!Setup
    BY <2>2 DEF CalTyped
  <2> QED
    BY <2>1, <2>2
<1>2. Crashed'
  BY DEF Crashed, Cal!SigpipeAction
<1>3. \A d \in Callers : SameAt(d)
  BY DEF SameAt
<1> QED
  BY <1>1, <1>2, <1>3, Elsewhere

LEMMA AcceptKeeps ==
  ASSUME CalInv, NEW c \in Callers, Cal!Accept(c) \/ Cal!RecvEnd(c)
  PROVE  CalInv'
<1>0. CalTyped /\ Crashed /\ Asking(c) /\ Shown(c)
  BY DEF CalInv
<1>1. PICK to \in {"recv", "lost", "closed"} :
        calThread' = [calThread EXCEPT ![c] = to]
  BY DEF Cal!Accept, Cal!RecvEnd
<1>2. /\ UNCHANGED <<calMain, calFiles, sigpipe, calUp, calInbuffer, calPackage,
                     calDown, calBuffer, calUser, calAsked, calShown>>
      /\ calThread[c] \in {"backlog", "recv"}
  BY DEF Cal!Accept, Cal!RecvEnd, Cal!clientVars
<1>3. CalTyped'
  <2>1. calSpare' \in Nat
    BY <1>0 DEF Cal!Accept, Cal!RecvEnd, CalTyped
  <2> QED
    BY <1>0, <1>1, <1>2, <2>1 DEF CalTyped
<1>4. Crashed'
  BY <1>0, <1>2 DEF Crashed
<1>5. calThread'[c] = to /\ \A d \in Callers \ {c} : calThread'[d] = calThread[d]
  BY <1>0, <1>1 DEF CalTyped
<1>6. Asking(c)' /\ Shown(c)'
  BY <1>0, <1>2, <1>5 DEF Asking, Shown, Idle, Requested, Computing, Replying,
       ToServer, NoneToServer, ToClient, NoneToClient
<1>7. \A d \in Callers \ {c} : SameAt(d)
  BY <1>2, <1>5 DEF SameAt
<1> QED
  BY <1>3, <1>4, <1>6, <1>7, StepOfOne

\* The thread receives: its client's latest request is on its way.
LEMMA RecvKeeps ==
  ASSUME CalInv, NEW c \in Callers, Cal!Recv(c)
  PROVE  CalInv'
<1>0. CalTyped /\ Crashed /\ Asking(c) /\ Shown(c)
  BY DEF CalInv
<1>1. UNCHANGED <<calMain, calFiles, sigpipe, calSpare, calDown, calBuffer, calUser,
                  calAsked, calShown>> /\ calThread[c] = "recv"
  BY DEF Cal!Recv, Cal!clientVars
<1>p. PICK piece \in Cal!Received(calUp[c]) : \E buf :
        /\ buf = calInbuffer[c] \o piece
        /\ calUp' = [calUp EXCEPT ![c] = Cal!Left(calUp[c], piece)]
        /\ \/ /\ Cal!Complete(buf)
              /\ calInbuffer' = [calInbuffer EXCEPT ![c] = Cal!DecodedRest(buf)]
              /\ calPackage' = [calPackage EXCEPT ![c] = Cal!DecodedText(buf)]
              /\ calThread' = [calThread EXCEPT ![c] = "send"]
           \/ /\ ~Cal!Complete(buf)
              /\ calInbuffer' = [calInbuffer EXCEPT ![c] = buf]
              /\ UNCHANGED <<calPackage, calThread>>
  BY DEF Cal!Recv
<1>2. PICK buf :
        /\ piece \in Cal!Received(calUp[c])
        /\ buf = calInbuffer[c] \o piece
        /\ calUp' = [calUp EXCEPT ![c] = Cal!Left(calUp[c], piece)]
        /\ \/ /\ Cal!Complete(buf)
              /\ calInbuffer' = [calInbuffer EXCEPT ![c] = Cal!DecodedRest(buf)]
              /\ calPackage' = [calPackage EXCEPT ![c] = Cal!DecodedText(buf)]
              /\ calThread' = [calThread EXCEPT ![c] = "send"]
           \/ /\ ~Cal!Complete(buf)
              /\ calInbuffer' = [calInbuffer EXCEPT ![c] = buf]
              /\ UNCHANGED <<calPackage, calThread>>
  BY <1>p
<1>3. Requested(c)
  <2>1. calUp[c] # <<>>
    BY <1>2, NoneReceived
  <2> QED
    BY <1>0, <1>1, <2>1 DEF Asking, Idle, Computing, Replying, NoneToServer
<1>4. calAsked[c] # NoRequest /\ calUser[c] \notin {"connect", "ask"}
  <2>1. ~Idle(c)
    BY <1>3, ArrivingShows DEF Idle, Requested, ToServer, NoneToServer
  <2> QED
    BY <1>0, <2>1 DEF Asking
<1>5. \/ /\ ~Cal!Complete(buf)
         /\ Arriving(buf, Cal!Left(calUp[c], piece), calAsked[c])
      \/ /\ Cal!Complete(buf) /\ Cal!DecodedText(buf) = calAsked[c]
         /\ Cal!DecodedRest(buf) = <<>> /\ Cal!Left(calUp[c], piece) = <<>>
  BY <1>2, <1>3, Arrivals DEF Requested, ToServer
<1>6. CalTyped'
  <2>1. calAsked[c] \in Requests
    BY <1>0, <1>4 DEF CalTyped
  <2>2. DOMAIN calUp' = Callers
    BY <1>0, <1>2 DEF CalTyped
  <2>3. CASE Cal!Complete(buf)
    <3>1. /\ calInbuffer' = [calInbuffer EXCEPT ![c] = Cal!DecodedRest(buf)]
          /\ calPackage' = [calPackage EXCEPT ![c] = calAsked[c]]
          /\ calThread' = [calThread EXCEPT ![c] = "send"]
      BY <1>2, <1>5, <2>3
    <3>2. calPackage' \in [Callers -> Requests \cup {NoRequest}]
      BY <1>0, <2>1, <3>1 DEF CalTyped
    <3> QED
      BY <1>0, <1>1, <2>2, <3>1, <3>2 DEF CalTyped
  <2>4. CASE ~Cal!Complete(buf)
    BY <1>0, <1>1, <1>2, <2>2, <2>4 DEF CalTyped
  <2> QED
    BY <2>3, <2>4
<1>7. Crashed'
  BY <1>0, <1>1 DEF Crashed
<1>8. \A d \in Callers \ {c} : SameAt(d)
  BY <1>0, <1>1, <1>2 DEF SameAt, CalTyped
<1>9. Shown(c)'
  BY <1>0, <1>1 DEF Shown
<1>10. Asking(c)'
  <2>1. NoneToClient(c)'
    BY <1>1, <1>3 DEF Requested, NoneToClient
  <2>2. CASE Cal!Complete(buf)
    <3>1. /\ calUp'[c] = <<>> /\ calInbuffer'[c] = <<>> /\ calThread'[c] = "send"
          /\ calPackage'[c] = calAsked[c]
      BY <1>0, <1>2, <1>5, <2>2 DEF CalTyped
    <3>2. Computing(c)'
      BY <1>1, <2>1, <3>1 DEF Computing, NoneToServer
    <3> QED
      BY <1>1, <1>4, <3>2 DEF Asking
  <2>3. CASE ~Cal!Complete(buf)
    <3>1. /\ calUp'[c] = Cal!Left(calUp[c], piece) /\ calInbuffer'[c] = buf
          /\ calThread'[c] = "recv"
      BY <1>0, <1>1, <1>2, <2>3 DEF CalTyped
    <3>2. Requested(c)'
      BY <1>1, <1>5, <2>1, <2>3, <3>1 DEF Requested, ToServer
    <3> QED
      BY <1>1, <1>4, <3>2 DEF Asking
  <2> QED
    BY <2>2, <2>3
<1> QED
  BY <1>6, <1>7, <1>8, <1>9, <1>10, StepOfOne

\* The thread computes and sends: the request in its hands is its client's
\* latest one.
LEMMA SendKeeps ==
  ASSUME CalInv, NEW c \in Callers, Cal!Send(c)
  PROVE  CalInv'
<1>0. CalTyped /\ Crashed /\ Asking(c) /\ Shown(c)
  BY DEF CalInv
<1>1. /\ UNCHANGED <<calFiles, sigpipe, calSpare, calUp, calInbuffer, calBuffer,
                     calUser, calAsked, calShown>>
      /\ calMain = "accept" /\ calThread[c] = "send"
      /\ calThread' = [calThread EXCEPT ![c] = "recv"]
      /\ calPackage' = [calPackage EXCEPT ![c] = NoRequest]
  BY DEF Cal!Send, Cal!clientVars
<1>2. Computing(c) /\ ~Idle(c)
  BY <1>0, <1>1 DEF Asking, Idle, Requested, Replying
<1>3. calAsked[c] # NoRequest /\ calUser[c] \in {"recv", "gone"}
  BY <1>0, <1>2 DEF Asking, CalTyped
<1>4. \/ /\ ~Cal!Traps(calAsked[c])
         /\ calDown' = [calDown EXCEPT ![c] =
              calDown[c] \o Cal!Encode(Cal!ResponseText(calAsked[c]))]
         /\ calMain' = calMain
      \/ /\ calUser[c] = "gone" /\ calDown' = calDown /\ calMain' = calMain
      \/ /\ Cal!Traps(calAsked[c]) /\ calDown' = calDown /\ calMain' = "crash"
  BY <1>0, <1>1, <1>2 DEF Cal!Send, Computing, Crashed
<1>5. /\ calThread'[c] = "recv"
      /\ \A d \in Callers \ {c} : /\ calThread'[d] = calThread[d]
                                  /\ calPackage'[d] = calPackage[d]
                                  /\ calDown'[d] = calDown[d]
  BY <1>0, <1>1, <1>4 DEF CalTyped
<1>6. CalTyped'
  <2>1. DOMAIN calDown' = Callers /\ calMain' \in {"accept", "crash"}
    BY <1>0, <1>1, <1>4 DEF CalTyped
  <2> QED
    BY <1>0, <1>1, <2>1 DEF CalTyped
<1>7. Crashed'
  BY <1>0, <1>1, <1>3, <1>4 DEF Crashed
<1>8. \A d \in Callers \ {c} : SameAt(d)
  BY <1>1, <1>5 DEF SameAt
<1>9. Shown(c)'
  BY <1>0, <1>1 DEF Shown
<1>10. Asking(c)'
  <2>1. CASE calDown' = calDown
    <3>1. Idle(c)'
      BY <1>1, <1>2, <1>5, <2>1 DEF Idle, Computing, NoneToServer, NoneToClient
    <3> QED
      BY <1>1, <1>3, <3>1 DEF Asking
  <2>2. CASE /\ ~Cal!Traps(calAsked[c])
             /\ calDown' = [calDown EXCEPT ![c] =
                  calDown[c] \o Cal!Encode(Cal!ResponseText(calAsked[c]))]
    <3>1. calDown'[c] = <<>> \o Cal!Encode(Cal!ResponseText(calAsked[c]))
      BY <1>0, <1>2, <2>2 DEF CalTyped, Computing, NoneToClient
    <3>2. calDown'[c] = Package(Cal!ResponseText(calAsked[c]))
      BY <3>1, SendEncodes
    <3>3. ToClient(c)'
      BY <1>1, <1>2, <3>2 DEF ToClient, Arriving, Computing, NoneToClient
    <3>4. Replying(c)'
      BY <1>1, <1>2, <1>5, <2>2, <3>3 DEF Replying, Computing, NoneToServer
    <3> QED
      BY <1>1, <1>3, <3>4 DEF Asking
  <2> QED
    BY <1>4, <2>1, <2>2
<1> QED
  BY <1>6, <1>7, <1>8, <1>9, <1>10, StepOfOne

LEMMA ConnectKeeps ==
  ASSUME CalInv, NEW c \in Callers, Cal!Connect(c)
  PROVE  CalInv'
<1>0. CalTyped /\ Crashed /\ Asking(c) /\ Shown(c)
  BY DEF CalInv
<1>1. /\ UNCHANGED <<calMain, calFiles, sigpipe, calSpare, calUp, calInbuffer, calPackage,
                     calDown, calBuffer, calAsked, calShown>>
      /\ calUser[c] = "connect"
      /\ \/ /\ calUser' = [calUser EXCEPT ![c] = "ask"]
            /\ calThread' = [calThread EXCEPT ![c] = "backlog"]
         \/ /\ calUser' = [calUser EXCEPT ![c] = "gone"]
            /\ calThread' = calThread
  BY DEF Cal!Connect
<1>2. Idle(c) /\ calThread[c] = "none" /\ calAsked[c] = NoRequest
  BY <1>0, <1>1 DEF Asking
<1>3. /\ \/ calUser'[c] = "ask" /\ calThread'[c] = "backlog"
         \/ calUser'[c] = "gone" /\ calThread'[c] = "none"
      /\ \A d \in Callers \ {c} : /\ calThread'[d] = calThread[d]
                                  /\ calUser'[d] = calUser[d]
  BY <1>0, <1>1, <1>2 DEF CalTyped
<1>4. CalTyped'
  BY <1>0, <1>1 DEF CalTyped
<1>5. Crashed'
  BY <1>0, <1>1, <1>2, <1>3 DEF Crashed
<1>6. Asking(c)'
  <2>1. Idle(c)'
    BY <1>1, <1>2, <1>3 DEF Idle, NoneToServer, NoneToClient
  <2> QED
    BY <1>3, <2>1 DEF Asking
<1>7. Shown(c)'
  BY <1>0, <1>1, <1>3 DEF Shown
<1>8. \A d \in Callers \ {c} : SameAt(d)
  BY <1>1, <1>3 DEF SameAt
<1> QED
  BY <1>4, <1>5, <1>6, <1>7, <1>8, StepOfOne

\* Only a client with nothing on its way asks.
LEMMA AskKeeps ==
  ASSUME CalInv, NEW c \in Callers, Cal!Ask(c)
  PROVE  CalInv'
<1>0. CalTyped /\ Crashed /\ Asking(c) /\ Shown(c)
  BY DEF CalInv
<1>1. /\ UNCHANGED <<calMain, calFiles, sigpipe, calSpare, calThread, calInbuffer,
                     calPackage, calDown, calBuffer>>
      /\ calUser[c] = "ask"
      /\ calShown' = [calShown EXCEPT ![c] = <<>>]
      /\ calUser' = [calUser EXCEPT ![c] = "recv"]
  BY DEF Cal!Ask, Cal!serverVars
<1>2. PICK r \in Requests :
        /\ calAsked' = [calAsked EXCEPT ![c] = r]
        /\ calUp' = [calUp EXCEPT ![c] = calUp[c] \o Cal!Encode(r)]
  BY DEF Cal!Ask, Cal!RequestText
<1>3. Idle(c) /\ calThread[c] # "none"
  BY <1>0, <1>1 DEF Asking
<1>4. /\ calUser'[c] = "recv" /\ calAsked'[c] = r /\ calShown'[c] = <<>>
      /\ calUp'[c] = <<>> \o Cal!Encode(r)
      /\ \A d \in Callers \ {c} : /\ calUser'[d] = calUser[d]
                                  /\ calAsked'[d] = calAsked[d]
                                  /\ calShown'[d] = calShown[d]
                                  /\ calUp'[d] = calUp[d]
  BY <1>0, <1>1, <1>2, <1>3 DEF CalTyped, Idle, NoneToServer
<1>5. CalTyped'
  BY <1>0, <1>1, <1>2 DEF CalTyped
<1>6. Crashed'
  BY <1>0, <1>1, <1>4 DEF Crashed
<1>7. Asking(c)'
  <2>1. r # NoRequest
    BY ServersAssumption DEF Cal!CalAssumption
  <2>2. calUp'[c] = Package(r)
    BY <1>4, SendEncodes
  <2>3. ToServer(c)'
    BY <1>1, <1>3, <1>4, <2>2 DEF ToServer, Arriving, Idle, NoneToServer
  <2>4. Requested(c)'
    BY <1>1, <1>3, <2>3 DEF Requested, Idle, NoneToClient
  <2> QED
    BY <1>4, <2>1, <2>4 DEF Asking
<1>8. Shown(c)'
  BY <1>4 DEF Shown
<1>9. \A d \in Callers \ {c} : SameAt(d)
  BY <1>1, <1>4 DEF SameAt
<1> QED
  BY <1>5, <1>6, <1>7, <1>8, <1>9, StepOfOne

\* What the client receives is the answer to its latest request.
LEMMA ShowKeeps ==
  ASSUME CalInv, NEW c \in Callers, Cal!Show(c)
  PROVE  CalInv'
<1>0. CalTyped /\ Crashed /\ Asking(c) /\ Shown(c)
  BY DEF CalInv
<1>1. UNCHANGED <<calMain, calFiles, sigpipe, calSpare, calThread, calInbuffer,
                  calPackage, calUp, calAsked>> /\ calUser[c] = "recv"
  BY DEF Cal!Show, Cal!serverVars
<1>p. PICK piece \in Cal!Received(calDown[c]) : \E buf :
        /\ buf = calBuffer[c] \o piece
        /\ calDown' = [calDown EXCEPT ![c] = Cal!Left(calDown[c], piece)]
        /\ \/ /\ Cal!Complete(buf)
              /\ calBuffer' = [calBuffer EXCEPT ![c] = Cal!DecodedRest(buf)]
              /\ calShown' = [calShown EXCEPT ![c] = <<Cal!DecodedText(buf)>>]
              /\ calUser' = [calUser EXCEPT ![c] = "ask"]
           \/ /\ ~Cal!Complete(buf)
              /\ calBuffer' = [calBuffer EXCEPT ![c] = buf]
              /\ UNCHANGED <<calShown, calUser>>
  BY DEF Cal!Show
<1>2. PICK buf :
        /\ piece \in Cal!Received(calDown[c])
        /\ buf = calBuffer[c] \o piece
        /\ calDown' = [calDown EXCEPT ![c] = Cal!Left(calDown[c], piece)]
        /\ \/ /\ Cal!Complete(buf)
              /\ calBuffer' = [calBuffer EXCEPT ![c] = Cal!DecodedRest(buf)]
              /\ calShown' = [calShown EXCEPT ![c] = <<Cal!DecodedText(buf)>>]
              /\ calUser' = [calUser EXCEPT ![c] = "ask"]
           \/ /\ ~Cal!Complete(buf)
              /\ calBuffer' = [calBuffer EXCEPT ![c] = buf]
              /\ UNCHANGED <<calShown, calUser>>
  BY <1>p
<1>3. Replying(c) /\ calAsked[c] # NoRequest
  <2>1. calDown[c] # <<>>
    BY <1>2, NoneReceived
  <2> QED
    BY <1>0, <1>1, <2>1 DEF Asking, Idle, Requested, Computing, NoneToClient
<1>4. \/ /\ ~Cal!Complete(buf)
         /\ Arriving(buf, Cal!Left(calDown[c], piece), Cal!ResponseText(calAsked[c]))
      \/ /\ Cal!Complete(buf)
         /\ Cal!DecodedText(buf) = Cal!ResponseText(calAsked[c])
         /\ Cal!DecodedRest(buf) = <<>> /\ Cal!Left(calDown[c], piece) = <<>>
  BY <1>2, <1>3, Arrivals DEF Replying, ToClient
<1>5. /\ calDown'[c] = Cal!Left(calDown[c], piece)
      /\ \/ /\ Cal!Complete(buf) /\ calBuffer'[c] = Cal!DecodedRest(buf)
            /\ calShown'[c] = <<Cal!DecodedText(buf)>> /\ calUser'[c] = "ask"
         \/ /\ ~Cal!Complete(buf) /\ calBuffer'[c] = buf
            /\ calShown'[c] = calShown[c] /\ calUser'[c] = calUser[c]
      /\ \A d \in Callers \ {c} : /\ calDown'[d] = calDown[d]
                                  /\ calBuffer'[d] = calBuffer[d]
                                  /\ calShown'[d] = calShown[d]
                                  /\ calUser'[d] = calUser[d]
  BY <1>0, <1>2 DEF CalTyped
<1>6. CalTyped'
  <2>1. DOMAIN calDown' = Callers /\ DOMAIN calBuffer' = Callers
    BY <1>0, <1>2 DEF CalTyped
  <2>2. /\ DOMAIN calShown' = Callers
        /\ calUser' \in [Callers -> {"connect", "ask", "recv", "gone"}]
    BY <1>0, <1>2 DEF CalTyped
  <2> QED
    BY <1>0, <1>1, <2>1, <2>2 DEF CalTyped
<1>7. Crashed'
  BY <1>0, <1>1, <1>3, <1>5 DEF Crashed, Replying
<1>8. \A d \in Callers \ {c} : SameAt(d)
  BY <1>1, <1>5 DEF SameAt
<1>9. CASE Cal!Complete(buf)
  <2>1. /\ calDown'[c] = <<>> /\ calBuffer'[c] = <<>> /\ calUser'[c] = "ask"
        /\ calShown'[c] = <<Cal!ResponseText(calAsked[c])>>
    BY <1>4, <1>5, <1>9
  <2>2. Idle(c)'
    BY <1>1, <1>3, <2>1 DEF Idle, Replying, NoneToServer, NoneToClient
  <2>3. Asking(c)'
    BY <1>1, <1>3, <2>1, <2>2 DEF Asking, Replying
  <2>4. Shown(c)'
    BY <1>1, <1>3, <2>1 DEF Shown, Replying
  <2> QED
    BY <1>6, <1>7, <1>8, <2>3, <2>4, StepOfOne
<1>10. CASE ~Cal!Complete(buf)
  <2>1. /\ calDown'[c] = Cal!Left(calDown[c], piece) /\ calBuffer'[c] = buf
        /\ calUser'[c] = "recv" /\ calShown'[c] = calShown[c]
    BY <1>1, <1>5, <1>10
  <2>2. ToClient(c)'
    BY <1>1, <1>4, <1>10, <2>1 DEF ToClient
  <2>3. Replying(c)'
    BY <1>1, <1>3, <2>2 DEF Replying, NoneToServer
  <2>4. Asking(c)'
    BY <1>1, <1>3, <2>1, <2>3 DEF Asking
  <2>5. Shown(c)'
    BY <1>0, <1>1, <2>1 DEF Shown
  <2> QED
    BY <1>6, <1>7, <1>8, <2>4, <2>5, StepOfOne
<1> QED
  BY <1>9, <1>10

LEMMA LeaveKeeps ==
  ASSUME CalInv, NEW c \in Callers, Cal!HangUp(c) \/ Cal!Leave(c)
  PROVE  CalInv'
<1>0. CalTyped /\ Crashed /\ Asking(c) /\ Shown(c)
  BY DEF CalInv
<1>1. /\ UNCHANGED <<calMain, calFiles, sigpipe, calSpare, calThread, calInbuffer,
                     calPackage, calUp, calDown, calBuffer, calAsked, calShown>>
      /\ calUser' = [calUser EXCEPT ![c] = "gone"]
  BY DEF Cal!HangUp, Cal!Leave, Cal!serverVars
<1>2. /\ calUser'[c] = "gone"
      /\ \A d \in Callers \ {c} : calUser'[d] = calUser[d]
  BY <1>0, <1>1 DEF CalTyped
<1>3. CalTyped'
  BY <1>0, <1>1 DEF CalTyped
<1>4. Crashed'
  BY <1>0, <1>1, <1>2 DEF Crashed
<1>5. Asking(c)'
  BY <1>0, <1>1, <1>2 DEF Asking, Idle, Requested, Computing, Replying, ToServer,
       NoneToServer, ToClient, NoneToClient
<1>6. Shown(c)'
  BY <1>0, <1>1, <1>2 DEF Shown
<1>7. \A d \in Callers \ {c} : SameAt(d)
  BY <1>1, <1>2 DEF SameAt
<1> QED
  BY <1>3, <1>4, <1>5, <1>6, <1>7, StepOfOne

LEMMA CalStepKeeps ==
  ASSUME CalInv, [ServersNext]_serversVars
  PROVE  CalInv'
<1>1. CASE Cal!CalNext
  BY <1>1, MainStepKeeps, AcceptKeeps, RecvKeeps, SendKeeps, ConnectKeeps,
     AskKeeps, ShowKeeps, LeaveKeeps
     DEF Cal!CalNext, Cal!CalThreadStep, Cal!CalClientStep
<1>2. CASE UNCHANGED calVars
  <2>1. CalTyped' /\ Crashed' /\ \A d \in Callers : SameAt(d)
    BY <1>2 DEF calVars, CalInv, CalTyped, Crashed, SameAt
  <2> QED
    BY <2>1, Elsewhere DEF CalInv
<1> QED
  BY <1>1, <1>2 DEF ServersNext, serversVars

LEMMA CalInvariance == ServersSpec => []CalInv
<1>1. ServersInit => CalInv
  BY CalInitInv DEF ServersInit
<1>2. CalInv /\ [ServersNext]_serversVars => CalInv'
  BY CalStepKeeps
<1> QED
  BY <1>1, <1>2, PTL DEF ServersSpec

\* What a client of the calculator prints is the answer to its own latest
\* request, whatever the pieces the streams delivered, for every width of an
\* int and all operands of that width (calculatorHelper in CalServer.cc, and
\* CalClient.cc).
THEOREM CalculatorAnswers == ServersSpec => []CalAnswersRight
<1>1. CalInv => CalAnswersRight
  <2> SUFFICES ASSUME CalInv, NEW c \in Callers, calShown[c] # <<>>
               PROVE  RightAnswer(calShown[c][1], calAsked[c])
    BY DEF CalAnswersRight, Cal!CalAnswersRight, RightAnswer, Ints, MinInt, Abs
  <2>1. /\ calShown[c] = <<Cal!ResponseText(calAsked[c])>>
        /\ calAsked[c] \in Requests /\ ~Cal!Traps(calAsked[c])
    BY DEF CalInv, Shown, CalTyped
  <2>2. calShown[c][1] = Cal!ResponseText(calAsked[c])
    BY <2>1
  <2> QED
    BY <2>1, <2>2, HelperRight
<1> QED
  BY <1>1, CalInvariance, PTL

\* The calculator ends only by the quotient that an int cannot hold: SIGPIPE
\* is ignored before the first connection is accepted (Daemon.hpp).
THEOREM CalculatorEndsByTrap == ServersSpec => []CalEndsOnlyByTrap
<1>1. CalInv => CalEndsOnlyByTrap
  BY DEF CalInv, Crashed, CalEndsOnlyByTrap, Cal!CalEndsOnlyByTrap
<1> QED
  BY <1>1, CalInvariance, PTL

----------------------------------------------------------------------------
(* The datagram servers' buffers *)

\* What a text can hold, and what a buffer can.
Occurring == UNION {{x[i] : i \in DOMAIN x} : x \in Texts}
Chars == Occurring \ {Nul, Garbage}
Bytes == Chars \cup {Nul, Garbage}

LEMMA TextsAreSequences == \A t \in Texts : t \in Seq(Chars) /\ t \in Seq(Bytes)
<1> TAKE t \in Texts
<1>1. PICK S : S = {t[i] : i \in DOMAIN t} \ {Nul, Garbage}
  OBVIOUS
<1>2. t \in Seq(S)
  BY <1>1, ServersAssumption DEF Udp!UdpAssumption
<1>3. PICK T, W : /\ T = {t[i] : i \in DOMAIN t}
                  /\ W = {{x[i] : i \in DOMAIN x} : x \in Texts}
  OBVIOUS
<1>4. S \subseteq Chars
  <2>1. T \in W /\ S = T \ {Nul, Garbage} /\ Occurring = UNION W
    BY <1>1, <1>3 DEF Occurring
  <2>2. T \subseteq UNION W
    BY <2>1, Zenon
  <2> QED
    BY <2>1, <2>2 DEF Chars
<1>5. S \subseteq Bytes
  BY <1>4 DEF Bytes
<1> QED
  BY <1>2, <1>4, <1>5, SeqMonotonic

LEMMA NulIsNoChar == /\ Nul \notin Chars /\ Chars \subseteq Bytes
                     /\ Nul \in Bytes /\ Garbage \in Bytes
BY DEF Chars, Bytes

\* A buffer is read up to its first 0.
LEMMA ReadsUpToNul ==
  ASSUME NEW S, NEW w \in Seq(S), NEW n \in Nat, n < Len(w), w[n + 1] = Nul,
         \A i \in 1..n : w[i] # Nul
  PROVE  Udp!CString(w) = SubSeq(w, 1, n)
<1>1. PICK ends : ends = {i \in 1..Len(w) : w[i] = Nul}
  OBVIOUS
<1>2. Len(w) \in Nat
  BY LenProperties
<1>3. n + 1 \in ends /\ \A j \in ends : n + 1 <= j
  BY <1>1, <1>2
<1>4. \A i \in ends : i \in Nat
  BY <1>1, <1>2
<1>5. PICK k : k = CHOOSE i \in ends : \A j \in ends : i <= j
  OBVIOUS
<1>6. k \in ends /\ \A j \in ends : k <= j
  BY <1>3, <1>5
<1>7. k = n + 1
  BY <1>3, <1>4, <1>6
<1>8. Udp!CString(w) = SubSeq(w, 1, k - 1)
  BY <1>1, <1>3, <1>5 DEF Udp!CString
<1> QED
  BY <1>7, <1>8

\* What recvfrom() puts into the buffer is what is read there, whatever was
\* in it before.
LEMMA FillReads ==
  ASSUME NEW t \in Seq(Chars), NEW old \in Seq(Bytes)
  PROVE  /\ Udp!Fill(old, t) \in Seq(Bytes)
         /\ Udp!CString(Udp!Fill(old, t)) = t
<1>0. PICK nul : nul = <<Nul>>
  OBVIOUS
<1>1. nul = <<Nul>> /\ nul \in Seq(Bytes) /\ Len(nul) = 1 /\ nul[1] = Nul
  BY <1>0, NulIsNoChar
<1>2. t \in Seq(Bytes) /\ Len(t) \in Nat /\ Len(old) \in Nat
  BY NulIsNoChar, SeqMonotonic, LenProperties
<1>3. PICK rest : rest = SubSeq(old, Len(t) + 2, Len(old))
  OBVIOUS
<1>4. rest \in Seq(Bytes) /\ Len(rest) \in Nat
  <2>1. \A i \in Len(t) + 2 .. Len(old) : old[i] \in Bytes
    BY <1>2, ElementOfSeq
  <2>2. Len(t) + 2 \in Int /\ Len(old) \in Int
    BY <1>2
  <2>3. rest \in Seq(Bytes)
    BY <1>3, <2>1, <2>2, SubSeqProperties
  <2> QED
    BY <2>3, LenProperties
<1>5. PICK h : h = t \o nul
  OBVIOUS
<1>6. /\ h \in Seq(Bytes) /\ Len(h) = Len(t) + 1
      /\ \A i \in 1 .. Len(t) + 1 : h[i] = IF i <= Len(t) THEN t[i] ELSE nul[i - Len(t)]
  BY <1>1, <1>2, <1>5, ConcatProperties
<1>7. h[Len(t) + 1] = Nul /\ \A i \in 1..Len(t) : h[i] = t[i]
  BY <1>1, <1>2, <1>6
<1>8. PICK w : w = h \o rest
  OBVIOUS
<1>9. /\ w \in Seq(Bytes) /\ Len(w) = Len(h) + Len(rest)
      /\ \A i \in 1 .. Len(h) + Len(rest) :
           w[i] = IF i <= Len(h) THEN h[i] ELSE rest[i - Len(h)]
  BY <1>4, <1>6, <1>8, ConcatProperties
<1>10. w[Len(t) + 1] = Nul /\ Len(t) < Len(w) /\ \A i \in 1..Len(t) : w[i] = t[i]
  BY <1>2, <1>4, <1>6, <1>7, <1>9
<1>11. \A i \in 1..Len(t) : t[i] # Nul
  BY ElementOfSeq, NulIsNoChar
<1>12. Udp!CString(w) = SubSeq(w, 1, Len(t))
  BY <1>2, <1>9, <1>10, <1>11, ReadsUpToNul
<1>13. SubSeq(w, 1, Len(t)) = t
  <2>1. PICK r : r = SubSeq(w, 1, Len(t))
    OBVIOUS
  <2>2. \A i \in 1..Len(t) : w[i] \in Bytes
    BY <1>2, <1>10, ElementOfSeq
  <2>3. /\ r \in Seq(Bytes)
        /\ Len(r) = IF 1 <= Len(t) THEN Len(t) - 1 + 1 ELSE 0
        /\ \A i \in 1 .. Len(t) - 1 + 1 : r[i] = w[1 + i - 1]
    BY <1>2, <2>1, <2>2, SubSeqProperties
  <2>4. Len(r) = Len(t) /\ \A i \in 1..Len(r) : r[i] = t[i]
    BY <1>2, <1>10, <2>3
  <2> QED
    BY <1>2, <2>1, <2>3, <2>4, SeqEqual
<1>14. w = Udp!Fill(old, t)
  BY <1>1, <1>3, <1>5, <1>8 DEF Udp!Fill
<1> QED
  BY <1>9, <1>12, <1>13, <1>14

\* The address over the text leaves one character to read.
LEMMA OverlayReads ==
  ASSUME NEW w \in Seq(Bytes)
  PROVE  Udp!CString(Udp!Overlay(w)) = <<AfInet>>
<1>1. PICK S : S = Bytes \cup {AfInet}
  OBVIOUS
<1>0. PICK af : af = <<AfInet, Nul>>
  OBVIOUS
<1>2. /\ af = <<AfInet, Nul>> /\ af \in Seq(S) /\ Len(af) = 2
      /\ af[1] = AfInet /\ af[2] = Nul
  BY <1>0, <1>1, NulIsNoChar
<1>3. w \in Seq(S) /\ Len(w) \in Nat
  BY <1>1, SeqMonotonic, LenProperties
<1>4. PICK rest : rest = SubSeq(w, 3, Len(w))
  OBVIOUS
<1>5. rest \in Seq(S) /\ Len(rest) \in Nat
  <2>1. \A i \in 3..Len(w) : w[i] \in S
    BY <1>3, ElementOfSeq
  <2>2. rest \in Seq(S)
    BY <1>3, <1>4, <2>1, SubSeqProperties
  <2> QED
    BY <2>2, LenProperties
<1>6. PICK o : o = af \o rest
  OBVIOUS
<1>7. /\ o \in Seq(S) /\ Len(o) = Len(af) + Len(rest)
      /\ \A i \in 1 .. Len(af) + Len(rest) :
           o[i] = IF i <= Len(af) THEN af[i] ELSE rest[i - Len(af)]
  BY <1>2, <1>5, <1>6, ConcatProperties
<1>8. o[1] = AfInet /\ o[1 + 1] = Nul /\ 1 < Len(o)
  BY <1>2, <1>5, <1>7
<1>9. Udp!CString(o) = SubSeq(o, 1, 1)
  <2>1. AfInet # Nul
    BY ServersAssumption DEF Udp!UdpAssumption
  <2>2. \A i \in 1..1 : o[i] # Nul
    BY <1>8, <2>1
  <2> QED
    BY <1>7, <1>8, <2>2, ReadsUpToNul
<1>10. SubSeq(o, 1, 1) = <<AfInet>>
  <2>1. PICK r : r = SubSeq(o, 1, 1)
    OBVIOUS
  <2>2. r \in Seq(S) /\ Len(r) = 1 /\ r[1] = AfInet
    BY <1>1, <1>8, <2>1, SubSeqProperties
  <2> QED
    BY <2>1, <2>2, Singleton
<1>11. o = Udp!Overlay(w)
  BY <1>2, <1>4, <1>6 DEF Udp!Overlay
<1> QED
  BY <1>9, <1>10, <1>11

----------------------------------------------------------------------------
(* The datagram servers *)

\* Speaker w has said something.
Spoke(w) == \E d \in sent \cap Udp!Said : d[1] = w

UdpTyped == /\ program \in Programs
            /\ sent \subseteq Speakers \X Texts
            /\ buffer \in Seq(Bytes)
            /\ DOMAIN heard = Speakers

\* What the relay has in its buffer was said by the user it names, as soon as
\* there is a user to send it to; only who spoke is a user.
Relaying == /\ users # {} =>
                 /\ program = "relay"
                 /\ <<key, Udp!CString(buffer)>> \in sent \cap Udp!Said
            /\ todo \subseteq users /\ users \subseteq Speakers
            /\ \A w \in users : Spoke(w)

\* What the log has in its buffer was said by somebody, if anything has come,
\* and what it printed by the one it named, unless that one sent an empty
\* datagram.
LoggingText == program = "log" =>
                 \/ buffer \in Udp!Leftovers
                 \/ \E d \in sent \cap Udp!Said : d[2] = Udp!CString(buffer)

LoggedLine ==
  printed[1] # Nobody =>
    /\ program = "log"
    /\ \/ \E d \in sent \cap Udp!Said : printed = Udp!Line(d[1], d[2])
       \/ /\ <<printed[1], <<>>>> \in sent
          /\ \/ \E d \in sent \cap Udp!Said : printed = Udp!Line(printed[1], d[2])
             \/ /\ buffer \in Udp!Leftovers
                /\ printed = Udp!Line(printed[1], Udp!CString(buffer))

HeardBy(w) ==
  heard[w] # <<Nobody, <<>>>> =>
    IF program = "room" THEN heard[w][2] = <<AfInet>>
    ELSE Spoke(w) /\ \E d \in sent \cap Udp!Said : heard[w] = Udp!Line(d[1], d[2])

UdpInv == /\ UdpTyped /\ Relaying /\ LoggingText /\ LoggedLine
          /\ \A w \in Speakers : HeardBy(w)

\* What was sent stays sent.
LEMMA StaysSaid ==
  ASSUME sent \subseteq sent'
  PROVE  /\ \A d : d \in sent \cap Udp!Said => d \in (sent \cap Udp!Said)'
         /\ \A w : Spoke(w) => Spoke(w)'
BY DEF Spoke, Udp!Said

\* Something other than an empty datagram was received: the buffer holds it.
LEMMA Received ==
  ASSUME UdpInv, NEW d \in sent, d[2] # <<>>
  PROVE  /\ d \in Udp!Said /\ d[1] \in Speakers /\ d = <<d[1], d[2]>> /\ Spoke(d[1])
         /\ Udp!Fill(buffer, d[2]) \in Seq(Bytes)
         /\ Udp!CString(Udp!Fill(buffer, d[2])) = d[2]
<1>1. d \in Speakers \X Texts
  BY DEF UdpInv, UdpTyped
<1>2. d[1] \in Speakers /\ d[2] \in Texts /\ d = <<d[1], d[2]>>
  BY <1>1
<1>3. d \in Udp!Said
  BY <1>2 DEF Udp!Said
<1>4. Spoke(d[1])
  BY <1>3 DEF Spoke
<1>5. d[2] \in Seq(Chars)
  BY <1>2, TextsAreSequences
<1> QED
  BY <1>2, <1>3, <1>4, <1>5, FillReads DEF UdpInv, UdpTyped

LEMMA UdpInitInv == program \in Programs /\ Udp!UdpInit => UdpInv
<1> SUFFICES ASSUME program \in Programs, Udp!UdpInit PROVE UdpInv
  OBVIOUS
<1> USE DEF Udp!UdpInit
<1>1. buffer \in Udp!Leftovers
  BY DEF Udp!Leftovers
<1>2. Udp!Leftovers \subseteq Seq(Bytes)
  BY NulIsNoChar DEF Udp!Leftovers
<1>3. UdpTyped
  BY <1>1, <1>2 DEF UdpTyped
<1>4. Relaying /\ LoggingText
  BY <1>1 DEF Relaying, LoggingText
<1>5. LoggedLine
  <2>1. printed[1] = Nobody
    OBVIOUS
  <2> QED
    BY <2>1 DEF LoggedLine
<1>6. \A w \in Speakers : HeardBy(w)
  BY DEF HeardBy
<1> QED
  BY <1>3, <1>4, <1>5, <1>6 DEF UdpInv

\* A step that leaves the buffer, the users and the datagrams alone.
LEMMA OnlyHeardKeeps ==
  ASSUME UdpInv,
         UNCHANGED <<program, sent, buffer, key, users, printed>>,
         todo' \subseteq todo \/ todo' \subseteq users,
         DOMAIN heard' = Speakers, \A w \in Speakers : HeardBy(w)'
  PROVE  UdpInv'
<1>1. UdpTyped'
  BY DEF UdpInv, UdpTyped
<1>2. Relaying'
  BY DEF UdpInv, Relaying, Spoke
<1>3. LoggingText' /\ LoggedLine'
  BY DEF UdpInv, LoggingText, LoggedLine, Udp!Said, Udp!Line
<1> QED
  BY <1>1, <1>2, <1>3 DEF UdpInv

LEMMA HeardUnchanged ==
  ASSUME UdpInv, UNCHANGED <<program, heard>>, sent \subseteq sent'
  PROVE  DOMAIN heard' = Speakers /\ \A w \in Speakers : HeardBy(w)'
<1>1. DOMAIN heard' = Speakers
  BY DEF UdpInv, UdpTyped
<1>2. ASSUME NEW w \in Speakers PROVE HeardBy(w)'
  <2>1. HeardBy(w)
    BY DEF UdpInv
  <2> QED
    BY <2>1, StaysSaid DEF HeardBy, Udp!Line
<1> QED
  BY <1>1, <1>2

\* The relay receives: from here on it names the sender, and sends to it too.
LEMMA RelayRecvKeeps ==
  ASSUME UdpInv, program = "relay", Udp!RelayRecv
  PROVE  UdpInv'
<1>1. UNCHANGED <<program, printed, heard, sent>> /\ todo' = users'
  BY DEF Udp!RelayRecv, Udp!clientVars
<1>2. PICK d \in sent : IF d[2] # <<>>
                        THEN /\ buffer' = Udp!Fill(buffer, d[2])
                             /\ key' = d[1]
                             /\ users' = users \cup {d[1]}
                        ELSE UNCHANGED <<buffer, key, users>>
  BY DEF Udp!RelayRecv
<1>3. DOMAIN heard' = Speakers /\ \A w \in Speakers : HeardBy(w)'
  BY <1>1, HeardUnchanged
<1>4. CASE d[2] = <<>>
  BY <1>1, <1>2, <1>3, <1>4, OnlyHeardKeeps
<1>5. CASE d[2] # <<>>
  <2>1. /\ buffer' \in Seq(Bytes) /\ Udp!CString(buffer)' = d[2] /\ key' = d[1]
        /\ d \in sent \cap Udp!Said /\ d = <<d[1], d[2]>>
        /\ d[1] \in Speakers /\ Spoke(d[1])
    BY <1>2, <1>5, Received
  <2>2. UdpTyped'
    BY <1>1, <1>3, <2>1 DEF UdpInv, UdpTyped
  <2>3. Relaying'
    <3>1. <<key, Udp!CString(buffer)>>' \in (sent \cap Udp!Said)'
      BY <1>1, <2>1 DEF Udp!Said
    <3>2. users' \subseteq Speakers /\ \A w \in users' : Spoke(w)'
      BY <1>1, <1>2, <1>5, <2>1, StaysSaid DEF UdpInv, Relaying
    <3> QED
      BY <1>1, <3>1, <3>2 DEF Relaying
  <2>4. printed[1] = Nobody
    BY DEF UdpInv, LoggedLine
  <2>5. LoggingText' /\ LoggedLine'
    BY <1>1, <2>4 DEF LoggingText, LoggedLine
  <2> QED
    BY <1>3, <2>2, <2>3, <2>5 DEF UdpInv
<1> QED
  BY <1>4, <1>5

\* The relay sends to a user what the buffer holds.
LEMMA RelayPushKeeps ==
  ASSUME UdpInv, program = "relay", Udp!RelayPush
  PROVE  UdpInv'
<1>1. UNCHANGED <<program, sent, buffer, key, users, printed>>
  BY DEF Udp!RelayPush, Udp!clientVars
<1>2. PICK w \in todo :
        /\ todo' = todo \ {w}
        /\ heard' \in {heard, [heard EXCEPT ![w] = Udp!Line(key, Udp!CString(buffer))]}
  BY DEF Udp!RelayPush, Udp!RecvAtClient
<1>3. <<key, Udp!CString(buffer)>> \in sent \cap Udp!Said /\ Spoke(w) /\ w \in Speakers
  BY <1>2 DEF UdpInv, Relaying
<1>4. /\ DOMAIN heard' = Speakers
      /\ \A x \in Speakers : \/ heard'[x] = heard[x]
                             \/ x = w /\ heard'[x] = Udp!Line(key, Udp!CString(buffer))
  BY <1>2 DEF UdpInv, UdpTyped
<1>5. ASSUME NEW x \in Speakers PROVE HeardBy(x)'
  <2>1. CASE heard'[x] = heard[x]
    BY <1>1, <2>1 DEF UdpInv, HeardBy, Spoke, Udp!Said, Udp!Line
  <2>2. CASE x = w /\ heard'[x] = Udp!Line(key, Udp!CString(buffer))
    <3>1. PICK d : d = <<key, Udp!CString(buffer)>>
      OBVIOUS
    <3>2. d \in sent \cap Udp!Said /\ heard'[x] = Udp!Line(d[1], d[2])
      BY <1>3, <2>2, <3>1
    <3>3. d \in (sent \cap Udp!Said)' /\ heard'[x] = Udp!Line(d[1], d[2])'
      BY <1>1, <3>2, StaysSaid DEF Udp!Line
    <3>4. program' # "room" /\ Spoke(x)'
      BY <1>1, <1>3, <2>2, StaysSaid
    <3> QED
      BY <3>3, <3>4 DEF HeardBy
  <2> QED
    BY <1>4, <2>1, <2>2
<1> QED
  BY <1>1, <1>2, <1>4, <1>5, OnlyHeardKeeps

LEMMA LogRecvKeeps ==
  ASSUME UdpInv, program = "log", Udp!LogRecv
  PROVE  UdpInv'
<1>1. UNCHANGED <<program, key, users, todo, heard, sent>>
  BY DEF Udp!LogRecv, Udp!clientVars
<1>2. PICK d \in sent :
        /\ buffer' = IF d[2] # <<>> THEN Udp!Fill(buffer, d[2]) ELSE buffer
        /\ printed' = Udp!Line(d[1], Udp!CString(buffer'))
  BY DEF Udp!LogRecv
<1>3. DOMAIN heard' = Speakers /\ \A w \in Speakers : HeardBy(w)'
  BY <1>1, HeardUnchanged
<1>4. users = {}
  BY DEF UdpInv, Relaying
<1>5. buffer' \in Seq(Bytes)
  BY <1>2, Received DEF UdpInv, UdpTyped
<1>6. UdpTyped' /\ Relaying'
  BY <1>1, <1>3, <1>4, <1>5 DEF UdpInv, UdpTyped, Relaying
<1>7. CASE d[2] # <<>>
  <2>1. Udp!CString(buffer') = d[2] /\ d \in Udp!Said /\ d = <<d[1], d[2]>>
    BY <1>2, <1>7, Received
  <2>2. d \in (sent \cap Udp!Said)'
    BY <1>1, <2>1 DEF Udp!Said
  <2>3. LoggingText'
    BY <2>1, <2>2 DEF LoggingText
  <2>4. printed' = Udp!Line(d[1], d[2])'
    BY <1>2, <2>1 DEF Udp!Line
  <2>5. LoggedLine'
    BY <1>1, <2>2, <2>4 DEF LoggedLine
  <2> QED
    BY <1>3, <1>6, <2>3, <2>5 DEF UdpInv
<1>8. CASE d[2] = <<>>
  <2>1. buffer' = buffer
    BY <1>2, <1>8
  <2>2. LoggingText'
    BY <1>1, <2>1 DEF UdpInv, LoggingText, Udp!Said
  <2>3. printed'[1] = d[1] /\ printed' = Udp!Line(d[1], Udp!CString(buffer))'
    BY <1>2, <2>1 DEF Udp!Line
  <2>4. <<printed'[1], <<>>>> \in sent'
    BY <1>1, <1>8, <2>3 DEF UdpInv, UdpTyped
  <2>5. LoggedLine'
    <3>1. CASE buffer \in Udp!Leftovers
      BY <1>1, <2>1, <2>3, <2>4, <3>1 DEF LoggedLine, Udp!Leftovers
    <3>2. CASE buffer \notin Udp!Leftovers
      <4>1. PICK e \in sent \cap Udp!Said : e[2] = Udp!CString(buffer)
        BY <3>2 DEF UdpInv, LoggingText
      <4>2. e \in (sent \cap Udp!Said)'
        BY <1>1, <4>1 DEF Udp!Said
      <4>3. printed' = Udp!Line(printed[1], e[2])'
        BY <2>1, <2>3, <4>1 DEF Udp!Line
      <4> QED
        BY <1>1, <2>4, <4>2, <4>3 DEF LoggedLine
    <3> QED
      BY <3>1, <3>2
  <2> QED
    BY <1>3, <1>6, <2>2, <2>5 DEF UdpInv
<1> QED
  BY <1>7, <1>8

LEMMA SinkRecvKeeps ==
  ASSUME UdpInv, program = "sink", Udp!SinkRecv
  PROVE  UdpInv'
<1>1. UNCHANGED <<program, key, users, todo, printed, heard, sent>>
  BY DEF Udp!SinkRecv, Udp!clientVars
<1>2. buffer' \in Seq(Bytes)
  BY Received DEF Udp!SinkRecv
<1>3. DOMAIN heard' = Speakers /\ \A w \in Speakers : HeardBy(w)'
  BY <1>1, HeardUnchanged
<1>4. UdpTyped' /\ Relaying'
  BY <1>1, <1>2, <1>3 DEF UdpInv, UdpTyped, Relaying
<1>5. printed[1] = Nobody
  BY DEF UdpInv, LoggedLine
<1>6. LoggingText' /\ LoggedLine'
  BY <1>1, <1>5 DEF LoggingText, LoggedLine
<1> QED
  BY <1>3, <1>4, <1>6 DEF UdpInv

LEMMA RoomRecvKeeps ==
  ASSUME UdpInv, NEW w \in Speakers, Udp!RoomRecv(w)
  PROVE  UdpInv'
<1>1. UNCHANGED <<program, sent, buffer, key, users, todo, printed>>
      /\ program = "room"
  BY DEF Udp!RoomRecv, Udp!clientVars, Udp!serverVars
<1>2. PICK d \in sent :
        /\ d[2] # <<>>
        /\ heard' \in {heard, [heard EXCEPT ![w] =
             <<Nobody, Udp!CString(Udp!Overlay(Udp!Fill(<<>>, d[2])))>>]}
  BY DEF Udp!RoomRecv
<1>3. Udp!CString(Udp!Overlay(Udp!Fill(<<>>, d[2]))) = <<AfInet>>
  <2>1. d[2] \in Seq(Chars)
    BY <1>2, TextsAreSequences DEF UdpInv, UdpTyped
  <2>2. <<>> \in Seq(Bytes)
    OBVIOUS
  <2> QED
    BY <2>1, <2>2, FillReads, OverlayReads
<1>4. /\ DOMAIN heard' = Speakers
      /\ \A x \in Speakers : heard'[x] = heard[x] \/ heard'[x] = <<Nobody, <<AfInet>>>>
  BY <1>2, <1>3 DEF UdpInv, UdpTyped
<1>5. ASSUME NEW x \in Speakers PROVE HeardBy(x)'
  BY <1>1, <1>4 DEF UdpInv, HeardBy
<1> QED
  BY <1>1, <1>4, <1>5, OnlyHeardKeeps

LEMMA TypeTextKeeps ==
  ASSUME UdpInv, NEW w \in Speakers, Udp!TypeText(w)
  PROVE  UdpInv'
<1>1. UNCHANGED <<program, buffer, key, users, todo, printed, heard>>
  BY DEF Udp!TypeText, Udp!serverVars
<1>2. sent \subseteq sent' /\ sent' \subseteq Speakers \X Texts
  BY DEF Udp!TypeText, UdpInv, UdpTyped
<1>3. DOMAIN heard' = Speakers /\ \A x \in Speakers : HeardBy(x)'
  BY <1>1, <1>2, HeardUnchanged
<1>4. UdpTyped'
  BY <1>1, <1>2, <1>3 DEF UdpInv, UdpTyped
<1>5. Relaying'
  BY <1>1, <1>2, StaysSaid DEF UdpInv, Relaying
<1>6. LoggingText'
  BY <1>1, <1>2, StaysSaid DEF UdpInv, LoggingText, Udp!Leftovers
<1>7. LoggedLine'
  BY <1>1, <1>2, StaysSaid DEF UdpInv, LoggedLine, Udp!Line, Udp!Leftovers
<1> QED
  BY <1>3, <1>4, <1>5, <1>6, <1>7 DEF UdpInv

LEMMA UdpStepKeeps ==
  ASSUME UdpInv, [ServersNext]_serversVars
  PROVE  UdpInv'
<1>1. CASE UNCHANGED <<program, sent, buffer, key, users, printed, heard>>
           /\ todo' \subseteq todo
  <2>1. DOMAIN heard' = Speakers /\ \A w \in Speakers : HeardBy(w)'
    BY <1>1, HeardUnchanged
  <2> QED
    BY <1>1, <2>1, OnlyHeardKeeps
<1>2. CASE Udp!UdpServerStep
  <2>1. CASE Udp!UdpSetup \/ Udp!RelayLoop
    BY <1>1, <2>1 DEF Udp!UdpSetup, Udp!RelayLoop, Udp!clientVars
  <2> QED
    BY <1>2, <2>1, RelayRecvKeeps, RelayPushKeeps, LogRecvKeeps, SinkRecvKeeps
       DEF Udp!UdpServerStep, Udp!RelayStep, Udp!LogStep, Udp!SinkStep
<1>3. ASSUME NEW w \in Speakers, Udp!UdpClientStep(w) PROVE UdpInv'
  <2>1. CASE Udp!SenderQuit(w) \/ Udp!JoinSender(w)
    BY <1>1, <2>1 DEF Udp!SenderQuit, Udp!JoinSender, Udp!serverVars
  <2> QED
    BY <1>3, <2>1, TypeTextKeeps, RoomRecvKeeps DEF Udp!UdpClientStep
<1>4. CASE UNCHANGED udpVars /\ UNCHANGED program
  BY <1>1, <1>4 DEF udpVars
<1> QED
  BY <1>2, <1>3, <1>4 DEF ServersNext, serversVars, Udp!UdpNext

LEMMA UdpInvariance == ServersSpec => []UdpInv
<1>1. ServersInit => UdpInv
  BY UdpInitInv DEF ServersInit
<1>2. UdpInv /\ [ServersNext]_serversVars => UdpInv'
  BY UdpStepKeeps
<1> QED
  BY <1>1, <1>2, PTL DEF ServersSpec

\* What the clients of the relay and the log print was said by the user they
\* name, as far as the line has room for it, whatever the buffer held before
\* and however datagrams are lost, repeated and reordered; only an empty
\* datagram makes the log print what somebody else said or, as long as no text
\* has come, what lay in its buffer.  A client of the chat room prints no word
\* of what was said.  It holds for any texts and any room.
THEOREM PrintedWasSaid == ServersSpec => []UdpSaid
<1>1. UdpInv => UdpSaid
  BY DEF UdpInv, HeardBy, LoggedLine, Spoke, UdpSaid, Udp!UdpSaid
<1> QED
  BY <1>1, UdpInvariance, PTL

----------------------------------------------------------------------------
(* The type invariants *)

\* A client that types or receives has a connection, and so has the server
\* unless it accepts.
EchoInv ==
  /\ echoMain \in {"init", "accept", "read", "write", "close", "exit", "killed"}
  /\ echoConns \in 0..MaxConns /\ echoTurn \in 0..echoConns
  /\ echoMain \in {"read", "write", "close"} => echoTurn # 0
  /\ echoFailed \in BOOLEAN
  /\ echoUp \in [Echo!Conns -> Seq(Echo!Lines)]
  /\ echoDown \in [Echo!Conns -> Seq({"text", "rest"})]
  /\ echoEnd \in [Echo!Conns -> {"open", "fin", "reset", "seen"}]
  /\ echoUser \in [Talkers -> {"connect", "type", "recv", "exit", "killed"}]
  /\ echoSock \in [Talkers -> 0..MaxConns]
  /\ \A c \in Talkers : echoUser[c] \in {"type", "recv"} => echoSock[c] # 0

LEMMA EchoInitInv == Echo!EchoInit => EchoInv
<1> SUFFICES ASSUME Echo!EchoInit PROVE EchoInv
  OBVIOUS
<1>1. MaxConns \in Nat
  BY ServersAssumption DEF Echo!EchoAssumption
<1>2. /\ echoUp \in [Echo!Conns -> Seq(Echo!Lines)]
      /\ echoDown \in [Echo!Conns -> Seq({"text", "rest"})]
  BY DEF Echo!EchoInit
<1>3. echoConns \in 0..MaxConns /\ echoTurn \in 0..echoConns /\ 0 \in 0..MaxConns
  BY <1>1 DEF Echo!EchoInit
<1>4. /\ echoEnd \in [Echo!Conns -> {"open", "fin", "reset", "seen"}]
      /\ echoUser \in [Talkers -> {"connect", "type", "recv", "exit", "killed"}]
      /\ echoSock \in [Talkers -> 0..MaxConns]
  BY <1>3 DEF Echo!EchoInit
<1>5. \A c \in Talkers : echoUser[c] = "connect"
  BY DEF Echo!EchoInit
<1>6. echoMain = "init" /\ echoFailed \in BOOLEAN
  BY DEF Echo!EchoInit
<1> QED
  BY <1>2, <1>3, <1>4, <1>5, <1>6 DEF EchoInv

LEMMA SuffixOfSeq ==
  ASSUME NEW S, NEW t \in Seq(S), NEW n \in Nat
  PROVE  SubSeq(t, n + 1, Len(t)) \in Seq(S)
<1>1. Len(t) \in Nat
  BY LenProperties
<1>2. \A i \in n + 1 .. Len(t) : t[i] \in S
  BY <1>1, ElementOfSeq
<1> QED
  BY <1>1, <1>2, SubSeqProperties

LEMMA EchoServerKeeps ==
  ASSUME EchoInv, Echo!EchoServerStep
  PROVE  EchoInv'
<1>0. MaxConns \in Nat /\ Echo!Conns = 1..MaxConns
  BY ServersAssumption DEF Echo!EchoAssumption, Echo!Conns
<1>1. CASE Echo!InitServer \/ Echo!ReadEnd
  BY <1>1 DEF EchoInv, Echo!InitServer, Echo!ReadEnd
<1>2. CASE Echo!AcceptNext
  <2>1. /\ UNCHANGED <<echoConns, echoUp, echoDown, echoEnd, echoUser, echoSock>>
        /\ echoMain' = "read" /\ echoFailed' = FALSE
    BY <1>2 DEF Echo!AcceptNext
  <2>2. echoTurn' \in 0..echoConns /\ echoTurn' # 0
    BY <1>0, <1>2 DEF EchoInv, Echo!AcceptNext
  <2> QED
    BY <2>1, <2>2 DEF EchoInv
<1>3. CASE Echo!ReadLines
  <2>1. UNCHANGED <<echoTurn, echoConns, echoFailed, echoDown, echoEnd, echoUser,
                    echoSock>> /\ echoMain = "read"
    BY <1>3 DEF Echo!ReadLines
  <2>2. echoTurn \in Echo!Conns
    BY <1>0, <2>1 DEF EchoInv
  <2>3. Len(echoUp[echoTurn]) \in Nat
    BY <2>2, LenProperties DEF EchoInv
  <2>4. PICK n \in 1..Len(echoUp[echoTurn]) :
          /\ echoMain' \in {"close", "write"}
          /\ echoUp' = [echoUp EXCEPT ![echoTurn] =
                          SubSeq(echoUp[echoTurn], n + 1, Len(echoUp[echoTurn]))]
    BY <1>3 DEF Echo!ReadLines
  <2>5. SubSeq(echoUp[echoTurn], n + 1, Len(echoUp[echoTurn])) \in Seq(Echo!Lines)
    BY <2>2, <2>3, SuffixOfSeq DEF EchoInv
  <2>6. echoUp' \in [Echo!Conns -> Seq(Echo!Lines)]
    BY <2>4, <2>5 DEF EchoInv
  <2> QED
    BY <2>1, <2>4, <2>6 DEF EchoInv
<1>4. CASE Echo!WriteBuffer
  <2>1. UNCHANGED <<echoTurn, echoConns, echoUp, echoUser, echoSock>>
        /\ echoMain = "write"
    BY <1>4 DEF Echo!WriteBuffer
  <2>2. echoTurn \in Echo!Conns
    BY <1>0, <2>1 DEF EchoInv
  <2>3. echoMain' \in {"read", "killed"} /\ echoFailed' \in BOOLEAN
    BY <1>4 DEF Echo!WriteBuffer, EchoInv
  <2>4. echoDown' \in [Echo!Conns -> Seq({"text", "rest"})]
    <3>1. echoDown[echoTurn] \o <<"text", "rest">> \in Seq({"text", "rest"})
      <4>1. <<"text", "rest">> \in Seq({"text", "rest"})
        OBVIOUS
      <4>2. echoDown[echoTurn] \in Seq({"text", "rest"})
        BY <2>2 DEF EchoInv
      <4> QED
        BY <4>1, <4>2, ConcatProperties
    <3>2. \/ echoDown' = echoDown
          \/ echoDown' = [echoDown EXCEPT ![echoTurn] =
                            echoDown[echoTurn] \o <<"text", "rest">>]
      BY <1>4 DEF Echo!WriteBuffer
    <3> QED
      BY <3>1, <3>2 DEF EchoInv
  <2>5. echoEnd' \in [Echo!Conns -> {"open", "fin", "reset", "seen"}]
    BY <1>4 DEF Echo!WriteBuffer, Echo!Ending, EchoInv
  <2> QED
    BY <2>1, <2>3, <2>4, <2>5 DEF EchoInv
<1>5. CASE Echo!CloseSock
  <2>1. /\ UNCHANGED <<echoTurn, echoConns, echoFailed, echoDown, echoUser,
                       echoSock>>
        /\ echoMain' = "accept"
    BY <1>5 DEF Echo!CloseSock
  <2>2. echoEnd' \in [Echo!Conns -> {"open", "fin", "reset", "seen"}]
    BY <1>5 DEF Echo!CloseSock, Echo!Ending, EchoInv
  <2>3. echoUp' \in [Echo!Conns -> Seq(Echo!Lines)]
    <3>1. echoUp' = [echoUp EXCEPT ![echoTurn] = <<>>] /\ <<>> \in Seq(Echo!Lines)
      BY <1>5 DEF Echo!CloseSock
    <3> QED
      BY <3>1 DEF EchoInv
  <2> QED
    BY <2>1, <2>2, <2>3 DEF EchoInv
<1> QED
  BY <1>1, <1>2, <1>3, <1>4, <1>5 DEF Echo!EchoServerStep

\* What a client's step does: it may close its connection, or make a new one.
LEMMA EchoClientKeeps ==
  ASSUME EchoInv, NEW c \in Talkers,
         \/ Echo!EchoClientStep(c) \/ Echo!TypeLine(c) \/ Echo!TypeEmpty(c)
         \/ Echo!Quit(c)
  PROVE  EchoInv'
<1>0. MaxConns \in Nat /\ Echo!Conns = 1..MaxConns
  BY ServersAssumption DEF Echo!EchoAssumption, Echo!Conns
<1> USE DEF Echo!At, Echo!ServerSide
<1>1. ASSUME NEW to \in {"connect", "exit", "killed"}, Echo!At(c, to),
             Echo!Drop(c), UNCHANGED <<echoMain, echoTurn, echoFailed, echoConns,
                                       echoUp, echoEnd>>
      PROVE  EchoInv'
  <2>1. echoDown' \in [Echo!Conns -> Seq({"text", "rest"})]
    <3>1. <<>> \in Seq({"text", "rest"})
      OBVIOUS
    <3> QED
      BY <1>1, <3>1 DEF EchoInv, Echo!Drop
  <2>2. /\ echoSock' = [echoSock EXCEPT ![c] = 0]
        /\ echoUser' = [echoUser EXCEPT ![c] = to]
    BY <1>1 DEF Echo!Drop
  <2> QED
    BY <1>0, <1>1, <2>1, <2>2 DEF EchoInv
<1>2. CASE Echo!ConnectTo(c)
  <2>1. UNCHANGED <<echoMain, echoTurn, echoFailed, echoUp, echoDown, echoEnd>>
    BY <1>2 DEF Echo!ConnectTo
  <2>2. \/ /\ echoUser' = [echoUser EXCEPT ![c] = "exit"]
           /\ UNCHANGED <<echoConns, echoSock>>
        \/ /\ echoUser' = [echoUser EXCEPT ![c] = "type"]
           /\ echoConns < MaxConns /\ echoConns' = echoConns + 1
           /\ echoSock' = [echoSock EXCEPT ![c] = echoConns + 1]
    BY <1>2 DEF Echo!ConnectTo
  <2>3. echoConns' \in 0..MaxConns /\ echoTurn \in 0..echoConns'
    BY <1>0, <2>2 DEF EchoInv
  <2>4. echoUser' \in [Talkers -> {"connect", "type", "recv", "exit", "killed"}]
    BY <2>2 DEF EchoInv
  <2>5. /\ echoSock' \in [Talkers -> 0..MaxConns]
        /\ \A d \in Talkers : echoUser'[d] \in {"type", "recv"} => echoSock'[d] # 0
    <3>1. CASE UNCHANGED echoSock /\ echoUser' = [echoUser EXCEPT ![c] = "exit"]
      BY <3>1 DEF EchoInv
    <3>2. CASE /\ echoUser' = [echoUser EXCEPT ![c] = "type"]
               /\ echoConns < MaxConns /\ echoConns' = echoConns + 1
               /\ echoSock' = [echoSock EXCEPT ![c] = echoConns + 1]
      <4>1. PICK k : k = echoConns + 1
        OBVIOUS
      <4>2. k \in 0..MaxConns /\ k # 0
        BY <1>0, <3>2, <4>1 DEF EchoInv
      <4>3. echoSock' = [echoSock EXCEPT ![c] = k]
        BY <3>2, <4>1
      <4> QED
        BY <3>2, <4>2, <4>3 DEF EchoInv
    <3> QED
      BY <2>2, <3>1, <3>2
  <2> QED
    BY <2>1, <2>3, <2>4, <2>5 DEF EchoInv
<1>3. CASE Echo!TypeLine(c)
  <2>1. echoUser[c] = "type" /\ echoSock[c] \in Echo!Conns
    BY <1>0, <1>3 DEF EchoInv, Echo!TypeLine
  <2>2. CASE echoEnd[echoSock[c]] \in {"open", "fin"}
    <3>1. /\ UNCHANGED <<echoMain, echoTurn, echoFailed, echoConns, echoEnd,
                         echoSock, echoDown>>
          /\ echoUser' = [echoUser EXCEPT ![c] = "recv"]
      BY <1>3, <2>2 DEF Echo!TypeLine
    <3>2. PICK line \in Echo!Lines :
            \/ echoUp' = echoUp
            \/ echoUp' = [echoUp EXCEPT ![echoSock[c]] = Append(echoUp[echoSock[c]], line)]
      BY <1>3, <2>2 DEF Echo!TypeLine
    <3>3. Append(echoUp[echoSock[c]], line) \in Seq(Echo!Lines)
      BY <2>1 DEF EchoInv
    <3>4. echoUp' \in [Echo!Conns -> Seq(Echo!Lines)]
      BY <3>2, <3>3 DEF EchoInv
    <3> QED
      BY <2>1, <3>1, <3>4 DEF EchoInv
  <2>3. CASE echoEnd[echoSock[c]] \notin {"open", "fin"}
    BY <1>1, <1>3, <2>3 DEF Echo!TypeLine
  <2> QED
    BY <2>2, <2>3
<1>4. CASE Echo!TypeEmpty(c) \/ Echo!Quit(c)
  BY <1>1, <1>4 DEF Echo!TypeEmpty, Echo!Quit
<1>5. CASE Echo!RecvEcho(c)
  <2>1. /\ UNCHANGED <<echoMain, echoTurn, echoFailed, echoConns, echoUp, echoEnd,
                       echoSock>>
        /\ echoUser[c] = "recv" /\ echoUser' = [echoUser EXCEPT ![c] = "type"]
    BY <1>5 DEF Echo!RecvEcho
  <2>2. PICK n \in {1, 2} :
          echoDown' = [echoDown EXCEPT ![echoSock[c]] =
            SubSeq(echoDown[echoSock[c]], n + 1, Len(echoDown[echoSock[c]]))]
    BY <1>5 DEF Echo!RecvEcho
  <2>3. echoSock[c] \in Echo!Conns
    BY <1>0, <2>1 DEF EchoInv
  <2>4. SubSeq(echoDown[echoSock[c]], n + 1, Len(echoDown[echoSock[c]]))
          \in Seq({"text", "rest"})
    BY <2>3, SuffixOfSeq DEF EchoInv
  <2>5. echoDown' \in [Echo!Conns -> Seq({"text", "rest"})]
    BY <2>2, <2>4 DEF EchoInv
  <2> QED
    BY <2>1, <2>5 DEF EchoInv
<1>6. CASE Echo!RecvEnded(c)
  <2>1. CASE echoEnd[echoSock[c]] = "fin"
    BY <1>1, <1>6, <2>1 DEF Echo!RecvEnded
  <2>2. CASE echoEnd[echoSock[c]] # "fin"
    <3>1. /\ UNCHANGED <<echoMain, echoTurn, echoFailed, echoConns, echoUp,
                         echoSock, echoDown>>
          /\ echoUser[c] = "recv" /\ echoUser' = [echoUser EXCEPT ![c] = "type"]
          /\ echoEnd' = [echoEnd EXCEPT ![echoSock[c]] = "seen"]
      BY <1>6, <2>2 DEF Echo!RecvEnded
    <3> QED
      BY <3>1 DEF EchoInv
  <2> QED
    BY <2>1, <2>2
<1> QED
  BY <1>2, <1>3, <1>4, <1>5, <1>6 DEF Echo!EchoClientStep

LEMMA EchoInvariance == ServersSpec => []EchoInv
<1>1. ServersInit => EchoInv
  BY EchoInitInv DEF ServersInit
<1>2. ASSUME EchoInv, [ServersNext]_serversVars PROVE EchoInv'
  <2>1. CASE Echo!EchoNext
    BY <1>2, <2>1, EchoServerKeeps, EchoClientKeeps DEF Echo!EchoNext
  <2>2. CASE UNCHANGED echoVars
    BY <1>2, <2>2 DEF echoVars, EchoInv
  <2> QED
    BY <1>2, <2>1, <2>2 DEF ServersNext, serversVars
<1> QED
  BY <1>1, <1>2, PTL DEF ServersSpec

\* No more connections than descriptors, and nothing is reported that is not
\* watched.
SkInv ==
  /\ skMain \in {"setup", "add", "wait", "sweep", "accept", "exit"}
  /\ backlog \subseteq Guests
  /\ guest \in [Guests -> {"out", "silent", "spoke"}]
  /\ conns \subseteq Sk!Socks /\ watched \subseteq conns
  /\ ready \subseteq watched /\ revs \subseteq watched
  /\ IsFiniteSet(conns)
  /\ Cardinality(conns \ {ListenSock}) <= Descriptors

LEMMA SkCardinality == \A S : Sk!Cardinality(S) = Cardinality(S)
BY DEF Sk!Cardinality, Cardinality

LEMMA SkInitInv == Sk!SkInit => SkInv
<1> SUFFICES ASSUME Sk!SkInit PROVE SkInv
  OBVIOUS
<1>1. Descriptors \in Nat
  BY ServersAssumption DEF Sk!SkeletonAssumption
<1>2. conns = {} /\ conns \ {ListenSock} = {}
  BY DEF Sk!SkInit
<1>3. IsFiniteSet(conns) /\ Cardinality(conns \ {ListenSock}) = 0
  BY <1>2, FS_EmptySet
<1> QED
  BY <1>1, <1>3 DEF Sk!SkInit, SkInv

LEMMA SkStepKeeps ==
  ASSUME SkInv, Sk!SkNext
  PROVE  SkInv'
<1>0. Descriptors \in Nat /\ ListenSock \in Sk!Socks /\ Guests \subseteq Sk!Socks
      /\ ListenSock \notin Guests
  BY ServersAssumption DEF Sk!SkeletonAssumption, Sk!Socks
<1>1. ASSUME NEW s \in Sk!Socks, NEW readable, Sk!AddConnection(s, readable)
      PROVE  /\ conns' = conns \cup {s} /\ conns' \subseteq Sk!Socks
             /\ watched' \subseteq conns' /\ watched \subseteq watched'
             /\ ready' \subseteq watched'
             /\ IsFiniteSet(conns')
  <2>1. conns' = conns \cup {s}
    BY <1>1 DEF Sk!AddConnection
  <2>2. IsFiniteSet(conns')
    BY <2>1, FS_AddElement DEF SkInv
  <2> QED
    BY <1>1, <2>1, <2>2 DEF SkInv, Sk!AddConnection
<1>2. CASE Sk!SkListen \/ Sk!LoopOnce \/ Sk!LoopEnd \/ Sk!AccepterEnd
  BY <1>2 DEF SkInv, Sk!SkListen, Sk!LoopOnce, Sk!LoopEnd, Sk!AccepterEnd
<1>3. CASE Sk!AddListen
  <2>1. UNCHANGED <<backlog, guest, revs>> /\ skMain' = "wait"
    BY <1>3 DEF Sk!AddListen
  <2>2. /\ conns' = conns \cup {ListenSock} /\ conns' \subseteq Sk!Socks
        /\ watched' \subseteq conns' /\ watched \subseteq watched'
        /\ ready' \subseteq watched' /\ IsFiniteSet(conns')
    BY <1>0, <1>1, <1>3 DEF Sk!AddListen
  <2>3. conns' \ {ListenSock} = conns \ {ListenSock}
    BY <2>2
  <2> QED
    BY <2>1, <2>2, <2>3 DEF SkInv
<1>4. ASSUME NEW s \in Sk!Socks, Sk!Dispatch(s) PROVE SkInv'
  BY <1>4 DEF SkInv, Sk!Dispatch
<1>5. ASSUME NEW g \in Guests, Sk!Accepter(g) PROVE SkInv'
  <2>1. UNCHANGED <<skMain, guest, revs>> /\ backlog' = backlog \ {g}
    BY <1>5 DEF Sk!Accepter
  <2>2. /\ conns' = conns \cup {g} /\ conns' \subseteq Sk!Socks
        /\ watched' \subseteq conns' /\ watched \subseteq watched'
        /\ ready' \subseteq watched' /\ IsFiniteSet(conns')
    BY <1>0, <1>1, <1>5 DEF Sk!Accepter
  <2>3. PICK S : S = conns \ {ListenSock}
    OBVIOUS
  <2>4. IsFiniteSet(S) /\ Cardinality(S) \in Nat
    BY <2>3, FS_Subset, FS_CardinalityType DEF SkInv
  <2>5. Cardinality(S) < Descriptors
    BY <1>0, <1>5, <2>3, <2>4, SkCardinality DEF SkInv, Sk!Accepter, Sk!Full
  <2>6. conns' \ {ListenSock} = S \cup {g}
    BY <1>0, <2>2, <2>3
  <2>7. Cardinality(S \cup {g}) <= Descriptors
    <3>1. Cardinality(S \cup {g}) = Cardinality(S)
          \/ Cardinality(S \cup {g}) = Cardinality(S) + 1
      BY <2>4, FS_AddElement
    <3> QED
      BY <1>0, <2>4, <2>5, <3>1
  <2> QED
    BY <2>1, <2>2, <2>6, <2>7 DEF SkInv
<1>6. ASSUME NEW g \in Guests, Sk!GuestConnect(g) \/ Sk!GuestSend(g) PROVE SkInv'
  BY <1>6 DEF SkInv, Sk!GuestConnect, Sk!GuestSend, Sk!Edge
<1> QED
  BY <1>2, <1>3, <1>4, <1>5, <1>6 DEF Sk!SkNext, Sk!SkServerStep

LEMMA SkInvariance == ServersSpec => []SkInv
<1>1. ServersInit => SkInv
  BY SkInitInv DEF ServersInit
<1>2. ASSUME SkInv, [ServersNext]_serversVars PROVE SkInv'
  <2>1. CASE UNCHANGED skVars
    BY <1>2, <2>1 DEF skVars, SkInv
  <2> QED
    BY <1>2, <2>1, SkStepKeeps DEF ServersNext, serversVars
<1> QED
  BY <1>1, <1>2, PTL DEF ServersSpec

\* What the datagram servers and clients do, besides UdpInv.
UdpKinds ==
  /\ udpMain \in {"init", "recvfrom", "push", "exit"}
  /\ key \in Speakers \cup {Nobody}
  /\ sender \in [Speakers -> {"type", "done"}]
  /\ waiting \in [Speakers -> {"sender", "recver"}]

LEMMA UdpKindsKept ==
  ASSUME UdpInv, UdpKinds, Udp!UdpNext
  PROVE  UdpKinds'
<1> USE DEF UdpKinds, Udp!serverVars, Udp!clientVars
<1>1. CASE Udp!UdpSetup \/ Udp!RelayPush \/ Udp!RelayLoop \/ Udp!LogRecv
           \/ Udp!SinkRecv
  BY <1>1 DEF Udp!UdpSetup, Udp!RelayPush, Udp!RelayLoop, Udp!LogRecv, Udp!SinkRecv
<1>2. CASE Udp!RelayRecv
  <2>1. \A d \in sent : d[1] \in Speakers
    BY DEF UdpInv, UdpTyped
  <2> QED
    BY <1>2, <2>1 DEF Udp!RelayRecv
<1>3. ASSUME NEW w \in Speakers, Udp!UdpClientStep(w) PROVE UdpKinds'
  BY <1>3 DEF Udp!UdpClientStep, Udp!TypeText, Udp!SenderQuit, Udp!JoinSender,
     Udp!RoomRecv
<1> QED
  BY <1>1, <1>2, <1>3 DEF Udp!UdpNext, Udp!UdpServerStep, Udp!RelayStep,
     Udp!LogStep, Udp!SinkStep

LEMMA UdpKindsInvariance == ServersSpec => []UdpKinds
<1>1. ServersInit => UdpKinds
  BY DEF ServersInit, Udp!UdpInit, UdpKinds
<1>2. ASSUME UdpInv, UdpKinds, [ServersNext]_serversVars PROVE UdpKinds'
  <2>1. CASE UNCHANGED udpVars
    BY <1>2, <2>1 DEF udpVars, UdpKinds
  <2> QED
    BY <1>2, <2>1, UdpKindsKept DEF ServersNext, serversVars
<1> QED
  BY <1>1, <1>2, UdpInvariance, PTL DEF ServersSpec

LEMMA CalTypes == CalInv => Cal!CalTypeOK
<1> SUFFICES ASSUME CalInv PROVE Cal!CalTypeOK
  OBVIOUS
<1>1. ASSUME NEW text, NEW buf, NEW stream,
             Arriving(buf, stream, text) \/ (buf = <<>> /\ stream = <<>>)
      PROVE  Len(stream) + Len(buf) <= 2
  <2>1. PICK f, b : f = Front(text) /\ b = Back(text)
    OBVIOUS
  <2>2. Len(<<f, b>>) = 2 /\ Len(<<f>>) = 1 /\ Len(<<b>>) = 1 /\ Len(<<>>) = 0
    OBVIOUS
  <2>3. \/ buf = <<>> /\ stream = <<f, b>>
        \/ buf = <<f>> /\ stream = <<b>>
        \/ buf = <<>> /\ stream = <<>>
    BY <1>1, <2>1 DEF Arriving, Package
  <2>4. \/ Len(buf) = 0 /\ Len(stream) = 2
        \/ Len(buf) = 1 /\ Len(stream) = 1
        \/ Len(buf) = 0 /\ Len(stream) = 0
    BY <2>2, <2>3
  <2>5. PICK m, n : m = Len(buf) /\ n = Len(stream)
    OBVIOUS
  <2>6. n + m <= 2
    BY <2>4, <2>5
  <2> QED
    BY <2>5, <2>6
<1>2. ASSUME NEW c \in Callers
      PROVE  Len(calUp[c]) + Len(calInbuffer[c]) <= 2
             /\ Len(calDown[c]) + Len(calBuffer[c]) <= 2
  <2>1. /\ ToServer(c) \/ NoneToServer(c)
        /\ ToClient(c) \/ NoneToClient(c)
    BY DEF CalInv, Asking, Idle, Requested, Computing, Replying
  <2> QED
    BY <1>1, <2>1 DEF ToServer, NoneToServer, ToClient, NoneToClient
<1> QED
  BY <1>2 DEF CalInv, CalTyped, Cal!CalTypeOK

LEMMA ForkTypes == ForkInv => Forks!ForkTypeOK
<1> SUFFICES ASSUME ForkInv PROVE Forks!ForkTypeOK
  OBVIOUS
<1>1. \A S : Forks!Cardinality(S) = Cardinality(S)
  BY DEF Forks!Cardinality, Cardinality
<1>2. Cardinality(forkCur) <= 1
  <2>1. CASE forkCur = {}
    BY <2>1, FS_EmptySet
  <2>2. ASSUME NEW k \in forkCur PROVE Cardinality(forkCur) <= 1
    <3>1. forkCur = {k}
      BY DEF ForkInv, InHand
    <3>2. Cardinality({k}) = 1
      BY FS_Singleton
    <3> QED
      BY <3>1, <3>2
  <2> QED
    BY <2>1, <2>2
<1> QED
  BY <1>1, <1>2 DEF ForkInv, ForkTyped, Forks!ForkTypeOK, Living, Kept, Forks!Alive

\* Every variable of every program has its type, whichever program runs.
THEOREM TypesCorrect == ServersSpec => []TypesOK
<1>1. ServersSpec => []TypeOK
  <2>1. IInv => TypeOK
    BY DEF IInv
  <2> QED
    BY <2>1, ServersRunChat, Invariance, PTL
<1>2. EchoInv => Echo!EchoTypeOK
  BY DEF EchoInv, Echo!EchoTypeOK
<1>3. SkInv => Sk!SkTypeOK
  BY SkCardinality DEF SkInv, Sk!SkTypeOK
<1>4. UdpInv /\ UdpKinds => Udp!UdpTypeOK /\ program \in Programs
  BY DEF UdpInv, UdpTyped, Relaying, UdpKinds, Udp!UdpTypeOK
<1>5. /\ TypeOK /\ CalInv /\ EchoInv /\ ForkInv /\ UdpInv /\ UdpKinds /\ SkInv
      => TypesOK
  BY <1>2, <1>3, <1>4, CalTypes, ForkTypes DEF TypesOK
<1> QED
  BY <1>1, <1>5, CalInvariance, EchoInvariance, ForkInvariance, UdpInvariance,
     UdpKindsInvariance, SkInvariance, PTL
=============================================================================
