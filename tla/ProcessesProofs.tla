--------------------------- MODULE ProcessesProofs ---------------------------
(* Proofs about Processes: the process pool, for any number of children and *)
(* any pipe size; the shared memory and the FIFO server, the ticket sale,   *)
(* the thread names and the shells, for every value of their constants.     *)
EXTENDS Processes, Integers, TLAPS, FiniteSetTheorems, SequenceTheorems,
        WellFoundedInduction

----------------------------------------------------------------------------
(* ProcessPool *)

Creating == ppc \in {"pipe", "fork"}

\* The parent holds the write ends of the pipes it has created, until it
\* starts to close them.
ParentHolds == /\ ppc = "pipe" => next \in Children /\ wr[Parent] = 1..next - 1
               /\ ppc = "fork" => next \in Children /\ wr[Parent] = 1..next
               /\ ppc \in {"board", "write"} =>
                    next \in Children /\ wr[Parent] = Children
               /\ ppc \in {"close", "wait"} => next \in Children

\* Children that were not forked yet.
Unborn == Creating => \A k \in Children : k >= next => cpc[k] = "none"

\* A child holds no more than what it is about to close.
ChildHolds == \A k \in Children :
                cpc[k] = "close" => wr[k] \subseteq fds[k] \cup {k}

\* No child exits while the parent can still write to it.
KeptAlive == \A k \in wr[Parent] : cpc[k] \notin {"zombie", "reaped"}

IInv == /\ TypeOK
        /\ ParentHolds
        /\ Unborn
        /\ ChildHolds
        /\ KeptAlive
        /\ NoStrayWriter
        /\ NothingAbandoned

LEMMA Numbers == /\ Parent \in Procs
                 /\ Children \subseteq Procs
                 /\ Parent \notin Children
                 /\ N \in Nat \ {0}
                 /\ Capacity \in Nat \ {0}
BY NAssumption, CapacityAssumption DEF Procs, Children, Parent

LEMMA InitIInv == Init => IInv
BY Numbers DEF Init, IInv, TypeOK, ParentHolds, Unborn, ChildHolds, KeptAlive,
               NoStrayWriter, NothingAbandoned, Children, Gone

\* Every step of the parent keeps the invariant.
LEMMA ParentKeeps ==
  ASSUME IInv, ParentStep \/ Abort \/ Choose \/ Quit
  PROVE  IInv'
<1> USE Numbers DEF IInv, TypeOK, ParentHolds, Unborn, ChildHolds, KeptAlive,
                    NoStrayWriter, NothingAbandoned, Creating, Gone
<1>1. CASE Pipe
  <2>1. 1..next - 1 \cup {next} = 1..next /\ next \in Children
    BY <1>1 DEF Pipe, Children
  <2>2. wr'[Parent] = 1..next /\ \A k \in Children : wr'[k] = wr[k]
    BY <1>1, <2>1 DEF Pipe
  <2>3. cpc[next] = "none"
    BY <1>1, <2>1 DEF Pipe, Children
  <2>4. TypeOK'
    BY <1>1, <2>1 DEF Pipe
  <2>5. KeptAlive'
    BY <1>1, <2>1, <2>2, <2>3 DEF Pipe
  <2> QED
    BY <1>1, <2>1, <2>2, <2>4, <2>5 DEF Pipe
<1>2. CASE Fork
  <2>1. /\ next \in Children /\ wr[Parent] = 1..next
        /\ 1..next \subseteq Children /\ 1..next - 1 \subseteq Children
        /\ 1..next = 1..next - 1 \cup {next}
    BY <1>2 DEF Fork, Children
  <2>2. /\ cpc'[next] = "close" /\ fds'[next] = 1..next - 1
        /\ wr'[next] = 1..next /\ wr'[Parent] = wr[Parent]
        /\ \A k \in Children \ {next} :
             cpc'[k] = cpc[k] /\ fds'[k] = fds[k] /\ wr'[k] = wr[k]
    BY <1>2, <2>1 DEF Fork
  <2>3. IF next = N THEN ppc' = "board" /\ next' = 1
                    ELSE ppc' = "pipe" /\ next' = next + 1
    BY <1>2 DEF Fork
  <2>4. 1 \in Children /\ (next # N => next + 1 \in Children)
    BY <2>1 DEF Children
  <2>5. next' \in 1..N + 1
    BY <2>3, <2>4 DEF Children
  <2>6. TypeOK'
    <3>1. cpc' \in [Children -> {"close", "read", "run"} \cup Gone]
      BY <1>2, <2>1 DEF Fork
    <3>2. fds' \in [Children -> SUBSET Children]
      BY <1>2, <2>1 DEF Fork
    <3>3. wr' \in [Procs -> SUBSET Children]
      BY <1>2, <2>1 DEF Fork
    <3> QED
      BY <1>2, <2>3, <2>5, <3>1, <3>2, <3>3 DEF Fork
  <2>7. ParentHolds'
    BY <2>1, <2>2, <2>3, <2>4 DEF Children
  <2>8. Unborn'
    BY <1>2, <2>1, <2>2, <2>3 DEF Fork, Children
  <2>9. ChildHolds' /\ NoStrayWriter'
    BY <2>1, <2>2
  <2>10. KeptAlive' /\ NothingAbandoned'
    BY <1>2, <2>1, <2>2 DEF Fork
  <2> QED
    BY <2>6, <2>7, <2>8, <2>9, <2>10
<1>3. CASE Abort
  <2>1. wr'[Parent] = {} /\ \A k \in Children : wr'[k] = wr[k]
    BY <1>3 DEF Abort
  <2> QED
    BY <1>3, <2>1 DEF Abort
<1>4. CASE Choose
  BY <1>4 DEF Choose
<1>5. CASE Quit
  <2>1. next \in Children
    BY <1>5 DEF Quit
  <2> QED
    BY <1>5, <2>1 DEF Quit
<1>6. CASE Dispatch
  <2>1. cnt \in Children /\ cpc[cnt] \notin {"zombie", "reaped"}
    BY <1>6 DEF Dispatch
  <2>2. cnt' \in Children
    BY <1>6, <2>1 DEF Dispatch, Children
  <2>3. pipe' \in [Children -> 0..Capacity]
    BY <1>6, <2>1 DEF Dispatch
  <2>4. \A k \in Children : k # cnt => pipe'[k] = pipe[k]
    BY <1>6 DEF Dispatch
  <2> QED
    BY <1>6, <2>1, <2>2, <2>3, <2>4 DEF Dispatch
<1>7. CASE Close
  <2>1. /\ wr'[Parent] = wr[Parent] \ {next}
        /\ \A k \in Children : wr'[k] = wr[k]
    BY <1>7 DEF Close
  <2>2. TypeOK'
    BY <1>7 DEF Close
  <2> QED
    BY <1>7, <2>1, <2>2 DEF Close
<1>8. CASE Wait
  <2>1. next \in Children /\ cpc[next] = "zombie"
    BY <1>8 DEF Wait
  <2>2. /\ cpc'[next] = "reaped"
        /\ \A k \in Children \ {next} : cpc'[k] = cpc[k]
    BY <1>8, <2>1 DEF Wait
  <2>3. next' \in 1..N + 1 /\ (next # N => next' \in Children)
    BY <1>8, <2>1 DEF Wait, Children
  <2>4. TypeOK'
    BY <1>8, <2>3 DEF Wait
  <2>5. KeptAlive'
    BY <1>8, <2>1, <2>2 DEF Wait
  <2> QED
    BY <1>8, <2>1, <2>2, <2>3, <2>4, <2>5 DEF Wait
<1> QED
  BY <1>1, <1>2, <1>3, <1>4, <1>5, <1>6, <1>7, <1>8 DEF ParentStep

\* Every step of a child keeps the invariant.
LEMMA ChildKeeps ==
  ASSUME IInv, NEW c \in Children, ChildStep(c)
  PROVE  IInv'
<1> USE Numbers DEF IInv, TypeOK, ParentHolds, Unborn, ChildHolds, KeptAlive,
                    NoStrayWriter, NothingAbandoned, Creating, Gone
<1>1. CASE CloseInherited(c)
  <2>1. PICK fd \in fds[c] : /\ fds' = [fds EXCEPT ![c] = @ \ {fd}]
                             /\ wr' = [wr EXCEPT ![c] = @ \ {fd}]
    BY <1>1 DEF CloseInherited
  <2>2. /\ fds'[c] = fds[c] \ {fd} /\ wr'[c] = wr[c] \ {fd}
        /\ wr'[Parent] = wr[Parent]
        /\ \A k \in Children \ {c} : fds'[k] = fds[k] /\ wr'[k] = wr[k]
    BY <2>1
  <2>3. TypeOK'
    BY <1>1, <2>1 DEF CloseInherited
  <2> QED
    BY <1>1, <2>2, <2>3 DEF CloseInherited
<1>2. CASE CloseOwn(c)
  <2>1. wr[c] \ {c} = {}
    BY <1>2 DEF CloseOwn
  <2>2. /\ wr'[c] = {} /\ cpc'[c] = "read" /\ wr'[Parent] = wr[Parent]
        /\ \A k \in Children \ {c} : wr'[k] = wr[k] /\ cpc'[k] = cpc[k]
    BY <1>2, <2>1 DEF CloseOwn
  <2>3. TypeOK'
    BY <1>2 DEF CloseOwn
  <2>4. Unborn'
    BY <1>2, <2>2 DEF CloseOwn
  <2> QED
    BY <1>2, <2>2, <2>3, <2>4 DEF CloseOwn
<1>3. CASE ReadCommand(c)
  <2>1. cpc'[c] = "run" /\ \A k \in Children \ {c} :
                              cpc'[k] = cpc[k] /\ pipe'[k] = pipe[k]
    BY <1>3 DEF ReadCommand
  <2>2. TypeOK'
    BY <1>3 DEF ReadCommand
  <2>3. Unborn'
    BY <1>3, <2>1 DEF ReadCommand
  <2> QED
    BY <1>3, <2>1, <2>2, <2>3 DEF ReadCommand
<1>4. CASE Execute(c)
  <2>1. cpc'[c] = "read" /\ \A k \in Children \ {c} : cpc'[k] = cpc[k]
    BY <1>4 DEF Execute
  <2>2. TypeOK'
    BY <1>4 DEF Execute
  <2>3. Unborn'
    BY <1>4, <2>1 DEF Execute
  <2> QED
    BY <1>4, <2>1, <2>2, <2>3 DEF Execute
<1>5. CASE EndOfFile(c)
  <2>1. /\ cpc'[c] = "zombie" /\ wr'[c] = {} /\ wr'[Parent] = wr[Parent]
        /\ \A k \in Children \ {c} : wr'[k] = wr[k] /\ cpc'[k] = cpc[k]
    BY <1>5 DEF EndOfFile
  <2>2. c \notin wr[Parent]
    BY <1>5 DEF EndOfFile
  <2>3. TypeOK'
    BY <1>5 DEF EndOfFile
  <2>4. Unborn'
    BY <1>5, <2>1 DEF EndOfFile
  <2> QED
    BY <1>5, <2>1, <2>2, <2>3, <2>4 DEF EndOfFile
<1> QED
  BY <1>1, <1>2, <1>3, <1>4, <1>5 DEF ChildStep

\* The invariant holds of every behaviour, for any number of children.
THEOREM Invariance == Spec => []IInv
<1>1. IInv /\ [Next]_vars => IInv'
  <2> SUFFICES ASSUME IInv, [Next]_vars PROVE IInv'
    OBVIOUS
  <2>1. CASE UNCHANGED vars
    BY <2>1 DEF vars, IInv, TypeOK, ParentHolds, Unborn, ChildHolds, KeptAlive,
                NoStrayWriter, NothingAbandoned, Creating
  <2>2. CASE Next
    BY <2>2, ParentKeeps, ChildKeeps DEF Next
  <2> QED
    BY <2>1, <2>2
<1> QED
  BY InitIInv, <1>1, PTL DEF Spec

\* A child that serves commands holds no write end (NoStrayWriter).
THEOREM StrayWriters == Spec => []NoStrayWriter
<1>1. IInv => NoStrayWriter
  BY DEF IInv
<1> QED
  BY Invariance, <1>1, PTL

\* A child that has exited has read its pipe to the end (NothingAbandoned):
\* the parent can write only to children that cannot have seen the end of
\* file.
THEOREM CommandsRead == Spec => []NothingAbandoned
<1>1. IInv => NothingAbandoned
  BY DEF IInv
<1> QED
  BY Invariance, <1>1, PTL
----------------------------------------------------------------------------
(* SharedPage *)

ServerHas(page, fifo) == /\ shmKey = (IF page THEN shmRun ELSE 0)
                         /\ fifoName = (IF fifo THEN shmRun ELSE 0)

\* What the names refer to while no server has aborted: to what the server
\* that runs has made and not removed.
NamesOfServer ==
  /\ shmServer = "off" => ServerHas(FALSE, FALSE)
  /\ shmServer \in {"shmget", "close", "unlink"} => ServerHas(FALSE, TRUE)
  /\ shmServer \in {"open", "wait", "print", "rmid"} => ServerHas(TRUE, TRUE)

\* A server that runs has a number; a client has attached a page, and one that
\* writes has opened a FIFO.
Numbered ==
  /\ shmServer # "off" => shmRun \in Shm!Servers
  /\ shmClient # "off" => cPage \in Shm!Servers
  /\ shmClient \in Shm!Writing => cFifo \in Shm!Servers

\* A client opens the FIFO of the server whose page it has attached, or of a
\* later one; a client that came before the FIFO had a reader has an earlier
\* server's page.
PageFirst ==
  /\ shmClient \in Shm!Writing => cPage <= cFifo
  /\ shmServer = "shmget" /\ shmClient # "off" => cPage < shmRun
  /\ shmServer = "open" /\ Shm!WriterOf(shmRun) => cPage < shmRun

QuitComes == /\ shmServer \in {"wait", "print"}
             /\ pages[shmRun] = "quit"
             /\ tokens[shmRun] > 0 \/ shmServer = "print"

\* A server without a writer is told to quit, unless its client was cut off.
QuitOrCutOff ==
  shmServer \in {"wait", "print"} /\ ~Shm!WriterOf(shmRun) =>
    shmRun \in cutOff \/ QuitComes

\* A client that is about to quit has sent the token.
QuitSent ==
  (/\ shmServer \in {"wait", "print"}
   /\ shmClient = "check" /\ cPage = shmRun /\ cFifo = shmRun
   /\ pages[shmRun] = "quit") => QuitComes

Orderly == NamesOfServer /\ PageFirst /\ QuitOrCutOff /\ QuitSent

\* After an abort the FIFO's name stays, and no server gets further.
Stuck == shmServer = "off" /\ fifoName # 0

PageInv == /\ Shm!PageTypeOK /\ Numbered
           /\ aborted \subseteq cutOff
           /\ aborted # {} => Stuck
           /\ aborted = {} => Orderly

LEMMA PageNumbers == /\ MaxServers \in Nat /\ MaxTokens \in Nat \ {0}
                     /\ Shm!Servers = 1..MaxServers
BY ProcessesAssumption DEF Shm!PageAssumption, Shm!Servers

PageRanges ==
  /\ shmRun \in 0..MaxServers /\ shmKey \in 0..shmRun /\ fifoName \in 0..shmRun
  /\ cPage \in 0..shmRun /\ cFifo \in 0..shmRun

PageContents ==
  /\ pages \in [Shm!Servers -> {"empty", "line", "quit", "torn"}]
  /\ tokens \in [Shm!Servers -> 0..MaxTokens]
  /\ cutOff \subseteq Shm!Servers /\ aborted \subseteq Shm!Servers

PageKinds ==
  /\ shmServer \in {"off", "shmget", "open", "wait", "print", "rmid", "close",
                    "unlink"}
  /\ shmClient \in {"off", "open", "opening", "type", "end", "signal", "check"}

LEMMA PageTypes == Shm!PageTypeOK <=> PageRanges /\ PageContents /\ PageKinds
BY DEF Shm!PageTypeOK, PageRanges, PageContents, PageKinds

LEMMA PageStarts == Shm!PageInit => PageInv
<1> SUFFICES ASSUME Shm!PageInit PROVE PageInv
  OBVIOUS
<1>1. PageRanges /\ PageKinds
  BY PageNumbers DEF Shm!PageInit, PageRanges, PageKinds
<1>2. PageContents
  BY PageNumbers DEF Shm!PageInit, PageContents
<1>3. Numbered /\ Orderly /\ aborted = {}
  BY DEF Shm!PageInit, Numbered, Orderly, NamesOfServer, ServerHas, PageFirst,
         QuitOrCutOff, QuitSent, Shm!Writing, Shm!WriterOf
<1> QED
  BY <1>1, <1>2, <1>3, PageTypes DEF PageInv

LEMMA PageRangesKept ==
  ASSUME PageRanges, Shm!PageNext
  PROVE  PageRanges'
<1> USE PageNumbers DEF PageRanges
<1>1. CASE Shm!Shmget
  BY <1>1 DEF Shm!Shmget, Shm!pageClientVars
<1>2. CASE UNCHANGED <<shmRun, shmKey, fifoName, cPage, cFifo>>
  BY <1>2
<1>3. CASE Shm!RemovePage
  BY <1>3 DEF Shm!RemovePage, Shm!pageClientVars
<1>4. CASE Shm!UnlinkFifo
  BY <1>4 DEF Shm!UnlinkFifo, Shm!pageClientVars
<1>5. CASE Shm!StartServer
  <2>1. /\ shmRun' = shmRun + 1 /\ shmRun + 1 \in 0..MaxServers
        /\ fifoName' \in {fifoName, shmRun + 1} /\ UNCHANGED <<shmKey, cPage, cFifo>>
    BY <1>5 DEF Shm!StartServer, Shm!pageClientVars
  <2>2. 0..shmRun \subseteq 0..shmRun + 1 /\ shmRun + 1 \in 0..shmRun + 1
    OBVIOUS
  <2> QED
    BY <2>1, <2>2
<1>6. CASE Shm!StartClient
  BY <1>6 DEF Shm!StartClient, Shm!pageServerVars
<1>7. CASE Shm!OpenWrite
  BY <1>7 DEF Shm!OpenWrite
<1>8. Shm!OpenRead \/ Shm!Wait \/ Shm!PrintPage \/ Shm!CloseFifo
        => UNCHANGED <<shmRun, shmKey, fifoName, cPage, cFifo>>
  BY DEF Shm!OpenRead, Shm!Wait, Shm!PrintPage, Shm!CloseFifo, Shm!pageClientVars
<1>9. Shm!Opened \/ Shm!EndLine \/ Shm!Signal \/ Shm!CheckQuit \/ Shm!ReadLine
      \/ Shm!KillClient => UNCHANGED <<shmRun, shmKey, fifoName, cPage, cFifo>>
  BY DEF Shm!Opened, Shm!EndLine, Shm!Signal, Shm!CheckQuit, Shm!ReadLine,
         Shm!KillClient, Shm!pageServerVars
<1> QED
  BY <1>1, <1>2, <1>3, <1>4, <1>5, <1>6, <1>7, <1>8, <1>9
  DEF Shm!PageNext, Shm!PageServerStep, Shm!PageClientStep

LEMMA PageKindsKept ==
  ASSUME PageKinds, Shm!PageNext
  PROVE  PageKinds'
<1>1. Shm!PageServerStep \/ Shm!StartServer => PageKinds'
  BY DEF PageKinds, Shm!PageServerStep, Shm!Shmget, Shm!OpenRead, Shm!Wait,
         Shm!PrintPage, Shm!RemovePage, Shm!CloseFifo, Shm!UnlinkFifo,
         Shm!StartServer, Shm!pageClientVars
<1>2. Shm!PageClientStep \/ Shm!StartClient \/ Shm!ReadLine \/ Shm!KillClient
        => PageKinds'
  BY DEF PageKinds, Shm!PageClientStep, Shm!OpenWrite, Shm!Opened, Shm!EndLine,
         Shm!Signal, Shm!CheckQuit, Shm!StartClient, Shm!ReadLine,
         Shm!KillClient, Shm!pageServerVars
<1> QED
  BY <1>1, <1>2 DEF Shm!PageNext

LEMMA NumberedKept ==
  ASSUME PageRanges, Numbered, Shm!PageNext
  PROVE  Numbered'
<1> USE DEF Numbered
<1>1. CASE Shm!StartServer
  <2>1. shmRun' \in Shm!Servers
    BY <1>1, PageNumbers DEF Shm!StartServer, PageRanges
  <2> QED
    BY <1>1, <2>1 DEF Shm!StartServer, Shm!pageClientVars
<1>2. CASE Shm!PageServerStep
  BY <1>2
  DEF Shm!PageServerStep, Shm!Shmget, Shm!OpenRead, Shm!Wait, Shm!PrintPage,
      Shm!RemovePage, Shm!CloseFifo, Shm!UnlinkFifo, Shm!pageClientVars
<1>3. CASE Shm!StartClient
  <2>1. shmKey \in Shm!Servers
    BY <1>3, PageNumbers DEF Shm!StartClient, PageRanges
  <2> QED
    BY <1>3, <2>1 DEF Shm!StartClient, Shm!pageServerVars, Shm!Writing
<1>4. CASE Shm!OpenWrite
  <2>1. fifoName # 0 => fifoName \in Shm!Servers
    BY PageNumbers DEF PageRanges
  <2> QED
    BY <1>4, <2>1 DEF Shm!OpenWrite, Shm!Writing
<1>5. CASE \/ Shm!Opened \/ Shm!EndLine \/ Shm!Signal \/ Shm!CheckQuit
           \/ Shm!ReadLine \/ Shm!KillClient
  BY <1>5 DEF Shm!Opened, Shm!EndLine, Shm!Signal, Shm!CheckQuit, Shm!ReadLine,
              Shm!KillClient, Shm!pageServerVars, Shm!Writing
<1> QED
  BY <1>1, <1>2, <1>3, <1>4, <1>5 DEF Shm!PageNext, Shm!PageClientStep

LEMMA PageContentsKept ==
  ASSUME PageContents, PageKinds, Numbered, Shm!PageNext
  PROVE  PageContents'
<1> USE PageNumbers DEF PageContents
<1>1. CASE Shm!Wait
  <2>1. shmRun \in Shm!Servers
    BY <1>1 DEF Shm!Wait, Numbered
  <2>2. PICK n \in 0..MaxTokens : n = tokens[shmRun]
    BY <2>1
  <2>3. n > 0 => n - 1 \in 0..MaxTokens
    BY <2>2
  <2>4. tokens' \in [Shm!Servers -> 0..MaxTokens]
    <3>1. CASE UNCHANGED tokens
      BY <3>1
    <3>2. CASE n > 0 /\ tokens' = [tokens EXCEPT ![shmRun] = n - 1]
      BY <2>3, <3>2
    <3> QED
      BY <1>1, <2>2, <3>1, <3>2 DEF Shm!Wait
  <2> QED
    BY <1>1, <2>1, <2>4 DEF Shm!Wait, Shm!pageClientVars
<1>2. CASE Shm!Signal
  <2>1. cFifo \in Shm!Servers
    BY <1>2 DEF Shm!Signal, Numbered, Shm!Writing
  <2>2. PICK n \in 0..MaxTokens : n = tokens[cFifo]
    BY <2>1
  <2>3. n < MaxTokens => n + 1 \in 0..MaxTokens
    BY <2>2
  <2>4. tokens' \in [Shm!Servers -> 0..MaxTokens]
    <3>1. CASE UNCHANGED tokens
      BY <3>1
    <3>2. CASE n < MaxTokens /\ tokens' = [tokens EXCEPT ![cFifo] = n + 1]
      BY <2>3, <3>2
    <3> QED
      BY <1>2, <2>2, <3>1, <3>2 DEF Shm!Signal
  <2> QED
    BY <1>2, <2>4 DEF Shm!Signal, Shm!pageServerVars
<1>3. CASE Shm!ReadLine \/ Shm!EndLine
  <2>1. pages' \in [Shm!Servers -> {"empty", "line", "quit", "torn"}]
    BY <1>3 DEF Shm!ReadLine, Shm!EndLine
  <2> QED
    BY <1>3, <2>1 DEF Shm!ReadLine, Shm!EndLine, Shm!pageServerVars
<1>4. CASE Shm!CheckQuit \/ Shm!KillClient
  <2>1. shmClient \in Shm!Writing => cFifo \in Shm!Servers
    BY DEF Numbered
  <2>2. cutOff' \subseteq Shm!Servers
    BY <1>4, <2>1 DEF Shm!CheckQuit, Shm!KillClient, Shm!Writing, PageKinds
  <2> QED
    BY <1>4, <2>2 DEF Shm!CheckQuit, Shm!KillClient, Shm!pageServerVars
<1>5. Shm!Shmget \/ Shm!OpenRead \/ Shm!PrintPage \/ Shm!RemovePage
      \/ Shm!CloseFifo \/ Shm!UnlinkFifo \/ Shm!StartServer
        => UNCHANGED <<pages, tokens, cutOff, aborted>>
  BY DEF Shm!Shmget, Shm!OpenRead, Shm!PrintPage, Shm!RemovePage, Shm!CloseFifo,
         Shm!UnlinkFifo, Shm!StartServer, Shm!pageClientVars
<1>6. Shm!OpenWrite \/ Shm!Opened \/ Shm!StartClient
        => UNCHANGED <<pages, tokens, cutOff, aborted>>
  BY DEF Shm!OpenWrite, Shm!Opened, Shm!StartClient, Shm!pageServerVars
<1>7. UNCHANGED <<pages, tokens, cutOff, aborted>> => PageContents'
  OBVIOUS
<1> QED
  BY <1>1, <1>2, <1>3, <1>4, <1>5, <1>6, <1>7
  DEF Shm!PageNext, Shm!PageServerStep, Shm!PageClientStep

\* Nothing removes the FIFO that an abort left behind.
LEMMA StaysStuck ==
  ASSUME Stuck, Shm!PageNext
  PROVE  Stuck' /\ aborted' = aborted
<1>1. CASE Shm!PageServerStep
  BY <1>1 DEF Stuck, Shm!PageServerStep, Shm!Shmget, Shm!OpenRead, Shm!Wait,
              Shm!PrintPage, Shm!RemovePage, Shm!CloseFifo, Shm!UnlinkFifo
<1>2. CASE Shm!StartServer
  BY <1>2 DEF Stuck, Shm!StartServer
<1>3. CASE Shm!OpenWrite
  BY <1>3 DEF Stuck, Shm!OpenWrite
<1>4. CASE \/ Shm!Opened \/ Shm!EndLine \/ Shm!Signal \/ Shm!CheckQuit
           \/ Shm!StartClient \/ Shm!ReadLine \/ Shm!KillClient
  BY <1>4 DEF Stuck, Shm!Opened, Shm!EndLine, Shm!Signal, Shm!CheckQuit,
              Shm!StartClient, Shm!ReadLine, Shm!KillClient, Shm!pageServerVars
<1> QED
  BY <1>1, <1>2, <1>3, <1>4 DEF Shm!PageNext, Shm!PageClientStep

\* Whoever is cut off stays so.
LEMMA CutOffGrows == Shm!PageNext => cutOff \subseteq cutOff'
<1>1. Shm!PageServerStep \/ Shm!StartServer => UNCHANGED cutOff
  BY DEF Shm!PageServerStep, Shm!Shmget, Shm!OpenRead, Shm!Wait, Shm!PrintPage,
         Shm!RemovePage, Shm!CloseFifo, Shm!UnlinkFifo, Shm!StartServer,
         Shm!pageClientVars
<1>2. Shm!PageClientStep \/ Shm!StartClient \/ Shm!ReadLine \/ Shm!KillClient
        => cutOff \subseteq cutOff'
  BY DEF Shm!PageClientStep, Shm!OpenWrite, Shm!Opened, Shm!EndLine, Shm!Signal,
         Shm!CheckQuit, Shm!StartClient, Shm!ReadLine, Shm!KillClient
<1> QED
  BY <1>1, <1>2 DEF Shm!PageNext

\* While no server has aborted: the server's own steps.
LEMMA OrderlyServer ==
  ASSUME PageRanges, Numbered, Orderly,
         \/ Shm!Shmget \/ Shm!OpenRead \/ Shm!PrintPage \/ Shm!RemovePage
         \/ Shm!CloseFifo \/ Shm!UnlinkFifo \/ Shm!StartServer
  PROVE  Orderly'
<1>0. NamesOfServer /\ PageFirst /\ QuitOrCutOff /\ QuitSent
  BY DEF Orderly
<1>a. /\ shmRun \in Nat /\ cPage \in Nat /\ cFifo \in Nat
      /\ cPage <= shmRun /\ cFifo <= shmRun
  BY PageNumbers DEF PageRanges
<1>1. CASE Shm!StartServer
  <2>1. /\ shmServer = "off" /\ shmServer' = "shmget" /\ shmRun' = shmRun + 1
        /\ fifoName' = shmRun' /\ shmKey' = 0
        /\ UNCHANGED <<pages, tokens, aborted, shmClient, cPage, cFifo, cutOff>>
    BY <1>0, <1>1 DEF Shm!StartServer, NamesOfServer, ServerHas, Shm!pageClientVars
  <2>2. NamesOfServer'
    BY <2>1 DEF NamesOfServer, ServerHas
  <2>3. PageFirst'
    BY <1>0, <1>a, <2>1 DEF PageFirst
  <2> QED
    BY <2>1, <2>2, <2>3 DEF Orderly, QuitOrCutOff, QuitSent
<1>2. CASE Shm!Shmget
  <2>1. /\ shmServer = "shmget" /\ shmServer' = "open" /\ shmKey' = shmRun
        /\ UNCHANGED <<shmRun, fifoName, shmClient, cPage, cFifo>>
    BY <1>0, <1>2 DEF Shm!Shmget, NamesOfServer, ServerHas, Shm!pageClientVars
  <2>2. NamesOfServer' /\ QuitOrCutOff' /\ QuitSent'
    BY <1>0, <2>1 DEF NamesOfServer, ServerHas, QuitOrCutOff, QuitSent
  <2>3. PageFirst'
    BY <1>0, <2>1 DEF PageFirst, Shm!WriterOf, Shm!Writing
  <2> QED
    BY <2>2, <2>3 DEF Orderly
<1>3. CASE Shm!OpenRead
  <2>1. /\ shmServer = "open" /\ shmServer' = "wait" /\ Shm!WriterOf(shmRun)
        /\ UNCHANGED <<shmRun, shmKey, fifoName, pages, tokens, shmClient, cPage,
                       cFifo, cutOff>>
    BY <1>3 DEF Shm!OpenRead, Shm!pageClientVars
  <2>2. cPage < shmRun
    BY <1>0, <2>1 DEF PageFirst
  <2>3. QuitSent' /\ QuitOrCutOff'
    BY <1>a, <2>1, <2>2 DEF QuitSent, QuitOrCutOff, Shm!WriterOf
  <2>4. NamesOfServer' /\ PageFirst'
    BY <1>0, <2>1 DEF NamesOfServer, ServerHas, PageFirst
  <2> QED
    BY <2>3, <2>4 DEF Orderly
<1>4. CASE Shm!PrintPage
  <2>1. /\ shmServer = "print"
        /\ shmServer' = IF pages[shmRun] = "quit" THEN "rmid" ELSE "wait"
        /\ UNCHANGED <<shmRun, shmKey, fifoName, pages, tokens, shmClient, cPage,
                       cFifo, cutOff>>
    BY <1>4 DEF Shm!PrintPage, Shm!pageClientVars
  <2>2. NamesOfServer' /\ PageFirst'
    BY <1>0, <2>1 DEF NamesOfServer, ServerHas, PageFirst
  <2>3. QuitOrCutOff' /\ QuitSent'
    BY <1>0, <2>1 DEF QuitOrCutOff, QuitSent, QuitComes, Shm!WriterOf
  <2> QED
    BY <2>2, <2>3 DEF Orderly
<1>5. CASE Shm!RemovePage \/ Shm!CloseFifo \/ Shm!UnlinkFifo
  <2>1. /\ shmServer \in {"rmid", "close", "unlink"}
        /\ shmServer' \in {"close", "unlink", "off"}
        /\ UNCHANGED <<shmRun, pages, tokens, shmClient, cPage, cFifo, cutOff>>
    BY <1>5 DEF Shm!RemovePage, Shm!CloseFifo, Shm!UnlinkFifo, Shm!pageClientVars
  <2>2. NamesOfServer'
    BY <1>0, <1>5 DEF Shm!RemovePage, Shm!CloseFifo, Shm!UnlinkFifo,
                      NamesOfServer, ServerHas
  <2>3. PageFirst' /\ QuitOrCutOff' /\ QuitSent'
    BY <1>0, <2>1 DEF PageFirst, QuitOrCutOff, QuitSent
  <2> QED
    BY <2>2, <2>3 DEF Orderly
<1> QED
  BY <1>1, <1>2, <1>3, <1>4, <1>5

\* Wait takes a token, or finds that the client was cut off.
LEMMA OrderlyWait ==
  ASSUME PageContents, Numbered, Orderly, aborted = {}, Shm!Wait
  PROVE  \/ Orderly' /\ aborted' = {}
         \/ Stuck' /\ aborted' = {shmRun} /\ shmRun \in cutOff'
<1>0. NamesOfServer /\ PageFirst /\ QuitOrCutOff /\ QuitSent
  BY DEF Orderly
<1>a. /\ shmServer = "wait" /\ shmRun \in Shm!Servers /\ shmRun # 0
      /\ fifoName = shmRun
      /\ UNCHANGED <<shmRun, shmKey, fifoName, pages, shmClient, cPage, cFifo, cutOff>>
  BY <1>0, PageNumbers
  DEF Shm!Wait, Numbered, NamesOfServer, ServerHas, Shm!pageClientVars
<1>1. CASE /\ tokens[shmRun] > 0 /\ shmServer' = "print" /\ UNCHANGED aborted
  <2>1. NamesOfServer' /\ PageFirst'
    BY <1>0, <1>1, <1>a DEF NamesOfServer, ServerHas, PageFirst
  <2>2. QuitOrCutOff' /\ QuitSent'
    BY <1>0, <1>1, <1>a DEF QuitOrCutOff, QuitSent, QuitComes, Shm!WriterOf
  <2> QED
    BY <1>1, <2>1, <2>2 DEF Orderly
<1>2. CASE /\ tokens[shmRun] = 0 /\ ~Shm!WriterOf(shmRun) /\ shmServer' = "off"
           /\ aborted' = aborted \cup {shmRun}
  <2>1. ~QuitComes
    BY <1>2, <1>a DEF QuitComes
  <2>2. shmRun \in cutOff
    BY <1>0, <1>2, <1>a, <2>1 DEF QuitOrCutOff
  <2> QED
    BY <1>2, <1>a, <2>2 DEF Stuck
<1> QED
  BY <1>1, <1>2 DEF Shm!Wait

\* The client's steps.
LEMMA OrderlyClient ==
  ASSUME PageRanges, PageContents, PageKinds, Numbered, Orderly,
         \/ Shm!PageClientStep \/ Shm!StartClient \/ Shm!ReadLine
         \/ Shm!KillClient
  PROVE  Orderly'
<1>0. NamesOfServer /\ PageFirst /\ QuitOrCutOff /\ QuitSent
  BY DEF Orderly
<1>a. /\ shmRun \in Nat /\ cPage \in Nat /\ cFifo \in Nat /\ shmKey \in Nat
      /\ cPage <= shmRun /\ cFifo <= shmRun /\ shmKey <= shmRun
  BY PageNumbers DEF PageRanges
<1>1. CASE Shm!StartClient
  <2>1. /\ shmClient = "off" /\ shmClient' = "open" /\ shmKey # 0 /\ cPage' = shmKey
        /\ UNCHANGED <<shmServer, shmRun, shmKey, fifoName, pages, tokens, cFifo,
                       cutOff>>
    BY <1>1 DEF Shm!StartClient, Shm!pageServerVars
  <2>2. shmServer # "shmget"
    BY <1>0, <2>1 DEF NamesOfServer, ServerHas
  <2>3. NamesOfServer' /\ PageFirst'
    BY <1>0, <2>1, <2>2 DEF NamesOfServer, ServerHas, PageFirst, Shm!Writing,
                            Shm!WriterOf
  <2>4. QuitOrCutOff' /\ QuitSent'
    BY <1>0, <2>1 DEF QuitOrCutOff, QuitSent, QuitComes, Shm!Writing, Shm!WriterOf
  <2> QED
    BY <2>3, <2>4 DEF Orderly
<1>2. CASE Shm!OpenWrite
  <2>1. /\ shmClient = "open" /\ cFifo' = fifoName
        /\ shmClient' = IF fifoName = 0 THEN "off" ELSE "opening"
        /\ shmServer' = IF shmServer = "open" /\ fifoName = shmRun
                        THEN "wait" ELSE shmServer
        /\ UNCHANGED <<shmRun, shmKey, fifoName, pages, tokens, cPage, cutOff>>
    BY <1>2 DEF Shm!OpenWrite
  <2>2. fifoName # 0 => fifoName = shmRun
    BY <1>0, PageKinds DEF NamesOfServer, ServerHas, PageKinds
  <2>3. NamesOfServer'
    BY <1>0, <2>1 DEF NamesOfServer, ServerHas
  <2>4. shmServer' # "open"
    BY <1>0, <2>1 DEF NamesOfServer, ServerHas
  <2>5. PageFirst'
    BY <1>0, <1>a, <2>1, <2>2, <2>4 DEF PageFirst, Shm!Writing
  <2>6. shmServer' \in {"wait", "print"} => fifoName = shmRun /\ shmRun # 0
    BY <1>0, <2>1, PageNumbers DEF NamesOfServer, ServerHas, Numbered
  <2>7. QuitOrCutOff' /\ QuitSent'
    BY <2>1, <2>6 DEF QuitOrCutOff, QuitSent, Shm!WriterOf, Shm!Writing
  <2> QED
    BY <2>3, <2>5, <2>7 DEF Orderly
<1>3. CASE Shm!Opened
  <2>1. /\ shmClient = "opening" /\ shmClient' = "type"
        /\ UNCHANGED <<shmServer, shmRun, shmKey, fifoName, pages, tokens, cPage,
                       cFifo, cutOff>>
    BY <1>3 DEF Shm!Opened, Shm!pageServerVars
  <2> QED
    BY <1>0, <2>1
    DEF Orderly, NamesOfServer, ServerHas, PageFirst, QuitOrCutOff, QuitSent,
        QuitComes, Shm!WriterOf, Shm!Writing
<1>4. CASE Shm!ReadLine \/ Shm!EndLine
  <2>1. /\ shmClient \in {"type", "end"} /\ shmClient' \in {"end", "signal"}
        /\ UNCHANGED <<shmServer, shmRun, shmKey, fifoName, tokens, cPage, cFifo,
                       cutOff>>
        /\ \A r \in Shm!Servers \ {cPage} : pages'[r] = pages[r]
    BY <1>4 DEF Shm!ReadLine, Shm!EndLine, Shm!pageServerVars, PageContents
  <2>2. NamesOfServer' /\ PageFirst' /\ QuitSent'
    BY <1>0, <2>1 DEF NamesOfServer, ServerHas, PageFirst, QuitSent, Shm!WriterOf,
                      Shm!Writing
  <2>3. QuitOrCutOff'
    <3> SUFFICES ASSUME shmServer \in {"wait", "print"}, ~Shm!WriterOf(shmRun)
                 PROVE  (shmRun \in cutOff \/ QuitComes)'
      BY <2>1 DEF QuitOrCutOff, Shm!WriterOf, Shm!Writing
    <3>1. cFifo # shmRun /\ cPage <= cFifo
      BY <1>0, <2>1 DEF Shm!WriterOf, Shm!Writing, PageFirst
    <3>2. cPage # shmRun
      BY <1>a, <3>1
    <3>3. pages'[shmRun] = pages[shmRun]
      BY <2>1, <3>2 DEF Numbered
    <3> QED
      BY <1>0, <2>1, <3>3 DEF QuitOrCutOff, QuitComes
  <2> QED
    BY <2>2, <2>3 DEF Orderly
<1>5. CASE Shm!Signal
  <2>1. /\ shmClient = "signal" /\ cFifo \in Shm!Servers
        /\ UNCHANGED <<shmServer, shmRun, shmKey, fifoName, pages, cPage, cFifo,
                       cutOff>>
    BY <1>5 DEF Shm!Signal, Shm!pageServerVars, Numbered, Shm!Writing
  <2>2. PICK n \in Nat : n = tokens[cFifo]
    BY <2>1, PageNumbers DEF PageContents
  <2>3. CASE /\ Shm!ReaderOf(cFifo) /\ tokens' = [tokens EXCEPT ![cFifo] = n + 1]
             /\ shmClient' = "check"
    <3>1. tokens'[cFifo] > 0 /\ cFifo = shmRun
      BY <2>1, <2>2, <2>3 DEF PageContents, Shm!ReaderOf
    <3>2. NamesOfServer' /\ PageFirst'
      BY <1>0, <2>1, <2>3 DEF NamesOfServer, ServerHas, PageFirst, Shm!WriterOf,
                              Shm!Writing
    <3>3. QuitOrCutOff' /\ QuitSent'
      BY <2>1, <2>3, <3>1 DEF QuitOrCutOff, QuitSent, QuitComes, Shm!WriterOf,
                              Shm!Writing
    <3> QED
      BY <3>2, <3>3 DEF Orderly
  <2>4. CASE ~Shm!ReaderOf(cFifo) /\ shmClient' = "off" /\ UNCHANGED tokens
    <3>1. NamesOfServer' /\ PageFirst' /\ QuitSent'
      BY <1>0, <2>1, <2>4 DEF NamesOfServer, ServerHas, PageFirst, QuitSent,
                              Shm!WriterOf, Shm!Writing
    <3>2. QuitOrCutOff'
      BY <1>0, <2>1, <2>4 DEF QuitOrCutOff, QuitComes, Shm!WriterOf, Shm!Writing,
                              Shm!ReaderOf
    <3> QED
      BY <3>1, <3>2 DEF Orderly
  <2> QED
    BY <1>5, <2>2, <2>3, <2>4 DEF Shm!Signal
<1>6. CASE Shm!CheckQuit
  <2>1. /\ shmClient = "check"
        /\ UNCHANGED <<shmServer, shmRun, shmKey, fifoName, pages, tokens, cPage,
                       cFifo>>
    BY <1>6 DEF Shm!CheckQuit, Shm!pageServerVars
  <2>2. CASE pages[cPage] # "quit" /\ shmClient' = "type" /\ UNCHANGED cutOff
    BY <1>0, <2>1, <2>2
    DEF Orderly, NamesOfServer, ServerHas, PageFirst, QuitOrCutOff, QuitSent,
        QuitComes, Shm!WriterOf, Shm!Writing
  <2>3. CASE /\ pages[cPage] = "quit" /\ shmClient' = "off"
             /\ cutOff' = IF cPage = cFifo THEN cutOff ELSE cutOff \cup {cFifo}
    <3>1. NamesOfServer' /\ PageFirst' /\ QuitSent'
      BY <1>0, <2>1, <2>3 DEF NamesOfServer, ServerHas, PageFirst, QuitSent,
                              Shm!WriterOf, Shm!Writing
    <3>2. QuitOrCutOff'
      BY <1>0, <2>1, <2>3 DEF QuitOrCutOff, QuitSent, QuitComes, Shm!WriterOf,
                              Shm!Writing
    <3> QED
      BY <3>1, <3>2 DEF Orderly
  <2> QED
    BY <1>6, <2>2, <2>3 DEF Shm!CheckQuit
<1>7. CASE Shm!KillClient
  <2>1. /\ shmClient # "off" /\ shmClient' = "off"
        /\ cutOff' = IF shmClient = "open" THEN cutOff ELSE cutOff \cup {cFifo}
        /\ UNCHANGED <<shmServer, shmRun, shmKey, fifoName, pages, tokens, cPage,
                       cFifo>>
    BY <1>7 DEF Shm!KillClient, Shm!pageServerVars
  <2>2. NamesOfServer' /\ PageFirst' /\ QuitSent'
    BY <1>0, <2>1 DEF NamesOfServer, ServerHas, PageFirst, QuitSent, Shm!WriterOf,
                      Shm!Writing
  <2>3. QuitOrCutOff'
    BY <1>0, <2>1 DEF QuitOrCutOff, QuitComes, Shm!WriterOf, Shm!Writing
  <2> QED
    BY <2>2, <2>3 DEF Orderly
<1> QED
  BY <1>1, <1>2, <1>3, <1>4, <1>5, <1>6, <1>7 DEF Shm!PageClientStep

LEMMA PageKeeps ==
  ASSUME PageInv, [Shm!PageNext]_pageVars
  PROVE  PageInv'
<1>0. PageRanges /\ PageContents /\ PageKinds /\ Numbered
  BY PageTypes DEF PageInv
<1>1. CASE UNCHANGED pageVars
  BY <1>1 DEF pageVars, PageInv, Shm!PageTypeOK, Numbered, Stuck, Orderly,
              NamesOfServer, ServerHas, PageFirst, QuitOrCutOff, QuitSent,
              QuitComes, Shm!WriterOf
<1>2. CASE Shm!PageNext
  <2>1. PageRanges' /\ PageContents' /\ PageKinds'
    BY <1>0, <1>2, PageRangesKept, PageContentsKept, PageKindsKept
  <2>2. Shm!PageTypeOK'
    BY <2>1 DEF Shm!PageTypeOK, PageRanges, PageContents, PageKinds
  <2>3. Numbered'
    BY <1>0, <1>2, NumberedKept
  <2>4. cutOff \subseteq cutOff'
    BY <1>2, CutOffGrows
  <2>5. CASE aborted # {}
    BY <1>2, <2>2, <2>3, <2>4, <2>5, StaysStuck DEF PageInv
  <2>6. CASE aborted = {}
    <3>1. Orderly
      BY <2>6 DEF PageInv
    <3>2. CASE Shm!Wait
      <4>1. \/ Orderly' /\ aborted' = {}
            \/ Stuck' /\ aborted' = {shmRun} /\ shmRun \in cutOff'
        BY <1>0, <2>6, <3>1, <3>2, OrderlyWait
      <4> QED
        BY <2>2, <2>3, <4>1 DEF PageInv
    <3>3. CASE ~Shm!Wait
      <4>1. Orderly'
        BY <1>0, <1>2, <3>1, <3>3, OrderlyServer, OrderlyClient
        DEF Shm!PageNext, Shm!PageServerStep
      <4>2. aborted' = aborted
        <5>1. Shm!PageServerStep \/ Shm!StartServer => UNCHANGED aborted
          BY <3>3 DEF Shm!PageServerStep, Shm!Shmget, Shm!OpenRead, Shm!PrintPage,
             Shm!RemovePage, Shm!CloseFifo, Shm!UnlinkFifo, Shm!StartServer
        <5>2. Shm!PageClientStep \/ Shm!StartClient \/ Shm!ReadLine
              \/ Shm!KillClient => UNCHANGED aborted
          BY DEF Shm!PageClientStep, Shm!OpenWrite, Shm!Opened, Shm!EndLine,
             Shm!Signal, Shm!CheckQuit, Shm!StartClient, Shm!ReadLine,
             Shm!KillClient, Shm!pageServerVars
        <5> QED
          BY <1>2, <5>1, <5>2 DEF Shm!PageNext
      <4> QED
        BY <2>2, <2>3, <2>6, <4>1, <4>2 DEF PageInv
    <3> QED
      BY <3>2, <3>3
  <2> QED
    BY <2>5, <2>6
<1> QED
  BY <1>1, <1>2

LEMMA PageIsRight == PageInv => Shm!AbortsOnlyIfCutOff
BY DEF PageInv, Shm!AbortsOnlyIfCutOff, Orderly, NamesOfServer, ServerHas

----------------------------------------------------------------------------
(* FifoServer *)

Unreaped == {r \in Fifo!Readers : fifoChild[r] \in {"read", "zombie"}}

\* main forks and waits as often as there are children, so none is left when
\* it closes the FIFO.
ReapTurn ==
  /\ fifoParent \in {"mkfifo", "open"} => fifoLoop = 0
  /\ fifoParent \in {"mkfifo", "open", "fork"} =>
       \A r \in Fifo!Readers : r > fifoLoop => fifoChild[r] = "none"
  /\ fifoParent \in {"fork", "wait"} => fifoLoop < Nums
  /\ fifoParent = "wait" => Cardinality(Unreaped) <= Nums - fifoLoop
  /\ fifoParent \in {"close", "unlink", "exit"} => Unreaped = {}

\* What nobody reads was written when nobody was reading.
Noticed == fifoData > 0 /\ Fifo!Reading = {} => unread

FifoInv == Fifo!FifoTypeOK /\ ReapTurn /\ Noticed

LEMMA FifoNumbers ==
  /\ Nums \in Nat \ {0} /\ PipeSize \in Nat \ {0} /\ Fifo!Readers = 1..Nums
  /\ IsFiniteSet(Unreaped) /\ Cardinality(Unreaped) \in 0..Nums
<1>1. Nums \in Nat \ {0} /\ PipeSize \in Nat \ {0} /\ Fifo!Readers = 1..Nums
  BY ProcessesAssumption DEF Fifo!FifoAssumption, Fifo!Readers
<1>2. IsFiniteSet(1..Nums) /\ Cardinality(1..Nums) = Nums
  BY <1>1, FS_Interval
<1>3. Unreaped \subseteq 1..Nums
  BY <1>1 DEF Unreaped
<1>4. IsFiniteSet(Unreaped) /\ Cardinality(Unreaped) <= Nums
  BY <1>2, <1>3, FS_Subset
<1>5. Cardinality(Unreaped) \in Nat
  BY <1>4, FS_CardinalityType
<1> QED
  BY <1>1, <1>4, <1>5

LEMMA FifoStarts == Fifo!FifoInit => FifoInv
<1> SUFFICES ASSUME Fifo!FifoInit PROVE FifoInv
  OBVIOUS
<1>1. Fifo!FifoTypeOK
  <2>1. 0 \in 0..Nums /\ 0 \in 0..PipeSize
    BY FifoNumbers
  <2> QED
    BY <2>1 DEF Fifo!FifoInit, Fifo!FifoTypeOK
<1>2. ReapTurn
  BY FifoNumbers DEF Fifo!FifoInit, ReapTurn
<1>3. Noticed
  BY DEF Fifo!FifoInit, Noticed
<1> QED
  BY <1>1, <1>2, <1>3 DEF FifoInv

\* FifoWait: main waits once more, for a child that has ended or for none.
LEMMA FifoWaitKeeps ==
  ASSUME FifoInv, Fifo!FifoWait
  PROVE  FifoInv'
<1>0. Fifo!FifoTypeOK /\ ReapTurn /\ Noticed
  BY DEF FifoInv
<1>1. /\ fifoParent = "wait"
      /\ fifoLoop' = IF fifoLoop + 1 = Nums THEN 0 ELSE fifoLoop + 1
      /\ fifoParent' = IF fifoLoop + 1 = Nums THEN "close" ELSE "wait"
      /\ UNCHANGED <<fifoExists, fifoData, writer, unread>>
  BY DEF Fifo!FifoWait
<1>2. /\ fifoLoop \in 0..Nums /\ fifoLoop < Nums
      /\ Cardinality(Unreaped) <= Nums - fifoLoop
      /\ fifoChild \in [Fifo!Readers -> {"none", "read", "zombie", "reaped"}]
  BY <1>0, <1>1 DEF Fifo!FifoTypeOK, ReapTurn
<1>3. fifoLoop' \in 0..Nums /\ fifoLoop' < Nums
  BY <1>1, <1>2, FifoNumbers
<1>4. CASE \A r \in Fifo!Readers : fifoChild[r] \in {"none", "reaped"}
  <2>1. Unreaped = {}
    BY <1>4 DEF Unreaped
  <2>2. fifoChild' = fifoChild
    BY <1>4 DEF Fifo!FifoWait
  <2>3. Unreaped' = {}
    BY <2>1, <2>2 DEF Unreaped
  <2>4. Cardinality(Unreaped') = 0
    BY <2>3, FS_EmptySet
  <2>5. ReapTurn'
    BY <1>1, <1>3, <2>3, <2>4, FifoNumbers DEF ReapTurn
  <2>6. Fifo!FifoTypeOK' /\ Noticed'
    BY <1>0, <1>1, <1>3, <2>2 DEF Fifo!FifoTypeOK, Noticed, Fifo!Reading
  <2> QED
    BY <2>5, <2>6 DEF FifoInv
<1>5. ASSUME NEW r \in Fifo!Readers, fifoChild[r] = "zombie",
             fifoChild' = [fifoChild EXCEPT ![r] = "reaped"]
      PROVE  FifoInv'
  <2>1. Unreaped' = Unreaped \ {r} /\ r \in Unreaped
    BY <1>2, <1>5 DEF Unreaped
  <2>2. Cardinality(Unreaped') = Cardinality(Unreaped) - 1
    BY <2>1, FifoNumbers, FS_RemoveElement
  <2>3. PICK n \in 0..Nums : n = Cardinality(Unreaped)
    BY FifoNumbers
  <2>4. Cardinality(Unreaped') <= Nums - (fifoLoop + 1)
    BY <1>2, <2>2, <2>3, FifoNumbers
  <2>5. ASSUME fifoLoop + 1 = Nums PROVE Unreaped' = {}
    <3>1. IsFiniteSet(Unreaped')
      BY <2>1, FifoNumbers, FS_Subset
    <3>2. Cardinality(Unreaped') \in Nat
      BY <3>1, FS_CardinalityType
    <3>3. Cardinality(Unreaped') = 0
      BY <2>4, <2>5, <3>2, FifoNumbers
    <3> QED
      BY <3>1, <3>3, FS_EmptySet
  <2>6. ReapTurn'
    BY <1>1, <1>3, <2>4, <2>5 DEF ReapTurn
  <2>7. Fifo!Reading' = Fifo!Reading
    BY <1>2, <1>5 DEF Fifo!Reading
  <2>8. Fifo!FifoTypeOK' /\ Noticed'
    BY <1>0, <1>1, <1>3, <1>5, <2>7 DEF Fifo!FifoTypeOK, Noticed
  <2> QED
    BY <2>6, <2>8 DEF FifoInv
<1> QED
  BY <1>4, <1>5 DEF Fifo!FifoWait

LEMMA FifoParentKeeps ==
  ASSUME FifoInv,
         \/ Fifo!Mkfifo \/ Fifo!FifoOpen \/ Fifo!FifoFork \/ Fifo!FifoClose
         \/ Fifo!FifoUnlink
  PROVE  FifoInv'
<1>0. Fifo!FifoTypeOK /\ ReapTurn /\ Noticed
  BY DEF FifoInv
<1>a. /\ fifoLoop \in 0..Nums
      /\ fifoChild \in [Fifo!Readers -> {"none", "read", "zombie", "reaped"}]
  BY <1>0 DEF Fifo!FifoTypeOK
<1>1. CASE Fifo!Mkfifo \/ Fifo!FifoOpen
  <2>1. /\ fifoParent \in {"mkfifo", "open"} /\ fifoParent' \in {"open", "fork"}
        /\ fifoExists' \in BOOLEAN
        /\ UNCHANGED <<fifoLoop, fifoChild, fifoData, writer, unread>>
    BY <1>0, <1>1 DEF Fifo!Mkfifo, Fifo!FifoOpen, Fifo!FifoTypeOK
  <2>2. ReapTurn'
    BY <1>0, <2>1, FifoNumbers DEF ReapTurn
  <2>3. Fifo!FifoTypeOK' /\ Noticed'
    BY <1>0, <2>1 DEF Fifo!FifoTypeOK, Noticed, Fifo!Reading
  <2> QED
    BY <2>2, <2>3 DEF FifoInv
<1>2. CASE Fifo!FifoFork
  <2>1. /\ fifoParent = "fork"
        /\ fifoLoop' = IF fifoLoop + 1 = Nums THEN 0 ELSE fifoLoop + 1
        /\ fifoParent' = IF fifoLoop + 1 = Nums THEN "wait" ELSE "fork"
        /\ UNCHANGED <<fifoExists, fifoData, writer, unread>>
    BY <1>2 DEF Fifo!FifoFork
  <2>2. /\ fifoLoop < Nums /\ fifoLoop + 1 \in Fifo!Readers
        /\ fifoChild[fifoLoop + 1] = "none"
        /\ \A r \in Fifo!Readers : r > fifoLoop => fifoChild[r] = "none"
    BY <1>0, <1>a, <2>1, FifoNumbers DEF ReapTurn
  <2>3. /\ fifoChild' \in [Fifo!Readers -> {"none", "read", "zombie", "reaped"}]
        /\ fifoChild'[fifoLoop + 1] \in {"none", "read"}
        /\ \A r \in Fifo!Readers \ {fifoLoop + 1} : fifoChild'[r] = fifoChild[r]
    <3>1. CASE fifoChild' = fifoChild
      BY <1>a, <2>2, <3>1
    <3>2. CASE fifoChild' = [fifoChild EXCEPT ![fifoLoop + 1] = "read"]
      BY <1>a, <2>2, <3>2
    <3> QED
      BY <1>2, <3>1, <3>2 DEF Fifo!FifoFork
  <2>4. fifoLoop' \in 0..Nums /\ fifoLoop' < Nums
    BY <1>a, <2>1, <2>2, FifoNumbers
  <2>5. Fifo!FifoTypeOK'
    BY <1>0, <2>1, <2>3, <2>4 DEF Fifo!FifoTypeOK
  <2>6. Fifo!Reading' = {} => Fifo!Reading = {}
    BY <2>2, <2>3 DEF Fifo!Reading
  <2>7. Noticed'
    BY <1>0, <2>1, <2>6 DEF Noticed
  <2>8. ASSUME fifoLoop + 1 # Nums
        PROVE  \A r \in Fifo!Readers : r > fifoLoop' => fifoChild'[r] = "none"
    BY <1>a, <2>1, <2>2, <2>3, <2>8, FifoNumbers
  <2>9. ASSUME fifoLoop + 1 = Nums
        PROVE  Cardinality(Unreaped') <= Nums - fifoLoop'
    <3>1. IsFiniteSet(1..Nums) /\ Cardinality(1..Nums) = Nums
      BY FifoNumbers, FS_Interval
    <3>2. Unreaped' \subseteq 1..Nums
      BY FifoNumbers DEF Unreaped
    <3>3. Cardinality(Unreaped') <= Nums
      BY <3>1, <3>2, FS_Subset
    <3> QED
      BY <2>1, <2>9, <3>3, FifoNumbers
  <2>10. ReapTurn'
    BY <2>1, <2>4, <2>8, <2>9 DEF ReapTurn
  <2> QED
    BY <2>5, <2>7, <2>10 DEF FifoInv
<1>3. CASE Fifo!FifoClose \/ Fifo!FifoUnlink
  <2>1. /\ fifoParent \in {"close", "unlink"} /\ fifoParent' \in {"unlink", "exit"}
        /\ fifoData' \in {fifoData, 0} /\ fifoExists' \in BOOLEAN
        /\ UNCHANGED <<fifoLoop, fifoChild, writer, unread>>
    BY <1>0, <1>3 DEF Fifo!FifoClose, Fifo!FifoUnlink, Fifo!FifoTypeOK
  <2>2. Unreaped' = Unreaped /\ Fifo!Reading' = Fifo!Reading
    BY <2>1 DEF Unreaped, Fifo!Reading
  <2>3. ReapTurn'
    BY <1>0, <2>1, <2>2 DEF ReapTurn
  <2>4. Noticed'
    BY <1>0, <2>1, <2>2 DEF Noticed
  <2>5. Fifo!FifoTypeOK'
    BY <1>0, <2>1, FifoNumbers DEF Fifo!FifoTypeOK
  <2> QED
    BY <2>3, <2>4, <2>5 DEF FifoInv
<1> QED
  BY <1>1, <1>2, <1>3

LEMMA FifoOthersKeep ==
  ASSUME FifoInv,
         \/ \E r \in Fifo!Readers : Fifo!FifoChildStep(r)
         \/ Fifo!WriterOpen \/ Fifo!WriterOpened \/ Fifo!WriteLine \/ Fifo!WriterEnd
  PROVE  FifoInv'
<1>0. Fifo!FifoTypeOK /\ ReapTurn /\ Noticed
  BY DEF FifoInv
<1>a. /\ fifoChild \in [Fifo!Readers -> {"none", "read", "zombie", "reaped"}]
      /\ fifoData \in 0..PipeSize
  BY <1>0 DEF Fifo!FifoTypeOK
<1>1. ASSUME NEW r \in Fifo!Readers, Fifo!GetMessage(r) PROVE FifoInv'
  <2>1. /\ fifoChild[r] = "read" /\ fifoData' \in 0..fifoData - 1
        /\ UNCHANGED <<fifoParent, fifoLoop, fifoChild, fifoExists, writer, unread>>
    BY <1>1 DEF Fifo!GetMessage
  <2>2. fifoData' \in 0..PipeSize
    BY <1>a, <2>1, FifoNumbers
  <2>3. r \in Fifo!Reading'
    BY <2>1 DEF Fifo!Reading
  <2> QED
    BY <1>0, <2>1, <2>2, <2>3
    DEF FifoInv, Fifo!FifoTypeOK, ReapTurn, Unreaped, Noticed
<1>2. ASSUME NEW r \in Fifo!Readers, Fifo!MessageEnd(r) PROVE FifoInv'
  <2>1. /\ fifoChild[r] = "read" /\ fifoChild' = [fifoChild EXCEPT ![r] = "zombie"]
        /\ fifoData = 0
        /\ UNCHANGED <<fifoParent, fifoLoop, fifoExists, fifoData, writer, unread>>
    BY <1>2 DEF Fifo!MessageEnd
  <2>2. Unreaped' = Unreaped
    BY <1>a, <2>1 DEF Unreaped
  <2>3. \A q \in Fifo!Readers : fifoChild[q] = "none" => fifoChild'[q] = "none"
    BY <1>a, <2>1
  <2>4. ReapTurn'
    BY <1>0, <2>1, <2>2, <2>3 DEF ReapTurn
  <2>5. Fifo!FifoTypeOK' /\ Noticed'
    BY <1>0, <2>1 DEF Fifo!FifoTypeOK, Noticed
  <2> QED
    BY <2>4, <2>5 DEF FifoInv
<1>3. CASE \/ Fifo!WriterOpen \/ Fifo!WriterOpened \/ Fifo!WriterEnd
  <2>1. /\ writer' \in {"off", "opening", "type"}
        /\ UNCHANGED <<fifoParent, fifoLoop, fifoChild, fifoExists, fifoData, unread>>
    BY <1>3 DEF Fifo!WriterOpen, Fifo!WriterOpened, Fifo!WriterEnd
  <2> QED
    BY <1>0, <2>1
    DEF FifoInv, Fifo!FifoTypeOK, ReapTurn, Unreaped, Noticed, Fifo!Reading
<1>4. CASE Fifo!WriteLine
  <2>1. /\ writer' \in {"off", "type"} /\ fifoData' \in 0..PipeSize
        /\ UNCHANGED <<fifoParent, fifoLoop, fifoChild, fifoExists>>
        /\ \/ unread' = (Fifo!Reading = {})
           \/ UNCHANGED <<fifoData, unread>>
    BY <1>4, <1>a DEF Fifo!WriteLine
  <2>2. unread' \in BOOLEAN
    BY <1>0, <2>1 DEF Fifo!FifoTypeOK
  <2>3. Noticed'
    <3>1. Fifo!Reading' = Fifo!Reading
      BY <2>1 DEF Fifo!Reading
    <3>2. CASE unread' = (Fifo!Reading = {})
      BY <3>1, <3>2, Zenon DEF Noticed
    <3>3. CASE UNCHANGED <<fifoData, unread>>
      BY <1>0, <3>1, <3>3 DEF Noticed
    <3> QED
      BY <2>1, <3>2, <3>3
  <2> QED
    BY <1>0, <2>1, <2>2, <2>3 DEF FifoInv, Fifo!FifoTypeOK, ReapTurn, Unreaped
<1> QED
  BY <1>1, <1>2, <1>3, <1>4 DEF Fifo!FifoChildStep

LEMMA FifoKeeps ==
  ASSUME FifoInv, [Fifo!FifoNext]_fifoVars
  PROVE  FifoInv'
<1>1. CASE UNCHANGED fifoVars
  BY <1>1 DEF fifoVars, FifoInv, Fifo!FifoTypeOK, ReapTurn, Unreaped, Noticed,
              Fifo!Reading
<1> QED
  BY <1>1, FifoWaitKeeps, FifoParentKeeps, FifoOthersKeep
  DEF Fifo!FifoNext, Fifo!FifoParentStep

LEMMA LinesAreRead == FifoInv => Fifo!LinesRead
BY DEF FifoInv, ReapTurn, Unreaped, Noticed, Fifo!LinesRead, Fifo!Reading

----------------------------------------------------------------------------
(* Tickets *)

Holding == {"check", "print", "drop", "sold", "empty"}
Dropping == \E t \in Sale!Sellers : seller[t] = "drop"

\* Threads that main has not created yet have done nothing, and main goes on
\* when those it waits for have ended.
SaleTurn ==
  /\ saleMain = "init" => saleLoop = 0 /\ \A t \in Sale!Sellers : seller[t] = "none"
  /\ saleMain = "create" =>
       /\ saleLoop < THREAD_NUM
       /\ \A t \in Sale!Sellers : t > saleLoop => seller[t] = "none"
  /\ saleMain = "join" =>
       /\ saleLoop < THREAD_NUM
       /\ \A t \in Sale!Sellers : t <= saleLoop => seller[t] = "ended"
  /\ saleMain \in {"destroy", "exit"} => \A t \in Sale!Sellers : seller[t] = "ended"

\* The thread between lock and unlock is the mutex's owner, and what it has
\* seen of the counter is still true.
SaleLocked ==
  \A t \in Sale!Sellers : /\ seller[t] \in Holding <=> mtx = t
                          /\ seller[t] \in {"empty", "ended"} => tickets = 0
                          /\ seller[t] \in {"print", "drop"} => tickets > 0

\* What is printed and what is left make up all the tickets; the one that is
\* printed and not dropped yet counts twice.
SaleCount ==
  /\ ~Dropping => Len(printed) + tickets = InitialTickets
  /\ Dropping => Len(printed) + tickets = InitialTickets + 1
  /\ \A i \in 1..Len(printed) : printed[i] = InitialTickets + 1 - i

SaleInv == Sale!SaleTypeOK /\ SaleTurn /\ SaleLocked /\ SaleCount

LEMMA SaleNumbers == /\ THREAD_NUM \in Nat \ {0} /\ InitialTickets \in Nat
                     /\ \A t \in Sale!Sellers : t \in 1..THREAD_NUM
                     /\ \A i \in 0..THREAD_NUM : i < THREAD_NUM => i + 1 \in Sale!Sellers
                     /\ Sale!NoOwner \notin Sale!Sellers
                     /\ Sale!Destroyed \notin Sale!Sellers
BY ProcessesAssumption DEF Sale!TicketsAssumption, Sale!Sellers, Sale!NoOwner,
                           Sale!Destroyed

LEMMA SaleStarts == Sale!SaleInit => SaleInv
BY SaleNumbers DEF Sale!SaleInit, SaleInv, Sale!SaleTypeOK, SaleTurn, SaleLocked,
                   SaleCount, Dropping, Holding, Sale!NoOwner

\* Steps that touch neither the threads, the mutex nor the counter.
LEMMA MainTurns ==
  ASSUME SaleInv, Sale!SaleMainStep
  PROVE  SaleInv'
<1>0. Sale!SaleTypeOK /\ SaleTurn /\ SaleLocked /\ SaleCount
  BY DEF SaleInv
<1>1. CASE Sale!InitMutex
  <2>1. SaleTurn'
    BY <1>0, <1>1, SaleNumbers DEF Sale!InitMutex, SaleTurn, Sale!SaleTypeOK
  <2>2. Sale!SaleTypeOK' /\ SaleLocked' /\ SaleCount'
    BY <1>0, <1>1 DEF Sale!InitMutex, SaleLocked, SaleCount, Dropping,
                      Sale!SaleTypeOK
  <2> QED
    BY <2>1, <2>2 DEF SaleInv
<1>2. CASE Sale!CreateSeller
  <2>1. /\ saleLoop \in 0..THREAD_NUM /\ saleLoop < THREAD_NUM
        /\ saleLoop + 1 \in Sale!Sellers
        /\ seller[saleLoop + 1] = "none"
    BY <1>0, <1>2, SaleNumbers DEF Sale!CreateSeller, SaleTurn, Sale!SaleTypeOK
  <2>2. /\ seller'[saleLoop + 1] = "lock"
        /\ \A t \in Sale!Sellers \ {saleLoop + 1} : seller'[t] = seller[t]
    BY <1>0, <1>2, <2>1 DEF Sale!CreateSeller, Sale!SaleTypeOK
  <2>3. SaleTurn'
    BY <1>0, <1>2, <2>1, <2>2, SaleNumbers
    DEF Sale!CreateSeller, SaleTurn, Sale!SaleTypeOK, Sale!Turn, Sale!Last
  <2>4. SaleLocked'
    BY <1>0, <1>2, <2>1, <2>2 DEF Sale!CreateSeller, SaleLocked, Holding
  <2>5. Dropping' <=> Dropping
    BY <2>1, <2>2 DEF Dropping
  <2>6. SaleCount'
    BY <1>0, <1>2, <2>5 DEF Sale!CreateSeller, SaleCount
  <2>7. Sale!SaleTypeOK'
    BY <1>0, <1>2, <2>1, SaleNumbers
    DEF Sale!CreateSeller, Sale!SaleTypeOK, Sale!Turn, Sale!Last
  <2> QED
    BY <2>3, <2>4, <2>6, <2>7 DEF SaleInv
<1>3. CASE Sale!JoinSeller
  <2>1. saleLoop \in 0..THREAD_NUM /\ saleLoop < THREAD_NUM
    BY <1>0, <1>3 DEF Sale!JoinSeller, SaleTurn, Sale!SaleTypeOK
  <2>2. SaleTurn'
    BY <1>0, <1>3, <2>1, SaleNumbers
    DEF Sale!JoinSeller, SaleTurn, Sale!Turn, Sale!Last
  <2>3. Sale!SaleTypeOK'
    BY <1>0, <1>3, <2>1, SaleNumbers
    DEF Sale!JoinSeller, Sale!SaleTypeOK, Sale!Turn, Sale!Last
  <2>4. SaleLocked' /\ SaleCount'
    BY <1>0, <1>3 DEF Sale!JoinSeller, SaleLocked, SaleCount, Dropping
  <2> QED
    BY <2>2, <2>3, <2>4 DEF SaleInv
<1>4. CASE Sale!DestroyMutex
  <2>1. SaleTurn' /\ SaleCount'
    BY <1>0, <1>4 DEF Sale!DestroyMutex, SaleTurn, SaleCount, Dropping
  <2>2. SaleLocked'
    BY <1>0, <1>4, SaleNumbers DEF Sale!DestroyMutex, SaleLocked, SaleTurn, Holding
  <2>3. Sale!SaleTypeOK'
    BY <1>0, <1>4, SaleNumbers
    DEF Sale!DestroyMutex, Sale!SaleTypeOK, Sale!Destroyed
  <2> QED
    BY <2>1, <2>2, <2>3 DEF SaleInv
<1> QED
  BY <1>1, <1>2, <1>3, <1>4 DEF Sale!SaleMainStep

\* A thread that is neither "none" nor "ended" leaves main's turn alone, if
\* it ends only when it has ended.
LEMMA TurnKept ==
  ASSUME SaleTurn, NEW t \in Sale!Sellers, seller[t] \notin {"none", "ended"},
         UNCHANGED <<saleMain, saleLoop>>,
         \A u \in Sale!Sellers \ {t} : seller'[u] = seller[u]
  PROVE  SaleTurn'
BY DEF SaleTurn

LEMMA SellerKeeps ==
  ASSUME SaleInv, NEW t \in Sale!Sellers, Sale!SellerStep(t)
  PROVE  SaleInv'
<1>0. Sale!SaleTypeOK /\ SaleTurn /\ SaleLocked /\ SaleCount
  BY DEF SaleInv
<1>a. /\ seller \in [Sale!Sellers -> {"none", "lock", "check", "print", "drop",
                                      "sold", "empty", "ended"}]
      /\ tickets \in 0..InitialTickets /\ printed \in Seq(1..InitialTickets)
      /\ t \in 1..THREAD_NUM
  BY <1>0, SaleNumbers DEF Sale!SaleTypeOK
<1>b. UNCHANGED <<saleMain, saleLoop>> /\ seller[t] \notin {"none", "ended"}
  BY DEF Sale!SellerStep, Sale!LockMutex, Sale!CheckTickets, Sale!PrintTicket,
         Sale!DropTicket, Sale!UnlockMutex
<1>c. \A u \in Sale!Sellers \ {t} : seller'[u] = seller[u]
  BY <1>a DEF Sale!SellerStep, Sale!LockMutex, Sale!CheckTickets,
              Sale!PrintTicket, Sale!DropTicket, Sale!UnlockMutex
<1>d. SaleTurn'
  BY <1>0, <1>b, <1>c, TurnKept
<1>e. seller[t] \in Holding =>
        \A u \in Sale!Sellers \ {t} : seller[u] \notin Holding /\ mtx # u
  BY <1>0 DEF SaleLocked
<1>1. CASE Sale!LockMutex(t)
  <2>1. seller'[t] = "check" /\ mtx' = t /\ seller[t] = "lock" /\ mtx = Sale!NoOwner
    BY <1>1, <1>a DEF Sale!LockMutex
  <2>2. Dropping' <=> Dropping
    BY <1>c, <2>1 DEF Dropping
  <2>3. SaleLocked'
    BY <1>0, <1>1, <1>c, <2>1, SaleNumbers DEF Sale!LockMutex, SaleLocked, Holding
  <2>4. SaleCount'
    BY <1>0, <1>1, <2>2 DEF Sale!LockMutex, SaleCount
  <2>5. Sale!SaleTypeOK'
    BY <1>0, <1>1, <1>a, SaleNumbers DEF Sale!LockMutex, Sale!SaleTypeOK
  <2> QED
    BY <1>d, <2>3, <2>4, <2>5 DEF SaleInv
<1>2. CASE Sale!CheckTickets(t)
  <2>1. /\ seller'[t] = IF tickets > 0 THEN "print" ELSE "empty"
        /\ seller[t] = "check"
    BY <1>2, <1>a DEF Sale!CheckTickets
  <2>2. Dropping' <=> Dropping
    BY <1>c, <2>1 DEF Dropping
  <2>3. SaleLocked'
    BY <1>0, <1>2, <1>a, <1>c, <2>1, SaleNumbers
    DEF Sale!CheckTickets, SaleLocked, Holding
  <2>4. SaleCount'
    BY <1>0, <1>2, <2>2 DEF Sale!CheckTickets, SaleCount
  <2>5. Sale!SaleTypeOK'
    BY <1>0, <1>2, <1>a DEF Sale!CheckTickets, Sale!SaleTypeOK
  <2> QED
    BY <1>d, <2>3, <2>4, <2>5 DEF SaleInv
<1>3. CASE Sale!PrintTicket(t)
  <2>1. /\ seller'[t] = "drop" /\ seller[t] = "print" /\ tickets > 0
        /\ printed' = Append(printed, tickets) /\ UNCHANGED <<mtx, tickets>>
    BY <1>0, <1>3, <1>a DEF Sale!PrintTicket, SaleLocked
  <2>2. Dropping' /\ ~Dropping
    BY <1>c, <1>e, <2>1 DEF Dropping, Holding
  <2>3. SaleLocked'
    BY <1>0, <1>c, <2>1 DEF SaleLocked, Holding
  <2>4. /\ Len(printed') = Len(printed) + 1
        /\ printed'[Len(printed) + 1] = tickets
        /\ \A i \in 1..Len(printed) : printed'[i] = printed[i]
        /\ printed' \in Seq(1..InitialTickets)
        /\ Len(printed) \in Nat
    BY <1>a, <2>1, SaleNumbers
  <2>5. Len(printed) + tickets = InitialTickets
    BY <1>0, <2>2 DEF SaleCount
  <2>6. \A i \in 1..Len(printed') : printed'[i] = InitialTickets + 1 - i
    <3> TAKE i \in 1..Len(printed')
    <3>1. i \in 1..Len(printed) \/ i = Len(printed) + 1
      BY <2>4
    <3>2. CASE i \in 1..Len(printed)
      BY <1>0, <2>4, <3>2 DEF SaleCount
    <3>3. CASE i = Len(printed) + 1
      <4>1. PICK n \in Nat : n = Len(printed)
        BY <2>4
      <4>2. tickets \in Nat /\ n + tickets = InitialTickets
        BY <1>a, <2>5, <4>1
      <4>3. tickets = InitialTickets + 1 - (n + 1)
        BY <4>2
      <4> QED
        BY <2>4, <3>3, <4>1, <4>3
    <3> QED
      BY <3>1, <3>2, <3>3
  <2>7. SaleCount'
    <3>1. PICK n \in Nat : n = Len(printed) /\ Len(printed') = n + 1
      BY <2>4
    <3>2. tickets' = tickets /\ tickets \in Nat /\ n + tickets = InitialTickets
      BY <1>a, <2>1, <2>5, <3>1
    <3>3. Len(printed') + tickets' = InitialTickets + 1
      BY <3>1, <3>2
    <3> QED
      BY <2>2, <2>6, <3>3 DEF SaleCount
  <2>8. Len(printed') <= InitialTickets
    BY <1>a, <2>1, <2>4, <2>5, SaleNumbers
  <2>9. Sale!SaleTypeOK'
    BY <1>0, <1>3, <1>a, <2>4, <2>8 DEF Sale!PrintTicket, Sale!SaleTypeOK
  <2> QED
    BY <1>d, <2>3, <2>7, <2>9 DEF SaleInv
<1>4. CASE Sale!DropTicket(t)
  <2>1. /\ seller'[t] = "sold" /\ seller[t] = "drop" /\ tickets > 0
        /\ tickets' = tickets - 1 /\ UNCHANGED <<mtx, printed>>
    BY <1>0, <1>4, <1>a DEF Sale!DropTicket, SaleLocked
  <2>2. ~Dropping' /\ Dropping
    BY <1>c, <1>e, <2>1 DEF Dropping, Holding
  <2>3. SaleLocked'
    <3>1. \A u \in Sale!Sellers : u # t =>
            seller[u] \notin {"print", "drop", "empty"} /\ seller[u] # "ended"
      BY <1>0, <1>e, <2>1, SaleNumbers DEF SaleLocked, Holding
    <3> QED
      BY <1>0, <1>c, <2>1, <3>1 DEF SaleLocked, Holding
  <2>4. SaleCount'
    BY <1>0, <1>a, <2>1, <2>2, SaleNumbers DEF SaleCount
  <2>5. Sale!SaleTypeOK'
    <3>1. tickets' \in 0..InitialTickets
      BY <1>a, <2>1, SaleNumbers
    <3> QED
      BY <1>0, <1>4, <1>a, <3>1 DEF Sale!DropTicket, Sale!SaleTypeOK
  <2> QED
    BY <1>d, <2>3, <2>4, <2>5 DEF SaleInv
<1>5. CASE Sale!UnlockMutex(t)
  <2>1. /\ seller[t] \in {"sold", "empty"} /\ mtx' = Sale!NoOwner
        /\ seller'[t] = IF seller[t] = "sold" THEN "lock" ELSE "ended"
        /\ UNCHANGED <<tickets, printed>>
    BY <1>5, <1>a DEF Sale!UnlockMutex
  <2>2. Dropping' <=> Dropping
    BY <1>c, <2>1 DEF Dropping
  <2>3. SaleLocked'
    BY <1>0, <1>c, <1>e, <2>1, SaleNumbers DEF SaleLocked, Holding
  <2>4. SaleCount'
    BY <1>0, <2>1, <2>2 DEF SaleCount
  <2>5. Sale!SaleTypeOK'
    BY <1>0, <1>5, <1>a, SaleNumbers
    DEF Sale!UnlockMutex, Sale!SaleTypeOK, Sale!NoOwner
  <2> QED
    BY <1>d, <2>3, <2>4, <2>5 DEF SaleInv
<1> QED
  BY <1>1, <1>2, <1>3, <1>4, <1>5 DEF Sale!SellerStep

LEMMA SaleKeeps ==
  ASSUME SaleInv, [Sale!SaleNext]_saleVars
  PROVE  SaleInv'
<1>1. CASE UNCHANGED saleVars
  BY <1>1 DEF saleVars, SaleInv, Sale!SaleTypeOK, SaleTurn, SaleLocked, SaleCount,
              Dropping
<1> QED
  BY <1>1, MainTurns, SellerKeeps DEF Sale!SaleNext

LEMMA SaleIsRight == SaleInv => Sale!SoldOnce
<1> SUFFICES ASSUME SaleInv PROVE Sale!SoldOnce
  OBVIOUS
<1>1. Sale!SaleTypeOK /\ SaleTurn /\ SaleLocked /\ SaleCount
  BY DEF SaleInv
<1>2. ASSUME saleMain = "exit" PROVE Len(printed) = InitialTickets
  <2>1. \A t \in Sale!Sellers : seller[t] = "ended"
    BY <1>1, <1>2 DEF SaleTurn
  <2>2. ~Dropping
    BY <2>1 DEF Dropping
  <2>3. 1 \in Sale!Sellers
    BY SaleNumbers
  <2>4. tickets = 0
    BY <1>1, <2>1, <2>3 DEF SaleLocked
  <2>5. Len(printed) \in Nat
    BY <1>1 DEF Sale!SaleTypeOK
  <2> QED
    BY <1>1, <2>2, <2>4, <2>5 DEF SaleCount
<1> QED
  BY <1>1, <1>2 DEF Sale!SoldOnce, SaleCount, SaleTurn

----------------------------------------------------------------------------
(* ThreadNames *)

\* The buffer holds the name that main printed last, or is torn while main
\* prints the next.
NameInBuffer ==
  /\ nameMain = "loop" => nameLoop = NameCount
  /\ nameMain # "loop" => nameLoop < NameCount
  /\ nameMain = "printing" => nameBuf = Names!Torn
  /\ nameMain = "create" => nameBuf = nameLoop
  /\ nameMain \in {"print", "loop"} /\ nameLoop > 0 => nameBuf = nameLoop - 1

\* Only threads that were created have a name, or wait for one.
NamedCreated == \A i \in Names!Named : named[i] # Names!None => i < nameLoop

NameInv == Names!NamesTypeOK /\ NameInBuffer /\ NamedCreated /\ Names!NamesFit

LEMMA NameNumbers ==
  /\ NameCount \in Nat \ {0}
  /\ Names!Named = 0..NameCount - 1 /\ NameCount - 1 \in Names!Named
  /\ Names!Torn = NameCount /\ Names!None = NameCount + 1
  /\ Names!Created = NameCount + 2
BY ProcessesAssumption DEF Names!NamesAssumption, Names!Named, Names!Torn,
                           Names!None, Names!Created

LEMMA NamesStart == Names!NamesInit => NameInv
<1> SUFFICES ASSUME Names!NamesInit PROVE NameInv
  OBVIOUS
<1>1. \A i \in Names!Named : named[i] = NameCount + 1
  BY NameNumbers DEF Names!NamesInit
<1>2. Names!NamesTypeOK
  BY NameNumbers DEF Names!NamesInit, Names!NamesTypeOK
<1>3. Names!NamesFit
  BY <1>1, NameNumbers DEF Names!NamesFit
<1> QED
  BY <1>1, <1>2, <1>3, NameNumbers
  DEF Names!NamesInit, NameInv, NameInBuffer, NamedCreated

LEMMA NamesKeep ==
  ASSUME NameInv, [Names!NamesNext]_nameVars
  PROVE  NameInv'
<1>0. Names!NamesTypeOK /\ NameInBuffer /\ NamedCreated /\ Names!NamesFit
  BY DEF NameInv
<1>a. /\ nameLoop \in 0..NameCount /\ nameBuf \in 0..NameCount
      /\ named \in [Names!Named -> 0..NameCount + 2]
  BY <1>0, NameNumbers DEF Names!NamesTypeOK
<1>1. CASE UNCHANGED nameVars
  BY <1>0, <1>1 DEF nameVars, NameInv, Names!NamesTypeOK, NameInBuffer,
                    NamedCreated, Names!NamesFit
<1>2. CASE Names!BeginName
  BY <1>0, <1>2, NameNumbers
  DEF Names!BeginName, NameInv, Names!NamesTypeOK, NameInBuffer, NamedCreated,
      Names!NamesFit
<1>3. CASE Names!EndName
  <2>1. nameLoop \in Names!Named
    BY <1>0, <1>3, <1>a, NameNumbers DEF Names!EndName, NameInBuffer
  <2> QED
    BY <1>0, <1>3, <2>1, NameNumbers
    DEF Names!EndName, NameInv, Names!NamesTypeOK, NameInBuffer, NamedCreated,
        Names!NamesFit
<1>4. CASE Names!CreateNamed
  <2>1. /\ nameLoop \in 0..NameCount - 1 /\ nameLoop' = nameLoop + 1
        /\ nameBuf' = nameLoop
        /\ nameMain' = IF nameLoop' = NameCount THEN "loop" ELSE "print"
    BY <1>0, <1>4, <1>a, NameNumbers DEF Names!CreateNamed, NameInBuffer
  <2>2. \A i \in Names!Named :
          named'[i] = named[i] \/ (i = nameLoop /\ named'[i] = NameCount + 2)
    <3>1. CASE named' = named
      BY <3>1
    <3>2. CASE named' = [named EXCEPT ![nameLoop] = Names!Created]
      BY <1>a, <2>1, <3>2, NameNumbers
    <3> QED
      BY <1>4, <3>1, <3>2 DEF Names!CreateNamed
  <2>3. Names!NamesTypeOK'
    BY <1>0, <1>4, <1>a, <2>1, NameNumbers DEF Names!CreateNamed, Names!NamesTypeOK
  <2>4. NameInBuffer'
    BY <1>a, <2>1, NameNumbers DEF NameInBuffer
  <2>5. NamedCreated'
    BY <1>0, <1>a, <2>1, <2>2, NameNumbers DEF NamedCreated
  <2>6. Names!NamesFit'
    BY <1>0, <2>2, NameNumbers DEF Names!NamesFit
  <2> QED
    BY <2>3, <2>4, <2>5, <2>6 DEF NameInv
<1>5. ASSUME NEW i \in Names!Named, Names!CopyName(i) PROVE NameInv'
  <2>1. /\ named'[i] = nameBuf
        /\ \A j \in Names!Named \ {i} : named'[j] = named[j]
        /\ UNCHANGED <<nameMain, nameLoop, nameBuf>>
        /\ named[i] = NameCount + 2
    BY <1>5, <1>a, NameNumbers DEF Names!CopyName
  <2>2. i \in 0..NameCount - 1 /\ i < nameLoop
    BY <1>0, <1>a, <2>1, NameNumbers DEF NamedCreated
  <2>3. /\ nameBuf \in Names!Named => nameBuf >= i
        /\ nameBuf = NameCount => i # NameCount - 1
    <3>1. CASE nameMain = "printing"
      BY <1>0, <1>a, <2>2, <3>1, NameNumbers DEF NameInBuffer
    <3>2. CASE nameMain = "create"
      BY <1>0, <1>a, <2>2, <3>2, NameNumbers DEF NameInBuffer
    <3>3. CASE nameMain \in {"print", "loop"}
      BY <1>0, <1>a, <2>2, <3>3, NameNumbers DEF NameInBuffer
    <3> QED
      BY <1>0, <3>1, <3>2, <3>3 DEF Names!NamesTypeOK
  <2>4. Names!NamesTypeOK'
    BY <1>0, <1>5 DEF Names!CopyName, Names!NamesTypeOK
  <2>5. NameInBuffer' /\ NamedCreated'
    BY <1>0, <2>1, <2>2 DEF NameInBuffer, NamedCreated
  <2>6. Names!NamesFit'
    BY <1>0, <2>1, <2>3, NameNumbers DEF Names!NamesFit
  <2> QED
    BY <2>4, <2>5, <2>6 DEF NameInv
<1> QED
  BY <1>1, <1>2, <1>3, <1>4, <1>5 DEF Names!NamesNext, nameVars, Names!nameVars

----------------------------------------------------------------------------
(* Shells *)

Entries == DOMAIN NameOf \cup {"g_myval"}
EntryText(entry, text) == IF entry = "g_myval" THEN text ELSE entry
EntryName(entry, text) == NameOf[EntryText(entry, text)]
Read(entries, text) == [i \in 1..Len(entries) |-> EntryText(entries[i], text)]
EnvironNow == Read(environ, gMyval)

Redir(line) == IF program = "redirshell" THEN Sh!CheckRedir(line)
               ELSE [status |-> "NONE", end |-> <<>>, rest |-> line]

\* What the shell has found in the line, until it prompts again.
LineParsed ==
  /\ shellAt \in {"parse", "builtin", "wait"} => cmdLine \in Lines
  /\ shellAt \in {"builtin", "wait"} =>
       /\ sep = Redir(cmdLine).end
       /\ sep # <<>> => redirStatus = Redir(cmdLine).status
       /\ gArgv = Sh!Words(Redir(cmdLine).rest)

\* The name of the text that the pointer points to was exported, if it has one,
\* and a name that never was exported is found as it was inherited.
EnvironKept ==
  /\ environ \in Seq(Entries) /\ gMyval = lastExport
  /\ \A i \in 1..Len(environ) :
       environ[i] = "g_myval" => NameOf[gMyval] \in exported \cup {Sh!Empty}
  /\ \A name \in Sh!Names \ exported :
       Sh!Getenv(EnvironNow, name) = Sh!Getenv(Inherited, name)

\* The first entry of the name that was exported last is the pointer, or there
\* is none if it was taken away.
LastIsFirst ==
  lastExport # Sh!Empty =>
    IF NameOf[gMyval] = Sh!Empty
    THEN \A i \in 1..Len(environ) : EntryName(environ[i], gMyval) # gMyval
    ELSE \E k \in 1..Len(environ) :
           /\ environ[k] = "g_myval"
           /\ \A i \in 1..k - 1 : EntryName(environ[i], gMyval) # NameOf[gMyval]

\* The command that runs has the streams and the environment that it found.
ChildRuns ==
  /\ shellChild.state # "none" <=> shellAt = "wait"
  /\ shellChild.state = "running" =>
       /\ shellChild.in = Sh!Redirected(0, shellChild.opened)
       /\ shellChild.out = Sh!Redirected(1, shellChild.opened)
       /\ sep = <<>> => shellChild.opened = FALSE
       /\ shellChild.file = sep /\ shellChild.environ = EnvironNow

ShellInv == /\ Sh!ShellTypeOK /\ LineParsed /\ ChildRuns
            /\ EnvironKept /\ LastIsFirst

(* A set of numbers that is not empty has a least one.                      *)
LEMMA MinExists ==
  ASSUME NEW S, S \subseteq Nat, S # {}
  PROVE  Sh!Min(S) \in S /\ \A n \in S : Sh!Min(S) <= n
<1> DEFINE Less == OpToRel(<, Nat)
<1>1. IsWellFoundedOn(Less, Nat)
  BY NatLessThanWellFounded, Zenon
<1>2. Less = {pair \in Nat \X Nat : pair[1] < pair[2]}
  BY Zenon DEF OpToRel
<1> HIDE DEF Less
<1>3. PICK m \in S : \A n \in S : ~(<<n, m>> \in Less)
  BY <1>1, WFMin, Zenon
<1>4. \A n \in S : m <= n
  <2> SUFFICES ASSUME NEW n \in S PROVE m <= n
    OBVIOUS
  <2>1. m \in Nat /\ n \in Nat
    OBVIOUS
  <2>2. ~(n < m)
    BY <1>2, <1>3, <2>1
  <2> QED
    BY <2>1, <2>2
<1> QED
  BY <1>4, Zenon DEF Sh!Min

LEMMA MinIs ==
  ASSUME NEW S, S \subseteq Nat, NEW k \in S, \A n \in S : k <= n
  PROVE  Sh!Min(S) = k
<1>1. PICK m : m = Sh!Min(S)
  OBVIOUS
<1>2. m \in S /\ \A n \in S : m <= n
  BY <1>1, MinExists
<1>3. m <= k /\ k <= m /\ m \in Nat /\ k \in Nat
  BY <1>2
<1> QED
  BY <1>1, <1>3

LEMMA ShellNumbers ==
  /\ Inherited \in Seq(DOMAIN NameOf) /\ Len(Inherited) \in Nat
  /\ \A i \in 1..Len(Inherited) : Inherited[i] \in DOMAIN NameOf
  /\ Sh!Empty \in DOMAIN NameOf /\ NameOf[Sh!Empty] = Sh!Empty
  /\ "g_myval" \notin DOMAIN NameOf
  /\ Inherited \in Seq(Entries)
<1>1. /\ Inherited \in Seq(DOMAIN NameOf)
      /\ Sh!Empty \in DOMAIN NameOf /\ NameOf[Sh!Empty] = Sh!Empty
      /\ "g_myval" \notin DOMAIN NameOf
  BY ProcessesAssumption DEF Sh!ShellsAssumption
<1>2. Len(Inherited) \in Nat /\ \A i \in 1..Len(Inherited) :
                                  Inherited[i] \in DOMAIN NameOf
  BY <1>1, LenProperties, ElementOfSeq
<1>3. Inherited \in Seq(Entries)
  BY <1>1 DEF Entries
<1> QED
  BY <1>1, <1>2, <1>3

\* Where an environment has a name first, if at all.
Lacks(env, name) == \A i \in 1..Len(env) : NameOf[env[i]] # name
IsFirst(env, name, k) ==
  k \in 1..Len(env) /\ NameOf[env[k]] = name
    /\ \A i \in 1..k - 1 : NameOf[env[i]] # name

\* Getenv finds what is first of the name.
LEMMA GetenvFirst ==
  ASSUME NEW env, Len(env) \in Nat, NEW name
  PROVE  /\ Lacks(env, name) => Sh!Getenv(env, name) = Sh!Empty
         /\ \A k : IsFirst(env, name, k) => Sh!Getenv(env, name) = env[k]
         /\ Lacks(env, name) \/ \E k : IsFirst(env, name, k)
<1> DEFINE Named == {i \in 1..Len(env) : NameOf[env[i]] = name}
<1>1. Sh!Getenv(env, name) = IF Named = {} THEN Sh!Empty ELSE env[Sh!Min(Named)]
  BY DEF Sh!Getenv
<1>2. Lacks(env, name) <=> Named = {}
  BY DEF Lacks
<1>3. ASSUME NEW k, IsFirst(env, name, k)
      PROVE  k \in Named /\ Sh!Min(Named) = k
  <2>1. Named \subseteq Nat /\ k \in Named
    BY <1>3 DEF IsFirst
  <2>2. \A i \in Named : k <= i
    <3> SUFFICES ASSUME NEW i \in 1..Len(env), ~(k <= i) PROVE NameOf[env[i]] # name
      OBVIOUS
    <3>1. i \in 1..k - 1
      BY <1>3 DEF IsFirst
    <3> QED
      BY <1>3, <3>1 DEF IsFirst
  <2> HIDE DEF Named
  <2> QED
    BY <2>1, <2>2, MinIs
<1>4. ASSUME Named # {} PROVE \E k : IsFirst(env, name, k)
  <2>1. PICK k \in Named : \A i \in Named : k <= i
    <3>1. Named \subseteq Nat
      OBVIOUS
    <3> HIDE DEF Named
    <3> QED
      BY <1>4, <3>1, MinExists
  <2>2. \A i \in 1..k - 1 : i \in 1..Len(env) /\ ~(k <= i)
    OBVIOUS
  <2>3. \A i \in 1..k - 1 : NameOf[env[i]] # name
    BY <2>1, <2>2
  <2> QED
    BY <2>1, <2>3 DEF IsFirst
<1>5. ASSUME NEW k, IsFirst(env, name, k) PROVE Sh!Getenv(env, name) = env[k]
  BY <1>1, <1>3, <1>5
<1> QED
  BY <1>1, <1>2, <1>4, <1>5

\* The k-th element of a set of positions is the one with k at or before it.
Rank(S, i) == Cardinality({j \in S : j <= i})

LEMMA ShellCardinality == \A S : Sh!Cardinality(S) = Cardinality(S)
BY DEF Sh!Cardinality, Cardinality

LEMMA NthFacts ==
  ASSUME NEW n \in Nat, NEW S, S \subseteq 1..n
  PROVE  /\ Cardinality(S) \in Nat
         /\ \A k \in 1..Cardinality(S) : /\ Sh!Nth(S, k) \in S
                                         /\ Rank(S, Sh!Nth(S, k)) = k
         /\ \A i \in S : /\ Rank(S, i) \in 1..Cardinality(S)
                         /\ Sh!Nth(S, Rank(S, i)) = i
         /\ \A i, j \in S : i < j => Rank(S, i) < Rank(S, j)
<1>0. S \subseteq Nat
  OBVIOUS
<1>1. IsFiniteSet(S) /\ Cardinality(S) \in Nat
  <2>1. IsFiniteSet(1..n)
    BY FS_Interval
  <2> QED
    BY <2>1, FS_Subset, FS_CardinalityType
<1>2. ASSUME NEW i \in S
      PROVE  /\ IsFiniteSet({j \in S : j <= i}) /\ Rank(S, i) \in 1..Cardinality(S)
  <2> DEFINE T == {j \in S : j <= i}
  <2>1. T \subseteq S /\ i \in T
    OBVIOUS
  <2> HIDE DEF T
  <2>2. IsFiniteSet(T) /\ Cardinality(T) <= Cardinality(S)
    BY <1>1, <2>1, FS_Subset
  <2>3. Cardinality(T) \in Nat /\ Cardinality(T) # 0
    BY <2>1, <2>2, FS_CardinalityType, FS_EmptySet
  <2>4. Cardinality(T) \in 1..Cardinality(S)
    BY <1>1, <2>2, <2>3
  <2> USE DEF T
  <2> QED
    BY <2>2, <2>4 DEF Rank
<1>3. ASSUME NEW i \in S, NEW j \in S, i < j PROVE Rank(S, i) < Rank(S, j)
  <2> DEFINE T == {k \in S : k <= i}
             U == {k \in S : k <= j}
  <2>1. T \subseteq U /\ T # U
    <3>1. j \in U /\ j \notin T
      BY <1>3
    <3>2. \A k \in S : k <= i => k <= j
      BY <1>0, <1>3
    <3> QED
      BY <3>1, <3>2
  <2>2. IsFiniteSet(U)
    BY <1>2
  <2>3. Cardinality(T) \in Nat /\ Cardinality(U) \in Nat
    BY <1>2, FS_CardinalityType
  <2> HIDE DEF T, U
  <2>4. Cardinality(T) < Cardinality(U)
    BY <2>1, <2>2, <2>3, FS_Subset
  <2> USE DEF T, U
  <2> QED
    BY <2>4 DEF Rank
<1>4. ASSUME NEW i \in S, NEW j \in S, Rank(S, i) = Rank(S, j) PROVE i = j
  <2>1. i \in Nat /\ j \in Nat /\ Rank(S, i) \in Nat /\ Rank(S, j) \in Nat
    <3>1. Rank(S, i) \in 1..Cardinality(S) /\ Rank(S, j) \in 1..Cardinality(S)
      BY <1>2
    <3> QED
      BY <1>0, <1>1, <3>1
  <2>2. ~(i < j) /\ ~(j < i)
    BY <1>3, <1>4, <2>1
  <2> QED
    BY <2>1, <2>2
<1>5. \A k \in 1..Cardinality(S) : \E i \in S : Rank(S, i) = k
  <2> DEFINE f == [i \in S |-> Rank(S, i)]
             R == 1..Cardinality(S)
  <2>1. f \in [S -> R]
    BY <1>2
  <2>2. \A i, j \in S : f[i] = f[j] => i = j
    BY <1>4
  <2>3. IsFiniteSet(R) /\ Cardinality(R) = Cardinality(S)
    BY <1>1, FS_Interval
  <2> HIDE DEF f, R
  <2>4. f \in Injection(S, R)
    BY <2>1, <2>2 DEF Injection, IsInjective
  <2>5. f \in Surjection(S, R)
    BY <2>3, <2>4, FS_Injection
  <2>6. \A k \in R : \E i \in S : f[i] = k
    BY <2>5 DEF Surjection
  <2> USE DEF f, R
  <2> QED
    BY <2>6
<1>6. ASSUME NEW k \in 1..Cardinality(S)
      PROVE  Sh!Nth(S, k) \in S /\ Rank(S, Sh!Nth(S, k)) = k
  <2>1. Sh!Nth(S, k) = CHOOSE i \in S : Rank(S, i) = k
    BY ShellCardinality DEF Sh!Nth, Rank
  <2> QED
    BY <1>5, <2>1
<1>7. ASSUME NEW i \in S PROVE Sh!Nth(S, Rank(S, i)) = i
  BY <1>2, <1>4, <1>6
<1> QED
  BY <1>1, <1>2, <1>3, <1>6, <1>7

\* Entries that agree about a name find the same text for it.
LEMMA GetenvSame ==
  ASSUME NEW a, NEW b, Len(a) \in Nat, Len(b) \in Nat, Len(a) <= Len(b), NEW name,
         \A i \in 1..Len(a) :
           NameOf[a[i]] = name \/ NameOf[b[i]] = name => a[i] = b[i],
         \A i \in Len(a) + 1..Len(b) : NameOf[b[i]] # name
  PROVE  Sh!Getenv(a, name) = Sh!Getenv(b, name)
<1>1. CASE Lacks(a, name)
  <2>1. ASSUME NEW i \in 1..Len(b) PROVE NameOf[b[i]] # name
    <3>1. i \in 1..Len(a) \/ i \in Len(a) + 1..Len(b)
      OBVIOUS
    <3> QED
      BY <1>1, <3>1 DEF Lacks
  <2>2. Lacks(b, name)
    BY <2>1 DEF Lacks
  <2> QED
    BY <1>1, <2>2, GetenvFirst
<1>2. ASSUME NEW k, IsFirst(a, name, k)
      PROVE  Sh!Getenv(a, name) = Sh!Getenv(b, name)
  <2>1. k \in 1..Len(a) /\ k \in 1..Len(b) /\ \A i \in 1..k - 1 : i \in 1..Len(a)
    BY <1>2 DEF IsFirst
  <2>2. a[k] = b[k] /\ IsFirst(b, name, k)
    BY <1>2, <2>1 DEF IsFirst
  <2> QED
    BY <1>2, <2>2, GetenvFirst
<1> QED
  BY <1>1, <1>2, GetenvFirst

LEMMA ReadEntries ==
  ASSUME NEW entries, Len(entries) \in Nat, NEW text
  PROVE  /\ Len(Read(entries, text)) = Len(entries)
         /\ \A i \in 1..Len(entries) :
              Read(entries, text)[i] = EntryText(entries[i], text)
BY DEF Read

\* putenv with "=": the text's entry is the first of its name, and nothing
\* changes for the names that neither the text nor what the pointer held has.
LEMMA SetenvKeeps ==
  ASSUME NEW entries \in Seq(Entries), NEW text \in DOMAIN NameOf,
         NEW new, new = Sh!Setenv(entries, text)
  PROVE  /\ new \in Seq(Entries)
         /\ \E k \in 1..Len(new) :
              /\ new[k] = "g_myval"
              /\ \A i \in 1..k - 1 : EntryName(new[i], text) # NameOf[text]
         /\ \A held, name :
              /\ name # NameOf[text]
              /\ \A i \in 1..Len(entries) :
                   entries[i] = "g_myval" => NameOf[held] # name
              => Sh!Getenv(Read(new, text), name) = Sh!Getenv(Read(entries, held), name)
<1>1. PICK n \in Nat : n = Len(entries)
  BY LenProperties
<1> DEFINE same == {i \in 1..n : EntryName(entries[i], text) = NameOf[text]}
<1>2. new = IF same = {} THEN Append(entries, "g_myval")
            ELSE [entries EXCEPT ![Sh!Min(same)] = "g_myval"]
  BY <1>1 DEF Sh!Setenv, Sh!NameWith, EntryName, EntryText
<1>3. "g_myval" \in Entries
  BY DEF Entries
<1>4. ASSUME NEW m \in Nat, Len(new) = m, n <= m,
             \A i \in 1..n : \/ new[i] = entries[i]
                             \/ new[i] = "g_myval" /\ i \in same,
             \A i \in n + 1..m : new[i] = "g_myval"
      PROVE  \A held, name :
               /\ name # NameOf[text]
               /\ \A i \in 1..n : entries[i] = "g_myval" => NameOf[held] # name
               => Sh!Getenv(Read(new, text), name)
                    = Sh!Getenv(Read(entries, held), name)
  <2> SUFFICES ASSUME NEW held, NEW name, name # NameOf[text],
                      \A i \in 1..n : entries[i] = "g_myval" => NameOf[held] # name
               PROVE  Sh!Getenv(Read(new, text), name)
                        = Sh!Getenv(Read(entries, held), name)
    OBVIOUS
  <2>1. PICK a : a = Read(entries, held)
    OBVIOUS
  <2>2. PICK b : b = Read(new, text)
    OBVIOUS
  <2>3. /\ Len(a) = n /\ \A i \in 1..n : a[i] = EntryText(entries[i], held)
        /\ Len(b) = m /\ \A i \in 1..m : b[i] = EntryText(new[i], text)
    BY <1>1, <1>4, <2>1, <2>2, ReadEntries
  <2>4. ASSUME NEW i \in 1..n, NameOf[a[i]] = name \/ NameOf[b[i]] = name
        PROVE  a[i] = b[i]
    <3>1. a[i] = EntryText(entries[i], held) /\ b[i] = EntryText(new[i], text)
      BY <1>4, <2>3
    <3>2. CASE new[i] = entries[i]
      BY <2>4, <3>1, <3>2 DEF EntryText
    <3>3. CASE new[i] = "g_myval" /\ i \in same
      <4>1. NameOf[b[i]] # name
        BY <3>1, <3>3 DEF EntryText
      <4>2. NameOf[a[i]] # name
        BY <3>1, <3>3 DEF EntryText, EntryName
      <4> QED
        BY <2>4, <4>1, <4>2
    <3> QED
      BY <1>4, <3>2, <3>3
  <2>5. ASSUME NEW i \in n + 1..m PROVE NameOf[b[i]] # name
    <3>1. i \in 1..m
      OBVIOUS
    <3> QED
      BY <1>4, <2>3, <3>1 DEF EntryText
  <2>6. Sh!Getenv(a, name) = Sh!Getenv(b, name)
    <3>1. /\ Len(a) \in Nat /\ Len(b) \in Nat /\ Len(a) <= Len(b)
          /\ \A i \in 1..Len(a) :
               NameOf[a[i]] = name \/ NameOf[b[i]] = name => a[i] = b[i]
          /\ \A i \in Len(a) + 1..Len(b) : NameOf[b[i]] # name
      BY <1>4, <2>3, <2>4, <2>5
    <3> QED
      BY <3>1, GetenvSame
  <2> QED
    BY <2>1, <2>2, <2>6
<1>5. CASE same = {}
  <2>1. /\ new \in Seq(Entries) /\ Len(new) = n + 1
        /\ \A i \in 1..n : new[i] = entries[i]
        /\ new[n + 1] = "g_myval"
    BY <1>1, <1>2, <1>3, <1>5, AppendProperties
  <2>2. \A i \in n + 1..n + 1 : i = n + 1
    OBVIOUS
  <2>3. \A i \in 1..(n + 1) - 1 : i \in 1..n /\ EntryName(new[i], text) # NameOf[text]
    BY <1>5, <2>1
  <2>4. n + 1 \in 1..n + 1
    OBVIOUS
  <2>5. \E k \in 1..n + 1 :
          /\ new[k] = "g_myval"
          /\ \A i \in 1..k - 1 : EntryName(new[i], text) # NameOf[text]
    BY <2>1, <2>3, <2>4
  <2> HIDE DEF same
  <2> QED
    BY <1>1, <1>4, <2>1, <2>2, <2>5
<1>6. CASE same # {}
  <2>1. PICK k \in same : k = Sh!Min(same) /\ \A i \in same : k <= i
    <3>1. same \subseteq Nat
      OBVIOUS
    <3> HIDE DEF same
    <3> QED
      BY <1>6, <3>1, MinExists
  <2>2. new = [entries EXCEPT ![k] = "g_myval"]
    BY <1>2, <1>6, <2>1
  <2>3. k \in 1..n
    OBVIOUS
  <2>4. /\ new \in Seq(Entries) /\ Len(new) = n
        /\ \A i \in 1..n : new[i] = IF i = k THEN "g_myval" ELSE entries[i]
    BY <1>1, <1>3, <2>2, <2>3, ExceptSeq
  <2>5. \A i \in 1..k - 1 : i \in 1..n /\ i # k /\ i \notin same
    BY <2>1, <2>3
  <2>6. \A i \in 1..k - 1 : EntryName(new[i], text) # NameOf[text]
    BY <2>4, <2>5
  <2>7. \A i \in 1..n : new[i] = entries[i] \/ (new[i] = "g_myval" /\ i \in same)
    BY <2>1, <2>4
  <2>8. n + 1..n = {}
    OBVIOUS
  <2> HIDE DEF same
  <2> QED
    BY <1>1, <1>4, <2>3, <2>4, <2>6, <2>7, <2>8
<1> QED
  BY <1>5, <1>6

\* putenv without "=": no entry of the name is left, and nothing changes for
\* the names that neither this is nor what the pointer held has.
LEMMA UnsetenvKeeps ==
  ASSUME NEW entries \in Seq(Entries), NEW text \in DOMAIN NameOf \ {Sh!Empty},
         NameOf[text] = Sh!Empty,
         NEW new, new = Sh!Unsetenv(entries, text)
  PROVE  /\ new \in Seq(Entries)
         /\ \A i \in 1..Len(new) : EntryName(new[i], text) # text
         /\ \A held, name :
              /\ name \notin {text, Sh!Empty}
              /\ \A i \in 1..Len(entries) :
                   entries[i] = "g_myval" => NameOf[held] # name
              => Sh!Getenv(Read(new, text), name) = Sh!Getenv(Read(entries, held), name)
<1>1. PICK n \in Nat : n = Len(entries)
  BY LenProperties
<1> DEFINE kept == {i \in 1..n : EntryName(entries[i], text) # text}
<1>2. PICK S : S = kept
  OBVIOUS
<1>3. S \subseteq 1..n
  BY <1>2
<1>4. PICK m \in Nat : m = Cardinality(S)
  BY <1>3, NthFacts
<1>5. new = [k \in 1..m |-> entries[Sh!Nth(S, k)]]
  BY <1>1, <1>2, <1>4, ShellCardinality
  DEF Sh!Unsetenv, Sh!NameWith, EntryName, EntryText
<1>6. \A k \in 1..m : /\ Sh!Nth(S, k) \in S /\ Rank(S, Sh!Nth(S, k)) = k
                      /\ new[k] = entries[Sh!Nth(S, k)]
  BY <1>3, <1>4, <1>5, NthFacts
<1>7. \A i \in 1..n : entries[i] \in Entries
  BY <1>1, ElementOfSeq
<1>8. new \in Seq(Entries) /\ Len(new) = m
  <2>1. new \in [1..m -> Entries]
    BY <1>3, <1>5, <1>6, <1>7
  <2> QED
    BY <2>1
<1>9. \A k \in 1..m : EntryName(new[k], text) # text
  BY <1>2, <1>6
<1>10. ASSUME NEW held, NEW name, name \notin {text, Sh!Empty},
              \A i \in 1..n : entries[i] = "g_myval" => NameOf[held] # name
       PROVE  Sh!Getenv(Read(new, text), name) = Sh!Getenv(Read(entries, held), name)
  <2>1. PICK a : a = Read(entries, held)
    OBVIOUS
  <2>2. PICK b : b = Read(new, text)
    OBVIOUS
  <2>3. /\ Len(a) = n /\ \A i \in 1..n : a[i] = EntryText(entries[i], held)
        /\ Len(b) = m /\ \A k \in 1..m : b[k] = EntryText(new[k], text)
    BY <1>1, <1>8, <2>1, <2>2, ReadEntries
  <2>4. ASSUME NEW k \in 1..m
        PROVE  /\ NameOf[b[k]] = name <=> NameOf[a[Sh!Nth(S, k)]] = name
               /\ NameOf[b[k]] = name => b[k] = a[Sh!Nth(S, k)]
    <3>1. PICK i \in 1..n : i = Sh!Nth(S, k) /\ new[k] = entries[i]
      BY <1>3, <1>6
    <3>2. a[i] = EntryText(entries[i], held) /\ b[k] = EntryText(entries[i], text)
      BY <2>3, <3>1
    <3>3. CASE entries[i] = "g_myval"
      BY <1>10, <3>1, <3>2, <3>3 DEF EntryText
    <3>4. CASE entries[i] # "g_myval"
      BY <3>1, <3>2, <3>4 DEF EntryText
    <3> QED
      BY <3>3, <3>4
  <2>5. CASE Lacks(a, name)
    <3>1. ASSUME NEW k \in 1..m PROVE NameOf[b[k]] # name
      <4>1. Sh!Nth(S, k) \in 1..n
        BY <1>3, <1>6
      <4> QED
        BY <2>3, <2>4, <2>5, <4>1 DEF Lacks
    <3>2. Lacks(b, name)
      BY <2>3, <3>1 DEF Lacks
    <3> QED
      BY <2>1, <2>2, <2>3, <2>5, <3>2, GetenvFirst
  <2>6. ASSUME NEW i, IsFirst(a, name, i)
        PROVE  Sh!Getenv(b, name) = Sh!Getenv(a, name)
    <3>0. i \in 1..n /\ NameOf[a[i]] = name /\ \A j \in 1..i - 1 : NameOf[a[j]] # name
      BY <2>3, <2>6 DEF IsFirst
    <3>1. i \in S
      <4>1. entries[i] # "g_myval"
        BY <1>10, <2>3, <3>0 DEF EntryText
      <4>2. EntryName(entries[i], text) = name
        BY <2>3, <3>0, <4>1 DEF EntryText, EntryName
      <4> QED
        BY <1>2, <1>10, <3>0, <4>2
    <3>2. PICK k \in 1..m : k = Rank(S, i) /\ Sh!Nth(S, k) = i
      BY <1>3, <1>4, <3>1, NthFacts
    <3>3. NameOf[b[k]] = name /\ b[k] = a[i]
      BY <2>4, <3>0, <3>2
    <3>4. ASSUME NEW l \in 1..k - 1 PROVE NameOf[b[l]] # name
      <4>1. l \in 1..m /\ l < k
        BY <3>2
      <4>2. PICK j \in S : j = Sh!Nth(S, l) /\ Rank(S, j) = l
        BY <1>6, <4>1
      <4>3. j \in 1..n /\ i \in 1..n
        BY <1>3, <3>1
      <4>4. ASSUME i < j PROVE FALSE
        <5>1. Rank(S, i) < Rank(S, j)
          BY <1>3, <3>1, <4>4, NthFacts
        <5> QED
          BY <3>2, <4>1, <4>2, <5>1
      <4>5. i # j
        BY <3>2, <4>1, <4>2
      <4>6. j \in 1..i - 1
        BY <4>3, <4>4, <4>5
      <4> QED
        BY <2>4, <3>0, <4>1, <4>2, <4>6
    <3>5. IsFirst(b, name, k)
      BY <2>3, <3>3, <3>4 DEF IsFirst
    <3> QED
      BY <2>3, <2>6, <3>3, <3>5, GetenvFirst
  <2> QED
    BY <2>1, <2>2, <2>3, <2>5, <2>6, GetenvFirst
<1> QED
  BY <1>1, <1>8, <1>9, <1>10

\* What CheckRedir can say.
LEMMA RedirSays ==
  ASSUME NEW line
  PROVE  /\ Redir(line).end = <<>> \/ \E rest : Redir(line).end = <<rest>>
         /\ Redir(line).status \in {"NONE", "INPUT", "OUTPUT", "APPEND"}
         /\ Redir(line).rest \in {line, Sh!CheckRedir(line).rest}
BY DEF Redir, Sh!CheckRedir

LEMMA ShellStarts == Sh!ShellInit => ShellInv
<1> SUFFICES ASSUME Sh!ShellInit PROVE ShellInv
  OBVIOUS
<1>1. Sh!ShellTypeOK
  BY ShellNumbers DEF Sh!ShellInit, Sh!ShellTypeOK, Sh!NoChild
<1>2. EnvironKept
  <2>1. /\ Len(EnvironNow) = Len(Inherited)
        /\ \A i \in 1..Len(Inherited) : EnvironNow[i] = Inherited[i]
    BY ShellNumbers, ReadEntries DEF Sh!ShellInit, EnvironNow, EntryText
  <2>2. Len(Inherited) + 1..Len(Inherited) = {} /\ Len(Inherited) <= Len(Inherited)
    BY ShellNumbers
  <2>3. \A name : Sh!Getenv(EnvironNow, name) = Sh!Getenv(Inherited, name)
    <3>1. PICK a : a = EnvironNow
      OBVIOUS
    <3> QED
      BY <2>1, <2>2, <3>1, ShellNumbers, GetenvSame
  <2> QED
    BY <2>3, ShellNumbers DEF Sh!ShellInit, EnvironKept
<1>3. LineParsed /\ ChildRuns /\ LastIsFirst
  BY DEF Sh!ShellInit, LineParsed, ChildRuns, LastIsFirst, Sh!NoChild
<1> QED
  BY <1>1, <1>2, <1>3 DEF ShellInv

LEMMA EnvironSame ==
  ASSUME EnvironKept, LastIsFirst, UNCHANGED Sh!envVars
  PROVE  EnvironKept' /\ LastIsFirst' /\ EnvironNow' = EnvironNow
<1>1. UNCHANGED <<gMyval, environ, lastExport, exported>>
  BY DEF Sh!envVars
<1> QED
  BY <1>1 DEF EnvironKept, LastIsFirst, EnvironNow

\* The steps of the shell that leave the environment alone.
LEMMA ShellMoves ==
  ASSUME ShellInv, UNCHANGED program,
         \/ Sh!Prompt \/ Sh!ReadCommand \/ Sh!ReadNothing \/ Sh!Parse \/ Sh!Cd
         \/ Sh!Fork \/ Sh!WaitCommand
  PROVE  ShellInv'
<1>0. Sh!ShellTypeOK /\ LineParsed /\ ChildRuns /\ EnvironKept /\ LastIsFirst
  BY DEF ShellInv
<1>a. UNCHANGED Sh!envVars
  BY DEF Sh!Prompt, Sh!ReadCommand, Sh!ReadNothing, Sh!Parse, Sh!Cd, Sh!Fork,
         Sh!WaitCommand
<1>b. EnvironKept' /\ LastIsFirst' /\ EnvironNow' = EnvironNow
  BY <1>0, <1>a, EnvironSame
<1>c. ASSUME NEW line PROVE Redir(line)' = Redir(line)
  BY DEF Redir
<1>1. CASE Sh!Prompt \/ Sh!ReadNothing
  <2>1. /\ shellAt \in {"prompt", "read"} /\ shellAt' \in {"read", "prompt"}
        /\ cmdLine' \in {cmdLine, <<>>}
        /\ UNCHANGED <<gArgv, redirStatus, sep, shellChild>>
    BY <1>1 DEF Sh!Prompt, Sh!ReadNothing
  <2>2. Sh!ShellTypeOK'
    BY <1>0, <1>a, <2>1 DEF Sh!ShellTypeOK, Sh!envVars
  <2>3. LineParsed' /\ ChildRuns'
    BY <1>0, <2>1 DEF LineParsed, ChildRuns
  <2> QED
    BY <1>b, <2>2, <2>3 DEF ShellInv
<1>2. CASE Sh!ReadCommand
  <2>1. /\ shellAt = "read" /\ shellAt' = "parse" /\ cmdLine' \in Lines
        /\ UNCHANGED <<gArgv, redirStatus, sep, shellChild>>
    BY <1>2 DEF Sh!ReadCommand
  <2>2. Sh!ShellTypeOK'
    BY <1>0, <1>a, <2>1 DEF Sh!ShellTypeOK, Sh!envVars
  <2>3. LineParsed' /\ ChildRuns'
    BY <1>0, <2>1 DEF LineParsed, ChildRuns
  <2> QED
    BY <1>b, <2>2, <2>3 DEF ShellInv
<1>3. CASE Sh!Parse
  <2>1. /\ shellAt = "parse" /\ shellAt' \in {"crashed", "builtin"}
        /\ redirStatus' = IF Redir(cmdLine).end = <<>> THEN redirStatus
                          ELSE Redir(cmdLine).status
        /\ sep' = Redir(cmdLine).end
        /\ gArgv' = Sh!Words(Redir(cmdLine).rest)
        /\ UNCHANGED <<cmdLine, shellChild>>
    BY <1>3 DEF Sh!Parse, Redir
  <2>2. Sh!ShellTypeOK'
    <3>1. /\ redirStatus' \in {"NONE", "INPUT", "OUTPUT", "APPEND"}
          /\ sep' = <<>> \/ \E rest : sep' = <<rest>>
      BY <1>0, <2>1, RedirSays DEF Sh!ShellTypeOK
    <3>2. Len(sep') <= 1
      <4>1. CASE sep' = <<>>
        BY <4>1
      <4>2. ASSUME NEW rest, sep' = <<rest>> PROVE Len(sep') <= 1
        BY <4>2
      <4> QED
        BY <3>1, <4>1, <4>2
    <3> QED
      BY <1>0, <1>a, <2>1, <3>1, <3>2 DEF Sh!ShellTypeOK, Sh!envVars
  <2>3. LineParsed'
    BY <1>0, <1>c, <2>1 DEF LineParsed
  <2>4. ChildRuns'
    BY <1>0, <2>1 DEF ChildRuns
  <2> QED
    BY <1>b, <2>2, <2>3, <2>4 DEF ShellInv
<1>4. CASE Sh!Cd
  <2>1. /\ shellAt = "builtin" /\ shellAt' = "prompt"
        /\ UNCHANGED <<cmdLine, gArgv, redirStatus, sep, shellChild>>
    BY <1>4 DEF Sh!Cd
  <2>2. Sh!ShellTypeOK'
    BY <1>0, <1>a, <2>1 DEF Sh!ShellTypeOK, Sh!envVars
  <2>3. LineParsed' /\ ChildRuns'
    BY <1>0, <2>1 DEF LineParsed, ChildRuns
  <2> QED
    BY <1>b, <2>2, <2>3 DEF ShellInv
<1>5. CASE Sh!Fork
  <2>1. /\ shellAt = "builtin"
        /\ \/ shellChild' = [state |-> "forked"] /\ shellAt' = "wait"
           \/ UNCHANGED shellChild /\ shellAt' = "prompt"
        /\ UNCHANGED <<cmdLine, gArgv, redirStatus, sep>>
    BY <1>5 DEF Sh!Fork
  <2>2. /\ shellAt' \in {"wait", "prompt"}
        /\ shellChild'.state \in {"none", "forked", "running", "zombie"}
        /\ shellChild'.state # "none" <=> shellAt' = "wait"
        /\ shellChild'.state # "running"
    BY <1>0, <2>1 DEF Sh!ShellTypeOK, ChildRuns
  <2>3. Sh!ShellTypeOK'
    BY <1>0, <1>a, <2>1, <2>2 DEF Sh!ShellTypeOK, Sh!envVars
  <2>4. LineParsed'
    BY <1>0, <1>c, <2>1, <2>2 DEF LineParsed
  <2>5. ChildRuns'
    BY <2>2 DEF ChildRuns
  <2> QED
    BY <1>b, <2>3, <2>4, <2>5 DEF ShellInv
<1>6. CASE Sh!WaitCommand
  <2>1. /\ shellAt' = "prompt" /\ shellChild' = [state |-> "none"]
        /\ UNCHANGED <<cmdLine, gArgv, redirStatus, sep>>
    BY <1>6 DEF Sh!WaitCommand, Sh!NoChild
  <2>2. Sh!ShellTypeOK'
    BY <1>0, <1>a, <2>1 DEF Sh!ShellTypeOK, Sh!envVars
  <2>3. LineParsed' /\ ChildRuns'
    BY <2>1 DEF LineParsed, ChildRuns
  <2> QED
    BY <1>b, <2>2, <2>3 DEF ShellInv
<1> QED
  BY <1>1, <1>2, <1>3, <1>4, <1>5, <1>6

\* The child finds its streams and its environment, and ends.
LEMMA ShellChildMoves ==
  ASSUME ShellInv, Sh!ShellChildStep, UNCHANGED program
  PROVE  ShellInv'
<1>0. Sh!ShellTypeOK /\ LineParsed /\ ChildRuns /\ EnvironKept /\ LastIsFirst
  BY DEF ShellInv
<1>a. /\ UNCHANGED Sh!envVars
      /\ UNCHANGED <<shellAt, cmdLine, gArgv, redirStatus, sep>>
  BY DEF Sh!ShellChildStep, Sh!ChildExec, Sh!ChildExit
<1>b. EnvironKept' /\ LastIsFirst' /\ EnvironNow' = EnvironNow
  BY <1>0, <1>a, EnvironSame
<1>c. ASSUME NEW stream, NEW opened
      PROVE  Sh!Redirected(stream, opened)' = Sh!Redirected(stream, opened)
  BY <1>a DEF Sh!Redirected
<1>d. ASSUME NEW line PROVE Redir(line)' = Redir(line)
  BY DEF Redir
<1>1. LineParsed'
  BY <1>0, <1>a, <1>d DEF LineParsed
<1>2. /\ shellChild'.state \in {"running", "zombie"} /\ shellAt = "wait"
      /\ shellChild'.state = "running" =>
           \E opened \in IF sep = <<>> THEN {FALSE} ELSE BOOLEAN :
           /\ shellChild'.opened = opened
           /\ shellChild'.in = Sh!Redirected(0, opened)
           /\ shellChild'.out = Sh!Redirected(1, opened)
           /\ shellChild'.file = sep /\ shellChild'.environ = EnvironNow
  <2>1. shellAt = "wait"
    BY <1>0 DEF Sh!ShellChildStep, Sh!ChildExec, Sh!ChildExit, ChildRuns
  <2>2. CASE Sh!ChildExec
    <3>1. PICK opened \in IF sep = <<>> THEN {FALSE} ELSE BOOLEAN :
            shellChild' = [state |-> "running", opened |-> opened, file |-> sep,
                           in |-> Sh!Redirected(0, opened),
                           out |-> Sh!Redirected(1, opened), environ |-> EnvironNow]
      BY <2>2 DEF Sh!ChildExec, Sh!Text, EnvironNow, Read, EntryText
    <3> QED
      BY <2>1, <3>1
  <2>3. CASE Sh!ChildExit
    BY <2>1, <2>3 DEF Sh!ChildExit
  <2> QED
    BY <2>2, <2>3 DEF Sh!ShellChildStep
<1>3. ChildRuns'
  <2>1. CASE shellChild'.state = "running"
    <3>1. PICK opened : /\ shellChild'.opened = opened
                        /\ sep = <<>> => opened = FALSE
                        /\ shellChild'.in = Sh!Redirected(0, opened)
                        /\ shellChild'.out = Sh!Redirected(1, opened)
                        /\ shellChild'.file = sep /\ shellChild'.environ = EnvironNow
      BY <1>2, <2>1
    <3>2. /\ Sh!Redirected(0, opened)' = Sh!Redirected(0, opened)
          /\ Sh!Redirected(1, opened)' = Sh!Redirected(1, opened)
      BY <1>c
    <3>3. /\ shellChild'.in = Sh!Redirected(0, shellChild.opened)'
          /\ shellChild'.out = Sh!Redirected(1, shellChild.opened)'
      BY <3>1, <3>2 DEF Sh!Redirected
    <3> QED
      BY <1>a, <1>b, <1>2, <2>1, <3>1, <3>3 DEF ChildRuns
  <2>2. CASE shellChild'.state # "running"
    BY <1>a, <1>2, <2>2 DEF ChildRuns
  <2> QED
    BY <2>1, <2>2
<1>4. Sh!ShellTypeOK'
  BY <1>0, <1>a, <1>2 DEF Sh!ShellTypeOK, Sh!envVars
<1> QED
  BY <1>b, <1>1, <1>3, <1>4 DEF ShellInv

\* An export keeps the invariant.
LEMMA ExportKeeps ==
  ASSUME ShellInv, Sh!Export, UNCHANGED program
  PROVE  ShellInv'
<1>0. Sh!ShellTypeOK /\ LineParsed /\ ChildRuns /\ EnvironKept /\ LastIsFirst
  BY DEF ShellInv
<1>1. /\ shellAt = "builtin" /\ shellAt' = "prompt"
      /\ gArgv[1] = <<"export">> /\ Len(gArgv) > 1
      /\ UNCHANGED <<cmdLine, gArgv, redirStatus, sep, shellChild>>
  BY DEF Sh!Export, Sh!IsExport
<1>2. PICK text \in DOMAIN NameOf \ {Sh!Empty} : gArgv[2] = <<text>>
  <2>1. cmdLine \in Lines /\ gArgv = Sh!Words(Redir(cmdLine).rest)
    BY <1>0, <1>1 DEF LineParsed
  <2>2. PICK rest \in {cmdLine, Sh!CheckRedir(cmdLine).rest} :
          rest = Redir(cmdLine).rest
    BY RedirSays
  <2>3. gArgv[2] \in {<<text>> : text \in DOMAIN NameOf \ {Sh!Empty}}
    BY <1>1, <2>1, <2>2, ProcessesAssumption DEF Sh!ShellsAssumption
  <2> QED
    BY <2>3
<1>3. /\ gMyval' = text /\ lastExport' = text
      /\ exported' = exported \cup {Sh!Subject(text)}
      /\ environ' = Sh!Putenv(environ, text)
  BY <1>2 DEF Sh!Export, Sh!Strcpy
<1>4. environ \in Seq(Entries)
  BY <1>0 DEF EnvironKept
<1>a. PICK old \in Seq(Entries) : old = environ
  BY <1>4
<1>b. PICK new : new = environ'
  OBVIOUS
<1>5. /\ new \in Seq(Entries)
      /\ IF NameOf[text] = Sh!Empty
         THEN \A i \in 1..Len(new) : EntryName(new[i], text) # text
         ELSE \E k \in 1..Len(new) :
                /\ new[k] = "g_myval"
                /\ \A i \in 1..k - 1 : EntryName(new[i], text) # NameOf[text]
      /\ \A name \in Sh!Names \ exported' :
           Sh!Getenv(Read(new, text), name) = Sh!Getenv(Read(old, gMyval), name)
  <2>0. ASSUME NEW name \in Sh!Names \ exported'
        PROVE  /\ name \notin {Sh!Empty, Sh!Subject(text)}
               /\ \A i \in 1..Len(old) :
                    old[i] = "g_myval" => NameOf[gMyval] # name
    BY <1>0, <1>3, <1>a DEF EnvironKept, Sh!Names
  <2>1. CASE NameOf[text] = Sh!Empty
    <3>1. new = Sh!Unsetenv(old, text) /\ Sh!Subject(text) = text
      BY <1>3, <1>a, <1>b, <2>1 DEF Sh!Putenv, Sh!Subject
    <3> QED
      BY <2>0, <2>1, <3>1, UnsetenvKeeps
  <2>2. CASE NameOf[text] # Sh!Empty
    <3>1. new = Sh!Setenv(old, text) /\ Sh!Subject(text) = NameOf[text]
      BY <1>3, <1>a, <1>b, <2>2 DEF Sh!Putenv, Sh!Subject
    <3>2. /\ new \in Seq(Entries)
          /\ \E k \in 1..Len(new) :
               /\ new[k] = "g_myval"
               /\ \A i \in 1..k - 1 : EntryName(new[i], text) # NameOf[text]
      BY <3>1, SetenvKeeps
    <3>3. ASSUME NEW name \in Sh!Names \ exported'
          PROVE  Sh!Getenv(Read(new, text), name) = Sh!Getenv(Read(old, gMyval), name)
      BY <2>0, <3>1, SetenvKeeps
    <3> QED
      BY <2>2, <3>2, <3>3
  <2> QED
    BY <2>1, <2>2
<1>6. EnvironKept'
  <2>1. NameOf[text] \in exported' \cup {Sh!Empty}
    BY <1>3 DEF Sh!Subject
  <2>2. Sh!Names' = Sh!Names /\ exported \subseteq exported'
    BY <1>3 DEF Sh!Names
  <2>3. ASSUME NEW name \in Sh!Names \ exported'
        PROVE  Sh!Getenv(Read(environ', text), name) = Sh!Getenv(Inherited, name)
    BY <1>0, <1>5, <1>a, <1>b, <2>2, <2>3 DEF EnvironKept, EnvironNow
  <2>4. EnvironNow' = Read(environ', text)
    BY <1>3 DEF EnvironNow
  <2> QED
    BY <1>3, <1>5, <1>b, <2>1, <2>2, <2>3, <2>4 DEF EnvironKept
<1>7. LastIsFirst'
  BY <1>3, <1>5, <1>b DEF LastIsFirst
<1>8. Sh!ShellTypeOK'
  <2>1. \A i \in 1..Len(environ') : environ'[i] \in DOMAIN NameOf \cup {"g_myval"}
    BY <1>5, <1>b, ElementOfSeq DEF Entries
  <2>2. exported' \subseteq Sh!Names \cup DOMAIN NameOf
    BY <1>0, <1>3 DEF Sh!ShellTypeOK, Sh!Subject, Sh!Names
  <2> QED
    BY <1>0, <1>1, <1>3, <2>1, <2>2 DEF Sh!ShellTypeOK
<1>9. LineParsed' /\ ChildRuns'
  BY <1>0, <1>1 DEF LineParsed, ChildRuns
<1> QED
  BY <1>6, <1>7, <1>8, <1>9 DEF ShellInv

LEMMA ShellKeeps ==
  ASSUME ShellInv, [Sh!ShellNext]_shellVars, UNCHANGED program
  PROVE  ShellInv'
<1>1. CASE UNCHANGED shellVars
  <2>1. UNCHANGED Sh!envVars /\ UNCHANGED <<shellAt, cmdLine, gArgv, redirStatus,
                                            sep, shellChild>>
    BY <1>1 DEF shellVars, Sh!envVars
  <2>2. Sh!ShellTypeOK'
    BY <2>1 DEF ShellInv, Sh!ShellTypeOK, Sh!envVars
  <2>3. EnvironKept' /\ LastIsFirst' /\ EnvironNow' = EnvironNow
    BY <2>1, EnvironSame DEF ShellInv
  <2>4. LineParsed'
    BY <2>1 DEF ShellInv, LineParsed, Redir
  <2>5. ChildRuns'
    BY <2>1, <2>3 DEF ShellInv, ChildRuns, Sh!Redirected
  <2> QED
    BY <2>2, <2>3, <2>4, <2>5 DEF ShellInv
<1> QED
  BY <1>1, ShellMoves, ShellChildMoves, ExportKeeps DEF Sh!ShellNext, Sh!ShellStep

\* The environment that a command has.
LEMMA ExportIsSeen == EnvironKept /\ LastIsFirst => Sh!ExportSeen(EnvironNow)
<1> SUFFICES ASSUME EnvironKept, LastIsFirst PROVE Sh!ExportSeen(EnvironNow)
  OBVIOUS
<1>1. PICK n \in Nat : n = Len(environ)
  BY LenProperties DEF EnvironKept
<1>2. PICK env : env = EnvironNow
  OBVIOUS
<1>3. gMyval = lastExport
  BY DEF EnvironKept
<1>4. Len(env) = n /\ \A i \in 1..n : env[i] = EntryText(environ[i], gMyval)
  BY <1>1, <1>2, ReadEntries DEF EnvironNow
<1>5. ASSUME lastExport # Sh!Empty, NameOf[gMyval] = Sh!Empty
      PROVE  Sh!Getenv(env, gMyval) = Sh!Empty
  <2>1. Lacks(env, gMyval)
    BY <1>1, <1>4, <1>5 DEF LastIsFirst, Lacks, EntryName
  <2> QED
    BY <1>4, <2>1, GetenvFirst
<1>6. ASSUME lastExport # Sh!Empty, NameOf[gMyval] # Sh!Empty
      PROVE  Sh!Getenv(env, NameOf[gMyval]) = gMyval
  <2>1. PICK k \in 1..n :
          /\ environ[k] = "g_myval"
          /\ \A i \in 1..k - 1 : EntryName(environ[i], gMyval) # NameOf[gMyval]
    BY <1>1, <1>6 DEF LastIsFirst
  <2>2. env[k] = gMyval
    BY <1>4, <2>1 DEF EntryText
  <2>3. \A i \in 1..k - 1 : i \in 1..n
    OBVIOUS
  <2>4. IsFirst(env, NameOf[gMyval], k)
    BY <1>4, <2>1, <2>2, <2>3 DEF IsFirst, EntryName
  <2> QED
    BY <1>4, <2>2, <2>4, GetenvFirst
<1> QED
  BY <1>2, <1>3, <1>5, <1>6 DEF Sh!ExportSeen, Sh!Subject, EnvironKept

LEMMA CommandIsRight == ShellInv => Sh!RunsWithLatest
<1> SUFFICES ASSUME ShellInv, shellChild.state = "running"
             PROVE  /\ Sh!ExportSeen(shellChild.environ)
                    /\ Sh!RedirectedAsTyped(shellChild)
  BY DEF Sh!RunsWithLatest
<1>1. /\ shellAt = "wait" /\ shellChild.environ = EnvironNow
      /\ shellChild.in = Sh!Redirected(0, shellChild.opened)
      /\ shellChild.out = Sh!Redirected(1, shellChild.opened)
      /\ sep = <<>> => shellChild.opened = FALSE
      /\ shellChild.file = sep
  BY DEF ShellInv, ChildRuns
<1>2. /\ sep = Redir(cmdLine).end
      /\ sep # <<>> => redirStatus = Redir(cmdLine).status
      /\ gArgv = Sh!Words(Redir(cmdLine).rest)
  BY <1>1 DEF ShellInv, LineParsed
<1>3. Sh!ExportSeen(shellChild.environ)
  BY <1>1, ExportIsSeen DEF ShellInv
<1>4. CASE program # "redirshell" \/ Sh!OperatorsOf(cmdLine) = {}
  <2>1. sep = <<>> /\ gArgv = Sh!Words(cmdLine)
    BY <1>2, <1>4 DEF Redir, Sh!CheckRedir
  <2>2. shellChild.in = "terminal" /\ shellChild.out = "terminal"
    BY <1>1, <2>1 DEF Sh!Redirected
  <2> QED
    BY <1>3, <1>4, <2>1, <2>2 DEF Sh!RedirectedAsTyped
<1>5. CASE program = "redirshell" /\ Sh!OperatorsOf(cmdLine) # {}
  <2>1. PICK last : last = Sh!Max(Sh!OperatorsOf(cmdLine))
    OBVIOUS
  <2>2. PICK says : says = IF cmdLine[last] = "<" THEN "INPUT"
                           ELSE IF Sh!Doubled(cmdLine, last) THEN "APPEND"
                           ELSE "OUTPUT"
    OBVIOUS
  <2>3. PICK before :
          before = SubSeq(cmdLine, 1, last - (IF says = "APPEND" THEN 2 ELSE 1))
    OBVIOUS
  <2>4. says = "APPEND" <=> Sh!Doubled(cmdLine, last)
    BY <2>2 DEF Sh!Doubled
  <2>5. /\ Redir(cmdLine).end = <<SubSeq(cmdLine, last + 1, Len(cmdLine))>>
        /\ Redir(cmdLine).status = says /\ Redir(cmdLine).rest = before
    BY <1>5, <2>1, <2>2, <2>3, <2>4 DEF Redir, Sh!CheckRedir
  <2>6. /\ sep = <<SubSeq(cmdLine, last + 1, Len(cmdLine))>>
        /\ gArgv = Sh!Words(before)
    BY <1>2, <2>5
  <2>7. sep # <<>>
    BY <2>6
  <2>8. redirStatus = says
    BY <1>2, <2>5, <2>7
  <2>9. /\ shellChild.in = IF shellChild.opened /\ says = "INPUT" THEN says
                           ELSE "terminal"
        /\ shellChild.out = IF shellChild.opened /\ says # "INPUT" THEN says
                            ELSE "terminal"
    BY <1>1, <2>2, <2>8 DEF Sh!Redirected
  <2> QED
    BY <1>1, <1>3, <1>5, <2>1, <2>2, <2>3, <2>6, <2>9 DEF Sh!RedirectedAsTyped
<1> QED
  BY <1>4, <1>5

----------------------------------------------------------------------------
(* Exercises *)

LEMMA ExerciseKeeps ==
  ASSUME Ex!ExerciseTypeOK, [Ex!ExerciseNext]_exerciseVars
  PROVE  Ex!ExerciseTypeOK'
<1>0. /\ pipeBytes \in 0..PipeBytes /\ PipeBytes \in Nat
      /\ readEnd \in BOOLEAN /\ handled \in BOOLEAN /\ pending \in BOOLEAN
  BY ProcessesAssumption DEF Ex!ExerciseTypeOK, Ex!ExercisesAssumption
<1>1. pipeBytes' \in 0..PipeBytes
  <2>1. CASE Ex!WriteByte
    BY <1>0, <2>1 DEF Ex!WriteByte
  <2>2. CASE UNCHANGED pipeBytes
    BY <1>0, <2>2
  <2> QED
    BY <2>1, <2>2
    DEF exerciseVars, Ex!ExerciseNext, Ex!ExerciseStep, Ex!ExerciseChildStep,
        Ex!Prepare, Ex!ForkOne, Ex!Reap, Ex!AskAgain, Ex!DoOtherThings,
        Ex!EnterHandler, Ex!Handler, Ex!ChildEnds
<1>2. /\ parentAt' \in {"start", "fork", "wait", "sleep", "spin", "handler", "exit"}
      /\ childAt' \in {"none", "run", "zombie", "reaped"}
  BY DEF exerciseVars, Ex!ExerciseTypeOK, Ex!ExerciseNext, Ex!ExerciseStep,
     Ex!ExerciseChildStep, Ex!Prepare, Ex!ForkOne, Ex!Reap, Ex!AskAgain,
     Ex!DoOtherThings, Ex!EnterHandler, Ex!Handler, Ex!WriteByte, Ex!ChildEnds
<1>3. /\ readEnd' \in {readEnd, FALSE} \/ readEnd' = (program = "fill")
      /\ handled' = handled \/ handled' = (program = "handler")
      /\ pending' \in {pending, FALSE, handled}
  BY DEF exerciseVars, Ex!ExerciseNext, Ex!ExerciseStep, Ex!ExerciseChildStep,
     Ex!Prepare, Ex!ForkOne, Ex!Reap, Ex!AskAgain, Ex!DoOtherThings,
     Ex!EnterHandler, Ex!Handler, Ex!WriteByte, Ex!ChildEnds
<1>4. readEnd' \in BOOLEAN /\ handled' \in BOOLEAN /\ pending' \in BOOLEAN
  BY <1>0, <1>3
<1> QED
  BY <1>1, <1>2, <1>4 DEF Ex!ExerciseTypeOK

----------------------------------------------------------------------------
(* The programs together *)

\* The pool runs as its own specification says, or stands still.
THEOREM ProcessesRunPool == ProcessesSpec => Spec
<1>1. ProcessesInit => Init
  BY DEF ProcessesInit
<1>2. [ProcessesNext]_processesVars => [Next]_vars
  BY DEF ProcessesNext, processesVars, poolVars
<1> QED
  BY <1>1, <1>2, PTL DEF ProcessesSpec, Spec

\* Every component keeps its invariant; the shells' holds whichever program
\* runs.
ProgramsInv == /\ program \in Programs
               /\ PageInv /\ FifoInv /\ SaleInv /\ NameInv /\ ShellInv
               /\ Ex!ExerciseTypeOK

LEMMA ProgramsStart == ProcessesInit => ProgramsInv
<1> SUFFICES ASSUME ProcessesInit PROVE ProgramsInv
  OBVIOUS
<1>1. Ex!ExerciseTypeOK
  <2>1. 0 \in 0..PipeBytes
    BY ProcessesAssumption DEF Ex!ExercisesAssumption
  <2> QED
    BY <2>1 DEF ProcessesInit, Ex!ExerciseInit, Ex!ExerciseTypeOK
<1> QED
  BY <1>1, PageStarts, FifoStarts, SaleStarts, NamesStart, ShellStarts
  DEF ProcessesInit, ProgramsInv

LEMMA ProgramsKeep ==
  ProgramsInv /\ [ProcessesNext]_processesVars => ProgramsInv'
<1> SUFFICES ASSUME ProgramsInv, [ProcessesNext]_processesVars PROVE ProgramsInv'
  OBVIOUS
<1>1. UNCHANGED program
  BY DEF ProcessesNext, processesVars
<1>2. PageInv'
  BY PageKeeps DEF ProgramsInv, ProcessesNext, processesVars
<1>3. FifoInv'
  BY FifoKeeps DEF ProgramsInv, ProcessesNext, processesVars
<1>4. SaleInv'
  BY SaleKeeps DEF ProgramsInv, ProcessesNext, processesVars
<1>5. NameInv'
  BY NamesKeep DEF ProgramsInv, ProcessesNext, processesVars
<1>6. ShellInv'
  BY <1>1, ShellKeeps DEF ProgramsInv, ProcessesNext, processesVars
<1>7. Ex!ExerciseTypeOK'
  BY ExerciseKeeps DEF ProgramsInv, ProcessesNext, processesVars
<1> QED
  BY <1>1, <1>2, <1>3, <1>4, <1>5, <1>6, <1>7 DEF ProgramsInv

LEMMA ProgramsInvariance == ProcessesSpec => []ProgramsInv
BY ProgramsStart, ProgramsKeep, PTL DEF ProcessesSpec

\* The types of all components (Processes' TypesOK), for every value of the
\* constants.
THEOREM TypesCorrect == ProcessesSpec => []TypesOK
<1>1. ProgramsInv /\ IInv => TypesOK
  BY DEF ProgramsInv, IInv, TypesOK, PageInv, FifoInv, SaleInv, NameInv, ShellInv
<1> QED
  BY <1>1, ProcessesRunPool, Invariance, ProgramsInvariance, PTL

\* Each ticket is sold once and all of them are, however many threads sell
\* them (10-12); and no thread shows the name of an earlier one (10-11/demo).
THEOREM ThreadsAreRight == ProcessesSpec => []ThreadsRight
<1>1. ProgramsInv => ThreadsRight
  BY SaleIsRight DEF ProgramsInv, ThreadsRight, NameInv
<1> QED
  BY <1>1, ProgramsInvariance, PTL

\* The assertion in the shared memory server's Wait fails only for a client
\* that was cut off (10-3), however often the server is started.
THEOREM AbortsAreCutOffs == ProcessesSpec => []AbortsOnlyIfCutOff
<1>1. ProgramsInv => AbortsOnlyIfCutOff
  BY PageIsRight DEF ProgramsInv, AbortsOnlyIfCutOff
<1> QED
  BY <1>1, ProgramsInvariance, PTL

\* A shell's command has the one redirection of its line's last operator, unless
\* open() failed, and the environment of the latest export (the three shells),
\* for any lines.
THEOREM CommandsRunWithLatest == ProcessesSpec => []RunsWithLatest
<1>1. ProgramsInv => RunsWithLatest
  BY CommandIsRight DEF ProgramsInv, RunsWithLatest
<1> QED
  BY <1>1, ProgramsInvariance, PTL

\* The FIFO server closes its FIFO over unread lines only if the last one was
\* written when no child was reading (10-2), for any number of children.
THEOREM FifoLinesRead == ProcessesSpec => []Fifo!LinesRead
<1>1. ProgramsInv => Fifo!LinesRead
  BY LinesAreRead DEF ProgramsInv
<1> QED
  BY <1>1, ProgramsInvariance, PTL
=============================================================================
